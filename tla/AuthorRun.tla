------------------------------ MODULE AuthorRun ------------------------------
(***************************************************************************)
(* One round of the pipeline, from the segments to the suggestions         *)
(* (server/pipeline/investigate.py, author.py: write_document, run.py:     *)
(* run_pipeline, server/evidence/tools.py: ToolRunner).                    *)
(*                                                                         *)
(* The recording is cut into segments and a guess is made of what should   *)
(* have happened. Then the model asks one retrieval per turn, is told when *)
(* it has had enough of them and when it answers without any, and in the   *)
(* end its answer is made a document, put before the gate and the judge,   *)
(* and extended with suggestions. What the model says is any of Answers,   *)
(* at any turn. A file of the log may be lost or overwritten once, as the  *)
(* code expects.                                                           *)
(***************************************************************************)
EXTENDS Stages, SessionIndex

CONSTANTS
    Authored,      \* bound: the recordings a run goes on with
    Guesses,       \* the guesses the model may make
    Requests,      \* the retrievals it may ask for, [tool, arg]
    Answers,       \* the answers it may give
    JudgeAnswers, CoverageAnswers,
    Budget,        \* retrievals it is granted               (author.py:90)
    MaxTurns, MaxForced,    \* of a conversation             (investigate.py:38)
    MaxDamage      \* files that are lost or overwritten

VARIABLES
    tools,         \* are there any?                         (options.tools_enabled)
    expectations,  \* what the tester said of the guesses
    talk,          \* [turn, forced, stop, answer]           (Investigation)
    log,           \* [calls, cited]                         (runner.calls, tool_call_ids)
    damage,        \* files lost or overwritten so far
    drafted,       \* the document of the author
    cases, report, findings

NoAnswer == [background |-> <<>>, lines |-> <<>>, annotations |-> <<>>, steps |-> <<>>,
             scenarios |-> <<>>, omitted |-> <<>>]

\* What a recording and an answer are made of. A line of a file has a text
\* (featurefile.py:201).
AreLists(fields) == \A s \in fields : IsSeq(s)

IsEvent(event) ==
    /\ \A page \in {event.before, event.after, event.transient} : AreLists({page.tree, page.live})
    /\ AreLists({event.network, event.console, event.diff.urls, event.diff.titles,
                 event.diff.changed, event.diff.added, event.diff.removed})

AreLines(lines) == IsSeq(lines) /\ \A k \in DOMAIN lines : lines[k].text # {}
AreAnnotations(raws) == IsSeq(raws) /\ \A k \in DOMAIN raws : IsSeq(raws[k].events)

IsAnswer(answer) ==
    /\ AreLists({answer.lines, answer.scenarios})
    /\ AreLines(answer.background) /\ \A n \in DOMAIN answer.lines : AreLines(answer.lines[n])
    /\ AreAnnotations(answer.annotations) /\ AreAnnotations(answer.steps)
    /\ \A n \in DOMAIN answer.scenarios : IsSeq(answer.scenarios[n])

ASSUME AuthorRunAssumption ==
    /\ {RescueBudget, MaxRows, MaxMatches} \subseteq Nat
    /\ \A rec \in Recordings : \A n \in DOMAIN rec.events : IsEvent(rec.events[n])
    /\ \A request \in Requests : request.tool \in Tools
    /\ \A answer \in Answers : IsAnswer(answer)

sessionVars == <<recording, placed, cut>>
authorVars == <<tools, expectations, talk, log, damage, drafted, cases, report, findings>>
runVars == <<segmentVars, authorVars>>

Binding == [calls |-> log.calls, cited |-> log.cited, rescues |-> 0, refused |-> <<>>]
Context == [rec |-> recording, expectations |-> expectations, tools |-> tools]
Gated == [rec |-> recording, calls |-> log.calls, cases |-> cases]

Init ==
    /\ SegmentInit
    /\ tools \in BOOLEAN
    /\ expectations = {}
    /\ talk = [turn |-> 0, forced |-> 0, stop |-> "none", answer |-> NoAnswer]
    /\ log = [calls |-> <<>>, cited |-> <<>>]
    /\ damage = 0
    /\ drafted = Drafted(Binding, <<>>, <<>>, "none")
    /\ cases = <<>> /\ report = <<>> /\ findings = <<>>

\* The guesses, and what the tester made of them: confirmed, corrected, rejected
\* or left as they were.
Guess ==
    /\ stage = "expectations" /\ recording \in Authored
    /\ \E raw \in Guesses :
         LET proposed == ProposeExpectations(recording, raw)
         IN \E answered \in SUBSET proposed, source \in {"confirmed", "rejected"} :
              expectations' = (proposed \ answered)
                  \cup {[item EXCEPT !.source = source] : item \in answered}
    /\ stage' = "asking"
    /\ UNCHANGED <<sessionVars, tools, talk, log, damage, drafted, cases, report, findings>>

---------------------------------------------------------------------------
(* The conversation. *)
Turn == stage = "asking" /\ talk.turn < MaxTurns
Kept == UNCHANGED <<sessionVars, tools, expectations, damage, drafted, cases, report, findings>>

\* One retrieval; what it finds, an error too, is logged and may be cited.
Ask ==
    /\ Turn /\ tools /\ Len(log.cited) < Budget
    /\ \E request \in Requests :
         LET calls == Logged(log.calls, Answer(recording, request.tool, request.arg))
         IN log' = [calls |-> calls, cited |-> Append(log.cited, Len(calls))]
    /\ talk' = [talk EXCEPT !.turn = @ + 1,
                            !.stop = IF @ = "none" THEN "evidence_sufficient" ELSE @]
    /\ UNCHANGED stage /\ Kept

\* Told that there are no tools, or that it has had enough; the third time is the
\* last.
Told(stop) ==
    /\ talk' = [talk EXCEPT !.turn = @ + 1, !.forced = @ + 1, !.stop = stop]
    /\ stage' = IF talk.forced >= MaxForced THEN "answered" ELSE "asking"
    /\ UNCHANGED log /\ Kept

AskWithoutTools == Turn /\ ~tools /\ Told(talk.stop)
AskPastBudget == Turn /\ tools /\ Len(log.cited) >= Budget /\ Told("budget_exhausted")

\* _unretrieved_verdicts: an answer that quotes what it never looked at.
Unretrieved(answer) ==
    tools /\ log.cited = <<>> /\ Quotes(answer) /\ talk.forced < MaxForced

AnswerUnretrieved ==
    /\ Turn
    /\ \E answer \in Answers : Unretrieved(answer)
    /\ talk' = [talk EXCEPT !.turn = @ + 1, !.forced = @ + 1]
    /\ UNCHANGED <<stage, log>> /\ Kept

AnswerAccepted ==
    /\ Turn
    /\ \E answer \in Answers :
         /\ ~Unretrieved(answer)
         /\ talk' = [talk EXCEPT !.turn = @ + 1, !.answer = answer]
    /\ stage' = "answered"
    /\ UNCHANGED log /\ Kept

\* Out of turns, without an answer.
OutOfTurns ==
    /\ stage = "asking" /\ talk.turn = MaxTurns
    /\ stage' = "answered"
    /\ UNCHANGED <<talk, log>> /\ Kept

\* A file of the log is lost, or another job writes its own over it.
Damage ==
    /\ damage < MaxDamage /\ stage \in {"answered", "drafted"}
    /\ \E n \in DOMAIN log.calls, other \in {NoFile, Reply("get_snapshot", "none")} :
         log' = [log EXCEPT !.calls[n].stored = other]
    /\ damage' = damage + 1
    /\ UNCHANGED <<stage, sessionVars, tools, expectations, talk, drafted, cases, report, findings>>

---------------------------------------------------------------------------
(* The document. *)

\* The retrievals made on behalf of the author are logged like its own.
Write ==
    /\ stage = "answered"
    /\ \E document \in {Parse(Context, Binding, talk.answer)} :
         /\ log' = [calls |-> document.b.calls, cited |-> document.b.cited]
         /\ drafted' = [document EXCEPT !.scenarios = ApplyIntentNotes(recording, @)]
    /\ cases' = IR(drafted', {recording.events[n].id : n \in BreakPlaces(recording)})
    /\ stage' = "drafted"
    /\ UNCHANGED <<sessionVars, tools, expectations, talk, damage, report, findings>>

Gate ==
    /\ stage = "drafted"
    /\ report' = Validate(Gated)
    /\ stage' = "gated"
    /\ UNCHANGED <<sessionVars, tools, expectations, talk, log, damage, drafted, cases, findings>>

\* A judge that fails has found nothing; one that could look at nothing is not
\* asked.
Judge ==
    /\ stage = "gated"
    /\ IF tools THEN \E raw \in JudgeAnswers : findings' = JudgeDocument(raw, cases)
       ELSE UNCHANGED findings
    /\ stage' = "judged"
    /\ UNCHANGED <<sessionVars, tools, expectations, talk, log, damage, drafted, cases, report>>

\* The suggestions come after the gate, so what it says of them is asked again.
Suggest ==
    /\ stage = "judged"
    /\ IF tools
       THEN \E raw \in CoverageAnswers :
              LET suggested == SuggestCoverage(cases, raw)
              IN /\ cases' = suggested
                 /\ report' = SelectSeq(report, LAMBDA r : r.validator # "suggestions_quarantined")
                                \o SuggestionsQuarantined([Gated EXCEPT !.cases = suggested])
       ELSE UNCHANGED <<cases, report>>
    /\ stage' = "done"
    /\ UNCHANGED <<sessionVars, tools, expectations, talk, log, damage, drafted, findings>>

\* The first stage of the run.
Place == PlaceEvent /\ UNCHANGED authorVars
Finish == FinishSegments /\ UNCHANGED authorVars

Next ==
    \/ Place \/ Finish
    \/ Guess
    \/ Ask \/ AskWithoutTools \/ AskPastBudget
    \/ AnswerUnretrieved \/ AnswerAccepted \/ OutOfTurns
    \/ Damage
    \/ Write \/ Gate \/ Judge \/ Suggest

Spec == Init /\ [][Next]_runVars

---------------------------------------------------------------------------
(* Correctness. *)
Intact == \A n \in DOMAIN log.calls : log.calls[n].stored = log.calls[n].got
DraftedSteps == FlattenSeq(drafted.scenarios)
DraftedClaims == FlattenSeq([i \in DOMAIN DraftedSteps |-> DraftedSteps[i].claims])
Bound(claim) == claim.status = "proved"

\* What the author bound the gate finds to hold: the retrieval is one of this
\* conversation or made on its behalf, it says what is claimed of it, an absence
\* is shown on a page of the event it is about, and what is said to be there was
\* seen at the event.  Claims whose form could not be checked are left out.
ProvedClaimsHold ==
    stage = "drafted" /\ Intact =>
        \A claim \in ToSet(DraftedClaims) : Bound(claim) /\ ~claim.unresolved =>
            /\ claim.call \in ToSet(log.cited)
            /\ Supported(log.calls, claim) = "true"
            /\ IF Negative(claim.predicate) THEN log.calls[claim.call].got.event = claim.event
               ELSE ContainsAt(recording, claim.literal, claim.event)

\* The document reads as the file the author wrote, line by line, with every
\* expected result on the step above it, except for what the tester dictated; and
\* for everything that could not be bound there is a refusal to send back.
NothingWrittenIsLost ==
    stage = "drafted" /\ drafted.from = "file" =>
        LET Sentences(step) == <<step.text>> \o [k \in DOMAIN step.claims |-> step.claims[k].text]
            read == FlattenSeq([i \in DOMAIN DraftedSteps |-> Sentences(DraftedSteps[i])])
            written == FlattenSeq(Scenarios(talk.answer))
            dictated == {note.text : note \in ToSet(Notes(recording, "intent_note"))}
        IN /\ Len(read) = Len(written)
           /\ \A i \in DOMAIN read : read[i] \in {written[i].text} \cup dictated
           /\ Cardinality({i \in DOMAIN DraftedClaims : ~Bound(DraftedClaims[i])})
                = Len(drafted.b.refused)

\* A refusal that blames the run is true: when it says that nothing retrieved has
\* the string, then no retrieval had it when it was made, no file was broken, and
\* the pages where it could have been found were looked at, unless there were no
\* tools or too many had been needed already.  Too many are the rescues of one
\* document, and as many again when its file was given up for the steps; without
\* tools there are none at all.
RefusalsAreTrue ==
    [][stage = "answered" /\ stage' = "drafted" =>
        /\ ~tools => log'.calls = <<>>
        /\ Len(log'.cited) - Len(log.cited)
             <= (IF drafted'.from = "file" THEN 1 ELSE 2) * RescueBudget
        /\ \A r \in ToSet(drafted'.b.refused) : r.why = "never retrieved" =>
            /\ Corrupted(log.calls, log.cited) = {}
            /\ ~r.negative =>
                 /\ \A n \in ToSet(log.cited) : ~ResponseSupports(log.calls[n].got, r.literal)
                 /\ tools /\ r.event # "none" /\ drafted'.b.rescues < RescueBudget =>
                      ~ContainsLiteral(GetSnapshot(recording, r.event, "after"), r.literal)]_runVars
=============================================================================
