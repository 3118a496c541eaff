------------------------------ MODULE ReviewOps ------------------------------
(***************************************************************************)
(* What a reviewer can do to a document (server/api/review.py, and the     *)
(* endpoints of server/api/app.py that call it).                           *)
(*                                                                         *)
(* Every action is a whole request: the edit, the record of it and the     *)
(* keywords of all steps laid out again.  A request that is refused, or    *)
(* that changes nothing and is not recorded, is no step.  A document is a  *)
(* sequence of cases, see Gherkin.  A request names a step by its id, which *)
(* another may have as well (author.py:926): the step that is found is the *)
(* first of them, and steps are taken out of a case by their ids.  An      *)
(* action has the place of the step that is found.  A feature text in      *)
(* which several lines are reworded is replayed line by line, so one line  *)
(* at a time stands for it.  How one save meets another, and a run, and    *)
(* what was approved is ReviewDesk's subject.                              *)
(***************************************************************************)
EXTENDS Gherkin

CONSTANTS Documents,  \* the documents a review may start from
          Words,      \* what a reviewer may write
          MaxEdits    \* bound on the recorded edits

VARIABLES cases,  \* the document, ir.testCases
          edits   \* review.edits, each [kind, case, step, claim]

\* Seen from outside only: the document as the pipeline left it; the events of
\* deleted steps; whether every merge named its steps once, and no merge or move
\* took out a step that shared the id of one it was about.
VARIABLES original, gone, plain

vars == <<cases, edits, original, gone, plain>>

StepIds(doc) == UNION {{doc[c].steps[i].id : i \in DOMAIN doc[c].steps} : c \in DOMAIN doc}
Events(doc)  ==
    UNION {UNION {doc[c].steps[i].events : i \in DOMAIN doc[c].steps} : c \in DOMAIN doc}

\* Steps have ids of their own and no case is empty.
DistinctSteps(doc) ==
    \A c, d \in DOMAIN doc : \A i \in DOMAIN doc[c].steps, j \in DOMAIN doc[d].steps :
        doc[c].steps[i].id = doc[d].steps[j].id => c = d /\ i = j
NoEmptyCase(doc) == \A c \in DOMAIN doc : doc[c].steps # <<>>

\* Mutant of Resync: leaves the keywords as they are.
ResyncNothing(doc) == doc

\* resync_keywords.
Resync(doc) == [c \in DOMAIN doc |-> [doc[c] EXCEPT !.steps = Sync(@)]]

\* What a document is made of.
IsClaim(claim) ==
    /\ claim = [id |-> claim.id, text |-> claim.text, accepted |-> claim.accepted, by |-> claim.by]
    /\ claim.accepted \in BOOLEAN /\ claim.id # NoClaim

IsStep(step) ==
    /\ step = [id |-> step.id, text |-> step.text, role |-> step.role, keyword |-> step.keyword,
               events |-> step.events, claims |-> step.claims, asked |-> step.asked, low |-> step.low]
    /\ IsSeq(step.claims) /\ \A k \in DOMAIN step.claims : IsClaim(step.claims[k])
    /\ step.role # "none" /\ step.id # NoStep

IsCase(case) ==
    /\ case = [kind |-> case.kind, title |-> case.title, pre |-> case.pre, steps |-> case.steps]
    /\ IsSeq(case.pre) /\ IsSeq(case.steps)
    /\ \A i \in DOMAIN case.steps : IsStep(case.steps[i])

IsDocument(doc) == IsSeq(doc) /\ \A c \in DOMAIN doc : IsCase(doc[c])

\* A document is saved with its keywords laid out (run.py:1113), each step has a
\* role (author.py:1722 says test_step where the author says nothing), and a
\* scenario without steps becomes no case (run.py:1083).
ASSUME DocumentsAssumption ==
    /\ MaxEdits \in Nat
    /\ \A doc \in Documents : IsDocument(doc) /\ Resync(doc) = doc /\ NoEmptyCase(doc)

---------------------------------------------------------------------------

\* Mutant of Record: forgets which step it was.
RecordNoStep(kind, c, step, claim) ==
    /\ Len(edits) < MaxEdits
    /\ edits' = Append(edits, [kind |-> kind, case |-> c, step |-> NoStep, claim |-> claim])

\* _record.  An edit is known by its place, which its id is made of.
Record(kind, c, step, claim) ==
    /\ Len(edits) < MaxEdits
    /\ edits' = Append(edits, [kind |-> kind, case |-> c, step |-> step, claim |-> claim])

\* _edit saves the document, and the record with it.
Save(doc) == cases' = Resync(doc) /\ UNCHANGED original

WithSteps(c, steps) == [cases EXCEPT ![c].steps = steps]
WithStep(c, i, step) == [cases EXCEPT ![c].steps[i] = step]

\* Mutant of Place: takes the first there is.
PlaceFirst(step, claim) == 1

\* The first expected result of a step that has an id.
Place(step, claim) == Min({k \in DOMAIN step.claims : step.claims[k].id = claim})
ClaimIds(step) == {step.claims[k].id : k \in DOMAIN step.claims}

\* _locate finds the step at this place: no step before it has its id.
Found(c, i) ==
    \A d \in 1..c : \A j \in DOMAIN cases[d].steps :
        cases[d].steps[j].id = cases[c].steps[i].id => d = c /\ i <= j

\* What a case is left with when steps are taken out by their ids.
Rid(steps, ids) ==
    FlattenSeq([i \in DOMAIN steps |-> IF steps[i].id \in ids THEN <<>> ELSE <<steps[i]>>])

\* No other step of its case has the id of this one.
Alone(steps, i) == \A j \in DOMAIN steps : steps[j].id = steps[i].id => j = i

Init ==
    /\ cases \in Documents
    /\ edits = <<>>
    /\ original = cases /\ gone = {} /\ plain = TRUE

EditStepText(c, i, word) ==
    LET step == cases[c].steps[i] IN
    /\ Save(WithStep(c, i, [step EXCEPT !.text = word]))
    /\ Record("step_text", c, step.id, NoClaim)
    /\ UNCHANGED <<gone, plain>>

SetAssertion(c, i, claim, accepted) ==
    LET step == cases[c].steps[i]
        k    == Place(step, claim)
    IN
    /\ step.claims[k].accepted # accepted
    /\ Save(WithStep(c, i, [step EXCEPT !.claims[k].accepted = accepted]))
    /\ Record(IF accepted THEN "assertion_accepted" ELSE "assertion_rejected", c, step.id, claim)
    /\ UNCHANGED <<gone, plain>>

EditAssertionText(c, i, claim, word) ==
    LET step == cases[c].steps[i]
        k    == Place(step, claim)
    IN
    /\ step.claims[k].text # word
    /\ Save(WithStep(c, i, [step EXCEPT !.claims[k].text = word]))
    /\ Record("assertion_text", c, step.id, claim)
    /\ UNCHANGED <<gone, plain>>

\* Mutant of Vouched: for all that was proposed.
VouchedAll(claims) == [k \in DOMAIN claims |-> [claims[k] EXCEPT !.by = "confirmed"]]

\* The reviewer's word stands for what is accepted.
Vouched(claims) ==
    [k \in DOMAIN claims |-> IF claims[k].accepted THEN [claims[k] EXCEPT !.by = "confirmed"]
                             ELSE claims[k]]

AnswerEscalation(c, i) ==
    LET step == cases[c].steps[i] IN
    /\ step.asked
    /\ Save(WithStep(c, i, [step EXCEPT !.asked = FALSE, !.low = FALSE, !.claims = Vouched(@)]))
    /\ Record("escalation_answered", c, step.id, NoClaim)
    /\ UNCHANGED <<gone, plain>>

---------------------------------------------------------------------------
\* Takes all steps with the id.
DeleteStep(c, i) ==
    LET steps == cases[c].steps
        taken == {k \in DOMAIN steps : steps[k].id = steps[i].id}
    IN
    /\ Len(steps) # 1
    /\ Save(WithSteps(c, Rid(steps, {steps[i].id})))
    /\ Record("step_deleted", c, steps[i].id, NoClaim)
    /\ gone' = gone \cup UNION {steps[k].events : k \in taken}
    /\ UNCHANGED plain

\* Mutant of Together: takes over the expected results only.
TogetherClaims(steps, first, last) ==
    [steps[first] EXCEPT
        !.claims = FlattenSeq([i \in 1..(last - first + 1) |-> steps[first + i - 1].claims])]

\* A step takes over the events and the expected results of others.
Together(steps, first, last) ==
    [steps[first] EXCEPT
        !.events = UNION {steps[i].events : i \in first..last},
        !.claims = FlattenSeq([i \in 1..(last - first + 1) |-> steps[first + i - 1].claims])]

\* The places a merge may be about: each is where its id comes last in the case,
\* and one of the ids, which the request names first, is found in this case.
Mergeable(c, places) ==
    LET steps == cases[c].steps IN
    /\ \A k \in places : \A j \in DOMAIN steps : steps[j].id = steps[k].id => j <= k
    /\ \E k \in places : \A d \in 1..(c - 1) : \A j \in DOMAIN cases[d].steps :
           cases[d].steps[j].id # steps[k].id

\* Steps that are next to each other, each named once and in any order.
MergeSteps(c, first, last, text) ==
    LET steps    == cases[c].steps
        keeper   == [Together(steps, first, last) EXCEPT !.text = text]
        absorbed == {steps[k].id : k \in (first + 1)..last}
    IN
    /\ first < last
    /\ Mergeable(c, first..last)
    /\ Save(WithSteps(c, Rid([steps EXCEPT ![first] = keeper], absorbed)))
    /\ Record("steps_merged", c, steps[first].id, NoClaim)
    /\ plain' = (plain /\ \A k \in (first + 1)..last : Alone(steps, k))
    /\ UNCHANGED gone

\* A request may name a step twice.  Of three names that pass for adjacent two
\* are one of them and the third is of the step after next.  If the first is
\* named twice, it is absorbed itself; if the last is, its results come twice.
MergeNamedTwice(c, first, twice) ==
    LET steps  == cases[c].steps
        last   == first + 2
        claims == steps[first].claims \o steps[last].claims \o steps[last].claims
        keeper == [steps[first] EXCEPT !.events = @ \cup steps[last].events, !.claims = claims]
    IN
    /\ last <= Len(steps)
    /\ Mergeable(c, {first, last})
    /\ IF twice = first
       THEN Save(WithSteps(c, Rid(steps, {steps[first].id, steps[last].id})))
       ELSE Save(WithSteps(c, Rid([steps EXCEPT ![first] = keeper], {steps[last].id})))
    /\ Record("steps_merged", c, steps[first].id, NoClaim)
    /\ plain' = FALSE
    /\ UNCHANGED gone

\* Takes all steps with the id out and puts the one that is found in.  A position
\* below 0 counts as 0, one beyond the end as the end.
MoveStep(c, i, d, position) ==
    LET steps == cases[c].steps
        left  == WithSteps(c, Rid(steps, {steps[i].id}))
        at    == Min({position, Len(left[d].steps)})
    IN
    /\ Len(steps) # 1
    /\ Save([left EXCEPT ![d].steps = InsertAt(@, at + 1, steps[i])])
    /\ Record("step_moved", d, steps[i].id, NoClaim)
    /\ plain' = (plain /\ Alone(steps, i))
    /\ UNCHANGED gone

RenameCase(c, title) ==
    /\ Save([cases EXCEPT ![c].title = title])
    /\ Record("case_renamed", c, NoStep, NoClaim)
    /\ UNCHANGED <<gone, plain>>

\* Of the document, approving only lays the keywords out again.
Approve == Save(cases) /\ UNCHANGED <<edits, gone, plain>>

---------------------------------------------------------------------------
\* apply_feature_text: the lines of the file that belong to the document, in the
\* order of the file.  It lays the scenarios out again.
EditLift(scenarios, n) == n = 1 /\ Len(scenarios) > 1

Targets(doc) ==
    LET scenarios == TestCases(doc)
        Of(n) == (IF n = 1 THEN Lifted(scenarios[1].steps, EditLift(scenarios, 1)) ELSE <<>>)
                 \o Body(scenarios[n].steps, EditLift(scenarios, n))
    IN FlattenSeq([n \in DOMAIN scenarios |-> Of(n)])

\* The lines of the Background that come from another case are not for editing.
Prefix(doc) == IF Background(TestCases(doc)) # <<>> THEN Len(Inherited(TestCases(doc))) ELSE 0

\* A line of the document is given another wording in the file; a text that does
\* not line up with the document is refused.
EditFeatureText(line, word) ==
    /\ Len(FeatureLines(cases)) = Prefix(cases) + Len(Targets(cases))
    /\ line.text # word
    /\ \E c \in DOMAIN cases : \E i \in DOMAIN cases[c].steps :
           /\ cases[c].steps[i].id = line.step /\ Found(c, i)
           /\ \/ line.claim = NoClaim /\ EditStepText(c, i, word)
              \/ /\ line.claim \in ClaimIds(cases[c].steps[i])
                 /\ EditAssertionText(c, i, line.claim, word)

---------------------------------------------------------------------------
EditStep(c, i) ==
    LET step == cases[c].steps[i] IN
    \/ \E word \in Words : EditStepText(c, i, word)
    \/ \E claim \in ClaimIds(step), accepted \in BOOLEAN : SetAssertion(c, i, claim, accepted)
    \/ \E claim \in ClaimIds(step), word \in Words : EditAssertionText(c, i, claim, word)
    \/ AnswerEscalation(c, i)
    \/ DeleteStep(c, i)
    \/ \E d \in DOMAIN cases : \E position \in 0..Len(cases[d].steps) :
           MoveStep(c, i, d, position)

Merge(c, i) ==
    \/ \E last \in DOMAIN cases[c].steps, text \in Words \cup {cases[c].steps[i].text} :
           MergeSteps(c, i, last, text)
    \/ \E twice \in {i, i + 2} : MergeNamedTwice(c, i, twice)

Next ==
    \/ \E c \in DOMAIN cases : \E i \in DOMAIN cases[c].steps :
           (Found(c, i) /\ EditStep(c, i)) \/ Merge(c, i)
    \/ \E c \in DOMAIN cases, word \in Words : RenameCase(c, word)
    \/ \E line \in ToSet(Targets(cases)), word \in Words : EditFeatureText(line, word)
    \/ Approve

Spec == Init /\ [][Next]_vars

---------------------------------------------------------------------------
EditKinds == {"step_text", "assertion_accepted", "assertion_rejected", "assertion_text",
              "escalation_answered", "step_deleted", "steps_merged", "step_moved",
              "case_renamed"}

\* The record names cases and steps the document has or once had.
ReviewTypeOK ==
    /\ DOMAIN cases = DOMAIN original
    /\ StepIds(cases) \subseteq StepIds(original)
    /\ Len(edits) <= MaxEdits
    /\ \A n \in DOMAIN edits :
           /\ edits[n].kind \in EditKinds /\ edits[n].case \in DOMAIN cases
           /\ edits[n].step \in StepIds(original) \cup {NoStep}
    /\ plain \in BOOLEAN /\ gone \subseteq Events(original)

\* No event is of two steps.
ClaimedOnce(doc) ==
    \A c, d \in DOMAIN doc : \A i \in DOMAIN doc[c].steps, j \in DOMAIN doc[d].steps :
        doc[c].steps[i].events \cap doc[d].steps[j].events # {} => c = d /\ i = j

\* Merging and moving lose no event and let none be claimed twice that was claimed
\* once; only deleting steps takes their events away (review.py:200-202).  Holds
\* of every document, whatever ids its steps have, as long as no merge has named
\* a step twice and no merge or move has taken out a step that another of its
\* case shares its id with: with them the events of that step are lost.
EventsAreAccountedFor ==
    plain => /\ Events(cases) \cup gone = Events(original)
             /\ ClaimedOnce(original) => ClaimedOnce(cases)

\* A line of the feature file that is a step's own has a step behind it with this
\* text and, stored, this keyword, which the reviewer sees, although the file
\* lifts a Background and the keywords are laid out without it
\* (narrative.py:244-251, review.py:462-469).  The one line that differs is the
\* first lifted one, when inherited preconditions stand above it.
KeywordsAgree ==
    LET lines  == FeatureLines(cases)
        prefix == Prefix(cases)
        lifted == Len(LiftedLines(TestCases(cases)))
        Continuing(n) == n = prefix + 1 /\ prefix > 0 /\ lifted > 0
    IN \A n \in DOMAIN lines :
           lines[n].step # NoStep /\ lines[n].claim = NoClaim /\ ~Continuing(n)
           => \E c \in DOMAIN cases : \E i \in DOMAIN cases[c].steps :
                  LET step == cases[c].steps[i] IN
                  /\ lines[n].step = step.id /\ lines[n].text = step.text
                  /\ lines[n].keyword = step.keyword

\* Whatever the reviewer does, the Background asserts nothing and acts nowhere, a
\* scenario with steps has lines and begins none of its own with And, and Given
\* stands at its head only (narrative.py:290-312, 149-160).
ScenariosAreWellShaped ==
    LET scenarios == TestCases(cases)
        above     == Background(scenarios)
    IN
    /\ \A n \in DOMAIN above : above[n].keyword \in {"Given", "And"}
    /\ \A n \in DOMAIN scenarios :
           LET body == BodyLines(scenarios, n) IN
           /\ scenarios[n].steps # <<>> => body # <<>> /\ body[1].keyword \in {"Given", "When"}
           /\ \A k \in DOMAIN body : body[k].keyword = "Given" => k = 1

\* The lines of the feature file from the first editable one on are those the
\* edited text is replayed on: an unedited file changes nothing, and no line
\* lands on another's step (review.py:366-385).
FileLinesUp ==
    LET lines   == FeatureLines(cases)
        targets == Targets(cases)
        prefix  == Prefix(cases)
        Same(line, target) == /\ line.text = target.text /\ line.step = target.step
                              /\ line.claim = target.claim
    IN /\ Len(lines) = prefix + Len(targets)
       /\ \A k \in DOMAIN targets : Same(lines[k + prefix], targets[k])

\* The document, its stored keywords and its feature file stay in agreement with
\* one another whatever is edited: the keywords a reviewer sees are those of the
\* file (462-469), the file is a well-formed feature, and the editable text lines
\* up with the document (366-385).  Where the author had given each step an id of
\* its own, each still has one and no test case is left without a step
\* (review.py:181-182, 249-252); where not, deleting or moving by id may empty a
\* case in spite of review.py:181-182, which count steps and not ids.
DocumentIsCoherent ==
    /\ DistinctSteps(original) => DistinctSteps(cases) /\ NoEmptyCase(cases)
    /\ KeywordsAgree
    /\ ScenariosAreWellShaped
    /\ FileLinesUp

\* edited_step_ids.
EditedStepIds == {edits[n].step : n \in DOMAIN edits}

\* A step whose id the record does not name is, but for the keyword, one that the
\* pipeline left in the same case: the record is the only source of difficulty
\* labels (review.py:8-11, 474-476).
ChangedStepsAreLabelled ==
    \A c \in DOMAIN cases : \A i \in DOMAIN cases[c].steps :
        LET now == cases[c].steps[i] IN
        now.id \notin EditedStepIds =>
            \E j \in DOMAIN original[c].steps :
                now = [original[c].steps[j] EXCEPT !.keyword = now.keyword]

\* The expected results a person stands for.
Confirmed(doc) ==
    UNION {UNION {{claim \in ToSet(doc[c].steps[i].claims) : claim.by = "confirmed"} :
                  i \in DOMAIN doc[c].steps} : c \in DOMAIN doc}

\* An expected result becomes confirmed only when a question about its step is
\* answered, and only if it is accepted: agreeing, rewording, merging or moving
\* is no testimony (review.py:81-83, 148-151).
OnlyAnswersConfirm ==
    [][\A claim \in Confirmed(cases') :
           \/ \E old \in Confirmed(cases) : old.id = claim.id
           \/ /\ claim.accepted
              /\ Last(edits').kind = "escalation_answered"
              /\ \E c \in DOMAIN cases : \E i \in DOMAIN cases[c].steps :
                     /\ Found(c, i) /\ cases[c].steps[i].id = Last(edits').step
                     /\ cases[c].steps[i].asked /\ claim.id \in ClaimIds(cases[c].steps[i])]_vars

\* Two states of the file differ in the wording of the edited sentence at most.
OnlyRewords(edit, was, now) ==
    /\ Len(now) = Len(was)
    /\ \A n \in DOMAIN was :
           \/ now[n] = was[n]
           \/ /\ was[n].step = edit.step /\ was[n].claim = edit.claim
              /\ [now[n] EXCEPT !.text = was[n].text] = was[n]

\* Rewording, in a form or in the feature text, changes the line of the file that
\* has the sentence, and neither another line nor a keyword (review.py:386-401).
\* Steps that share an id, or claims of one step that do, are not told apart.
RewordingStaysInItsLine ==
    [][edits' # edits /\ Last(edits').kind \in {"step_text", "assertion_text"}
       => OnlyRewords(Last(edits'), FeatureLines(cases), FeatureLines(cases'))]_vars
=============================================================================
