-------------------------------- MODULE Stages --------------------------------
(***************************************************************************)
(* What the stages around the author make of an answer of the model        *)
(* (server/pipeline/expectations.py, judge.py, coverage.py): the guesses   *)
(* of what should have happened, the findings of the judge, and the        *)
(* suggestions of what to record next.  Prompts and wording are left out;  *)
(* how the answer was reached is the loop of AuthorRun.                    *)
(*                                                                         *)
(*   guess       [events, expected, fromTester], an empty text for none    *)
(*   finding     [check, severity, step, what]                             *)
(*   suggestion  [category, text, rationale, basedOn]                      *)
(***************************************************************************)
EXTENDS Authoring, Validators

CONSTANTS
    MaxSuggestions,   \* a case gets no more              (coverage.py:59)
    Checks,           \* what the judge may object to     (judge.py)
    Categories        \* what may be suggested            (coverage.py:61)

---------------------------------------------------------------------------
(* The guesses. *)
Notable(note) == note.text # {}

\* The claim that the tester said so is looked up: near these events something
\* was said or written down.
TesterSpokeAbout(rec, ids) ==
    LET times == {Event(rec, id).time : id \in ToSet(ids)}
        from == IF Min(times) > IntentWindow THEN Min(times) - IntentWindow ELSE 0
        to == Max(times) + IntentWindow
    IN \/ \E note \in ToSet(rec.annotations) : Notable(note) /\ note.time \in from..to
       \/ NarratedIn(rec, from, to) # <<>>

\* A guess about nothing known is none; the others keep the number they had.
ProposeExpectations(rec, raw) ==
    {[id |-> i, events |-> Known(rec, raw[i].events),
      source |-> IF raw[i].fromTester /\ TesterSpokeAbout(rec, Known(rec, raw[i].events))
                 THEN "stated" ELSE "inferred"] :
        i \in {k \in DOMAIN raw : raw[k].expected # {} /\ Known(rec, raw[k].events) # <<>>}}

---------------------------------------------------------------------------
(* The judge. *)
StepIds(cases) == UNION {{case.steps[i].id : i \in DOMAIN case.steps} : case \in ToSet(cases)}

\* An objection nobody knows is dropped, one of unknown weight is weak, and one
\* about an unknown step is about the document.
JudgeDocument(raw, cases) ==
    LET known == SelectSeq(raw, LAMBDA item : item.check \in Checks /\ item.what # {})
    IN [k \in DOMAIN known |->
          [known[k] EXCEPT !.severity = IF @ \in {"fail", "weak"} THEN @ ELSE "weak",
                           !.step = IF @ \in StepIds(cases) THEN @ ELSE <<>>]]

---------------------------------------------------------------------------
(* The suggestions. *)
Worthwhile(case, raw) ==
    /\ raw.text # {} /\ raw.rationale # {}
    /\ raw.category \in Categories
    /\ ~ReadsBackAsStep(raw.text, case)

Collect(case, raw) ==
    LET kept == SelectSeq(raw, LAMBDA one : Worthwhile(case, one))
    IN SubSeq(kept, 1, Min({Len(kept), MaxSuggestions}))

\* A bug report gets none; a case for which nothing is left keeps what it had.
SuggestCoverage(cases, raw) ==
    [n \in DOMAIN cases |->
        IF cases[n].kind = "bug_report" \/ Collect(cases[n], raw) = <<>> THEN cases[n]
        ELSE [cases[n] EXCEPT !.suggestions = Collect(cases[n], raw)]]
=============================================================================
