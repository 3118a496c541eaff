------------------------------ MODULE Narrative ------------------------------
(***************************************************************************)
(* The layout of a scenario (server/pipeline/narrative.py): which keyword  *)
(* a step is rendered with, where its expected results go, what is lifted  *)
(* into a Background, and when two adjacent steps are one.                 *)
(*                                                                         *)
(* The code walks the steps with the previous line's keyword in hand; here *)
(* that keyword is a function of the step before.  Blank lines between     *)
(* beats are left out.  A step is a record                                 *)
(*                                                                         *)
(*   [id, text, role, keyword, events, claims, asked, low]                 *)
(*                                                                         *)
(* of which claims, its expected results, is a sequence of records         *)
(* [id, text, accepted, by]; asked says whether it has an open question    *)
(* and low whether its confidence is low.                                  *)
(***************************************************************************)
EXTENDS Naturals, Sequences, FiniteSets, FiniteSetsExt, SequencesExt

CONSTANT NoClaim   \* stands on a line that is a step's own

IsSeq(s) == s \in Seq(ToSet(s))

\* The role decides; the stored keyword is only the fallback.
BaseKeyword(step) ==
    CASE step.role = "setup" -> "Given"
      [] step.role = "none"  -> IF step.keyword = "Given" THEN "Given" ELSE "When"
      [] OTHER               -> "When"

\* Does a step carry an expected result the reader will see?
Asserts(step) == \E k \in DOMAIN step.claims : step.claims[k].accepted

Precondition(step) == BaseKeyword(step) = "Given" /\ ~Asserts(step)

\* How many steps at the head are still preconditions.
OpeningBlock(steps) ==
    Max({n \in 0..Len(steps) : \A i \in 1..n : Precondition(steps[i])})

\* A Given after the opening block is a When.
Placed(steps, i) ==
    IF BaseKeyword(steps[i]) = "Given" /\ i > OpeningBlock(steps)
    THEN "When" ELSE BaseKeyword(steps[i])

\* The keyword the line before a step stands for.
Previous(steps, i) ==
    IF i = 1 THEN "none"
    ELSE IF Asserts(steps[i - 1]) THEN "Then" ELSE Placed(steps, i - 1)

Keyword(steps, i) ==
    IF Placed(steps, i) = Previous(steps, i) THEN "And" ELSE Placed(steps, i)

---------------------------------------------------------------------------
\* The accepted expected results of a step, and these as lines.
Shown(claims) ==
    FlattenSeq([k \in DOMAIN claims |-> IF claims[k].accepted THEN <<claims[k]>> ELSE <<>>])

Expected(step) ==
    LET shown == Shown(step.claims)
    IN [k \in DOMAIN shown |-> [keyword |-> IF k = 1 THEN "Then" ELSE "And",
                                text |-> shown[k].text,
                                step |-> step.id, claim |-> shown[k].id]]

StepLine(steps, i) ==
    [keyword |-> Keyword(steps, i), text |-> steps[i].text,
     step |-> steps[i].id, claim |-> NoClaim]

LayOut(steps) ==
    FlattenSeq([i \in DOMAIN steps |-> <<StepLine(steps, i)>> \o Expected(steps[i])])

\* How many leading steps a Background takes, if anything is left for the
\* scenario.
LeadingSetup(steps) ==
    IF OpeningBlock(steps) < Len(steps) THEN OpeningBlock(steps) ELSE 0

\* build_narrative: what is lifted and what is left.
Lifted(steps, lift) ==
    LayOut(SubSeq(steps, 1, IF lift THEN LeadingSetup(steps) ELSE 0))

Body(steps, lift) ==
    LayOut(SubSeq(steps, IF lift THEN LeadingSetup(steps) + 1 ELSE 1, Len(steps)))

\* sync_keywords: each step stores the keyword it is rendered with.
Sync(steps) == [i \in DOMAIN steps |-> [steps[i] EXCEPT !.keyword = Keyword(steps, i)]]

---------------------------------------------------------------------------
\* The expected results with a sentence that none before them has.
Dedupe(claims) ==
    LET Fresh(kept, claim) ==
            IF \E k \in DOMAIN kept : kept[k].text = claim.text THEN kept
            ELSE Append(kept, claim)
    IN FoldLeft(Fresh, <<>>, claims)

\* Mutant of Absorb: keeps the events of the first step only.
AbsorbText(keeper, other) == [keeper EXCEPT !.claims = Dedupe(@ \o other.claims)]

\* Folds a step into the one before it, losing nothing the gate checks.
Absorb(keeper, other) ==
    [keeper EXCEPT !.events = @ \cup other.events,
                   !.claims = Dedupe(@ \o other.claims),
                   !.low    = @ \/ other.low,
                   !.asked  = @ \/ other.asked]

\* Adjacent steps that say the same are one.
MergeRepeats(steps) ==
    LET Take(out, step) ==
            IF out # <<>> /\ Last(out).text = step.text
            THEN Append(Front(out), Absorb(Last(out), step))
            ELSE Append(out, step)
    IN FoldLeft(Take, <<>>, steps)
=============================================================================
