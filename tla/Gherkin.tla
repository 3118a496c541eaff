------------------------------- MODULE Gherkin -------------------------------
(***************************************************************************)
(* The feature file of a document (server/renderers/gherkin.py): one file  *)
(* with a scenario for each test case, and above them a Background with    *)
(* what the first one inherits and what is lifted out of it.               *)
(*                                                                         *)
(* A document is a sequence of cases [kind, title, pre, steps], of which   *)
(* pre holds the sentences of the preconditions; all of them are shared.   *)
(* Of the file the step lines are modelled; header, tags, titles, notes    *)
(* and tables are left out.                                                *)
(***************************************************************************)
EXTENDS Narrative

CONSTANT NoStep   \* stands on a line that no step of the document is behind

\* A bug report is no scenario.
TestCases(doc) ==
    FlattenSeq([c \in DOMAIN doc |-> IF doc[c].kind = "test_case" THEN <<doc[c]>> ELSE <<>>])

\* The narrative of a scenario: a Background is lifted out of the first of
\* several.
Lift(scenarios, n) == n = 1 /\ Len(scenarios) > 1

LiftedLines(scenarios) ==
    IF scenarios = <<>> THEN <<>> ELSE Lifted(scenarios[1].steps, Lift(scenarios, 1))

BodyLines(scenarios, n) == Body(scenarios[n].steps, Lift(scenarios, n))

Inherited(scenarios) == IF scenarios = <<>> THEN <<>> ELSE scenarios[1].pre

\* A lifted Given goes on with the block the inherited ones have opened.
Continued(lines, pre) ==
    [k \in DOMAIN lines |->
        IF k = 1 /\ pre # <<>> /\ lines[k].keyword = "Given"
        THEN [lines[k] EXCEPT !.keyword = "And"] ELSE lines[k]]

Background(scenarios) ==
    LET pre == Inherited(scenarios)
    IN [k \in DOMAIN pre |-> [keyword |-> IF k = 1 THEN "Given" ELSE "And", text |-> pre[k],
                              step |-> NoStep, claim |-> NoClaim]]
       \o Continued(LiftedLines(scenarios), pre)

Bodies(scenarios) == FlattenSeq([n \in DOMAIN scenarios |-> BodyLines(scenarios, n)])

FeatureLines(doc) == Background(TestCases(doc)) \o Bodies(TestCases(doc))
=============================================================================
