------------------------------- MODULE Assembly -------------------------------
(***************************************************************************)
(* From the document the author drafted to the one that is reviewed        *)
(* (server/pipeline/run.py: _split_on_declared_breaks, _assemble,          *)
(* _build_case, _bug_detail; server/pipeline/segment.py: break_openers).   *)
(*                                                                         *)
(* A drafted document is a sequence of scenarios, each a sequence of       *)
(* steps [id, text, role, keyword, events, claims, bug, low] with their    *)
(* events in order.  A recorded session is here the events in order and    *)
(* the places of its scenario breaks: a break at place n was declared      *)
(* before the n-th event.  Titles, tags, parameters and metadata are left  *)
(* out.                                                                    *)
(***************************************************************************)
EXTENDS Narrative

\* The first event at or after each break.
BreakOpeners(events, breaks) == {events[n] : n \in breaks \cap DOMAIN events}


\* Where a scenario is cut: at a step whose first event opens a break, unless
\* the scenario begins with it.  An opener that is a later event of its step
\* cuts nothing.
Cuts(steps, openers) ==
    {i \in 2..Len(steps) : steps[i].events # <<>> /\ steps[i].events[1] \in openers}

Groups(steps, openers) ==
    IF steps = <<>> THEN <<>> ELSE
    LET starts == SetToSortSeq({1} \cup Cuts(steps, openers), <)
        End(g) == IF g = Len(starts) THEN Len(steps) ELSE starts[g + 1] - 1
    IN [g \in DOMAIN starts |-> SubSeq(steps, starts[g], End(g))]

\* The cuts are kept only if they make the document longer.
SplitOnDeclaredBreaks(drafted, openers) ==
    LET out == FlattenSeq([n \in DOMAIN drafted |-> Groups(drafted[n], openers)])
    IN IF Len(out) > Len(drafted) THEN out ELSE drafted

---------------------------------------------------------------------------
\* A flagged step that reached a claim makes its scenario a bug report.
Kind(steps) == IF \E i \in DOMAIN steps : steps[i].bug /\ Asserts(steps[i])
               THEN "bug_report" ELSE "test_case"

AssembledStep(step) ==
    [id |-> step.id, text |-> step.text, role |-> step.role, keyword |-> step.keyword,
     events |-> ToSet(step.events), claims |-> step.claims, asked |-> FALSE, low |-> step.low]

AssembledSteps(steps) ==
    Sync(MergeRepeats([i \in DOMAIN steps |-> AssembledStep(steps[i])]))

\* The sentences of the setup steps of a scenario.
SetupTexts(steps) ==
    LET setup == SelectSeq(steps, LAMBDA step : step.role = "setup")
    IN [k \in DOMAIN setup |-> setup[k].text]

\* What scenario n takes over from the ones before it.
InheritedSetup(scenarios, n) ==
    FlattenSeq([m \in 1..(n - 1) |-> SetupTexts(AssembledSteps(scenarios[m]))])

BuildCase(scenarios, n) ==
    [kind  |-> Kind(scenarios[n]), title |-> "drafted",
     pre   |-> InheritedSetup(scenarios, n),
     steps |-> AssembledSteps(scenarios[n])]

\* _assemble, after the breaks have been made.  A scenario without steps is none.
Assemble(drafted, openers) ==
    LET scenarios == SelectSeq(SplitOnDeclaredBreaks(drafted, openers),
                               LAMBDA steps : steps # <<>>)
    IN [n \in DOMAIN scenarios |-> BuildCase(scenarios, n)]
=============================================================================
