----------------------------- MODULE MCReviewOps -----------------------------
(* ReviewOps from documents that Assembly makes of small drafted ones, and  *)
(* Assembly itself over every small draft.                                  *)
EXTENDS ReviewOps, Assembly

Claim(id, text) == [id |-> id, text |-> text, accepted |-> TRUE, by |-> "inferred"]

Drafted(id, text, role, events, claims) ==
    [id |-> id, text |-> text, role |-> role, keyword |-> "When", events |-> events,
     claims |-> claims, bug |-> FALSE, low |-> TRUE]

Flagged(step) == [step EXCEPT !.bug = TRUE]

---------------------------------------------------------------------------
\* The documents that are reviewed come of a session of five events with a break
\* before the fourth.
Session == <<"e1", "e2", "e3", "e4", "e5">>
Openers == BreakOpeners(Session, {4})

\* One scenario that the tester's break cuts in two: a sign-in and an action that
\* comes back as two steps with the same sentence; a setup step that is checked,
\* and an action.
TwoFlows ==
    << << Drafted("s1", "signs in", "setup", <<"e1">>, <<>>),
          Drafted("s2", "adds", "test_step", <<"e2">>, <<Claim("c1", "one item")>>),
          Drafted("s3", "adds", "test_step", <<"e3">>, <<Claim("c2", "a total")>>),
          Drafted("s4", "opens the cart", "setup", <<"e4">>, <<Claim("c3", "a total")>>),
          Drafted("s5", "orders", "test_step", <<"e5">>, <<>>) >> >>

\* A bug report first, so that the first scenario of the file inherits its setup.
AfterABug ==
    << << Flagged(Drafted("s1", "signs in", "setup", <<"e1">>, <<Claim("c1", "a greeting")>>)) >>,
       << Drafted("s2", "opens", "setup", <<"e2">>, <<>>),
          Drafted("s3", "adds", "test_step", <<"e3">>, <<Claim("c2", "a total")>>) >>,
       << Drafted("s4", "orders", "test_step", <<"e4", "e5">>, <<>>) >> >>

\* The author gave an id to two steps of a scenario, and to one of the next.
DoubledIds ==
    << << Drafted("s1", "signs in", "setup", <<"e1">>, <<>>),
          Drafted("s1", "adds", "test_step", <<"e2">>, <<Claim("c1", "one item")>>),
          Drafted("s2", "pays", "test_step", <<"e3">>, <<>>) >>,
       << Drafted("s2", "orders", "test_step", <<"e4", "e5">>, <<Claim("c1", "a total")>>) >> >>

\* Questions are in documents on disk; the author of today asks none.
Asking(doc) == [c \in DOMAIN doc |->
                   [doc[c] EXCEPT !.steps = [i \in DOMAIN @ |->
                       [@[i] EXCEPT !.asked = i = 2]]]]

Reviewed == {Asking(Assemble(draft, Openers)) : draft \in {TwoFlows, AfterABug}}
Doubled  == Asking(Assemble(DoubledIds, Openers))

---------------------------------------------------------------------------
\* Every draft of a session of four events that lists them in order: steps begin
\* at the events of some set, scenarios at some of these steps, and a step has
\* one of two sentences.  Each step has an expected result of its own, and those
\* of the last two events have the same words.
Recorded  == <<"e1", "e2", "e3", "e4">>
Sentences == {"adds", "pays"}
StepNames == <<"s1", "s2", "s3", "s4">>
Results   == <<Claim("c1", "one"), Claim("c2", "two"), Claim("c3", "some"), Claim("c4", "some")>>

\* The stretches that begin at 1 and at the places of a set.
Stretches(set, last) ==
    LET starts == SetToSortSeq({1} \cup set, <)
    IN [k \in DOMAIN starts |->
           <<starts[k], IF k = Len(starts) THEN last ELSE starts[k + 1] - 1>>]

\* A draft with its steps and scenarios beginning where they are said to.
DraftOf(steps, scenarios, text) ==
    LET Of(range) ==
            LET within == {n \in {1} \cup steps : range[1] <= n /\ n <= range[2]}
                starts == SetToSortSeq(within, <)
                End(k) == IF k = Len(starts) THEN range[2] ELSE starts[k + 1] - 1
            IN [k \in DOMAIN starts |->
                   Drafted(StepNames[starts[k]], text[starts[k]], "test_step",
                           SubSeq(Recorded, starts[k], End(k)), <<Results[starts[k]]>>)]
        ranges == Stretches(scenarios, 4)
    IN [g \in DOMAIN ranges |-> Of(ranges[g])]

Drafts == UNION {UNION {{DraftOf(steps, scenarios, text) :
                            text \in [{1} \cup steps -> Sentences]} :
                        scenarios \in SUBSET steps} : steps \in SUBSET (2..4)}

\* A draft, the breaks of the session and what is made of both.
Assemblies ==
    {[draft |-> draft, breaks |-> breaks,
      doc |-> Assemble(draft, BreakOpeners(Recorded, breaks))] :
        draft \in Drafts, breaks \in SUBSET (1..5)}

MCDocuments == Reviewed \cup {Doubled} \cup {assembly.doc : assembly \in Assemblies}

\* Bound of the run: only the documents made for it are edited.
OnlyReviewed == original \in Reviewed \cup {Doubled}

---------------------------------------------------------------------------
\* The events a case has, and those of them that lie on either side of a place.
CaseEvents(case) == UNION {case.steps[i].events : i \in DOMAIN case.steps}
Straddles(events, n) ==
    /\ \E k \in 1..(n - 1) : Recorded[k] \in events
    /\ \E k \in n..4 : Recorded[k] \in events

\* The expected results by what they say: of two that say the same in one step
\* one is enough.
Sayings(claims) == {claims[k].text : k \in DOMAIN claims}

\* Nothing drafted is lost: the events are those of the session, each of one
\* step, and each drafted step is in one that has its sentence, its events and
\* what it expects.
KeepsTheDraft(draft, doc) ==
    /\ Events(doc) = ToSet(Recorded) /\ ClaimedOnce(doc)
    /\ \A n \in DOMAIN draft : \A i \in DOMAIN draft[n] :
           \E c \in DOMAIN doc : \E j \in DOMAIN doc[c].steps :
               LET was == draft[n][i]
                   now == doc[c].steps[j]
               IN /\ ToSet(was.events) \subseteq now.events /\ now.text = was.text
                  /\ Sayings(was.claims) \subseteq Sayings(now.claims)

\* A case has events from both sides of a declared break only if the author had
\* put the two sides into one step.
HonoursBreaks(draft, breaks, doc) ==
    \A c \in DOMAIN doc : \A n \in breaks : Straddles(CaseEvents(doc[c]), n) =>
        \E m \in DOMAIN draft : \E i \in DOMAIN draft[m] :
            /\ ToSet(draft[m][i].events) \subseteq CaseEvents(doc[c])
            /\ Straddles(ToSet(draft[m][i].events), n)

\* Drafted scenarios are not joined, and one is cut only where a break lies.
CutsAtBreaksOnly(draft, breaks, doc) ==
    /\ \A c \in DOMAIN doc : \E m \in DOMAIN draft :
           CaseEvents(doc[c]) \subseteq UNION {ToSet(draft[m][i].events) : i \in DOMAIN draft[m]}
    /\ \A m \in DOMAIN draft : \A i \in 2..Len(draft[m]) : \A c, d \in DOMAIN doc :
           /\ ToSet(draft[m][i - 1].events) \subseteq CaseEvents(doc[c])
           /\ ToSet(draft[m][i].events) \subseteq CaseEvents(doc[d])
           /\ c # d
           => draft[m][i].events[1] \in BreakOpeners(Recorded, breaks)

=============================================================================
