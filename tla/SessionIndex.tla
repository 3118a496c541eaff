----------------------------- MODULE SessionIndex -----------------------------
(***************************************************************************)
(* The index of a session, all that author, judge and the stage of the     *)
(* guesses are told of it before they retrieve anything                    *)
(* (server/pipeline/digest.py).                                            *)
(*                                                                         *)
(* It has a block for every event.  What a block may show is capped, and   *)
(* the caps decide what is pushed out: changed nodes come before new ones, *)
(* writes of the application before its reads, and what appears again and  *)
(* again is noise.  A caption of what was cut is all that says so.         *)
(*                                                                         *)
(* A text that is cut is cut by whole entries here, where the code counts  *)
(* characters.  Dialogs, keys, fidelity flags, how a target is called and  *)
(* the layout are left out.                                                *)
(***************************************************************************)
EXTENDS Segmenter

CONSTANTS
    IdleHint,        \* a pause worth telling of             (digest.py:46)
    MaxNodes,        \* nodes of a change that are named     (digest.py:51)
    MaxNetwork,      \* calls that are listed                (digest.py:52)
    MaxConsole,      \* console entries that are listed      (digest.py:53)
    MaxSaid,         \* sentences that are quoted            (digest.py:63)
    RerenderFloor,   \* nodes both ways, for a re-render     (digest.py:465)
    RecurringFloor   \* events a label may recur in          (digest.py:222)

ASSUME SessionIndexAssumption ==
    {IdleHint, MaxNodes, MaxNetwork, MaxConsole, MaxSaid, RerenderFloor, RecurringFloor} \subseteq Nat

\* How many of some places come before place i.
Ahead(places, i) == Cardinality({j \in places : j < i})

---------------------------------------------------------------------------
(* What an event changed. *)
Label(node) == <<node.role, node.name>>
Labels(event) ==
    {Label(node) : node \in {x \in Range(event.diff.added \o event.diff.removed) : x.name # {}}}

\* Labels of more events than three in ten, and than a few.
Recurring(rec) ==
    LET Seen(label) == Cardinality({n \in DOMAIN rec.events : label \in Labels(rec.events[n])})
    IN {label \in UNION {Labels(rec.events[n]) : n \in DOMAIN rec.events} :
          Seen(label) > RecurringFloor /\ Seen(label) > (3 * Len(rec.events)) \div 10}

IsRerender(diff) ==
    LET added == Len(diff.added)
        removed == Len(diff.removed)
        more == IF added > removed THEN added ELSE removed
    IN /\ added >= RerenderFloor /\ removed >= RerenderFloor
       /\ 10 * (2 * more - added - removed) <= more

\* The places of the changed and of the new nodes that are named.
NamedChanges(event) ==
    {i \in DOMAIN event.diff.changed : i <= MaxNodes /\ event.diff.changed[i].name # {}}

NamedAdditions(event, noise) ==
    LET news == {i \in DOMAIN event.diff.added :
                   event.diff.added[i].name # {} /\ Label(event.diff.added[i]) \notin noise}
    IN IF IsRerender(event.diff) THEN {}
       ELSE {i \in news : Cardinality(NamedChanges(event)) + Ahead(news, i) < MaxNodes}

---------------------------------------------------------------------------
(* What it sent, and what was logged. *)
FirstParty(event) == {k \in DOMAIN event.network : event.network[k].ours}

\* Writes go first, then in order of time; an analytics beacon is a write too,
\* but of somebody else.
GoesBefore(event, j, k) ==
    \/ event.network[j].write /\ ~event.network[k].write
    \/ event.network[j].write = event.network[k].write /\ j < k

\* Mutant of Listed: in order of time.
ListedInOrder(event) == {k \in FirstParty(event) : Ahead(FirstParty(event), k) < MaxNetwork}

Listed(event) ==
    {k \in FirstParty(event) :
        Cardinality({j \in FirstParty(event) : GoesBefore(event, j, k)}) < MaxNetwork}

ListedConsole(event) == {k \in DOMAIN event.console : k <= MaxConsole}

---------------------------------------------------------------------------
(* What was said, and what was pointed at. *)

\* Mutant of Heard: nothing is heard before the first event.
HeardBetweenEvents(rec, n) ==
    {k \in DOMAIN rec.narration : /\ n > 1
                                  /\ rec.narration[k].end >= rec.events[n - 1].time
                                  /\ rec.narration[k].start <= rec.events[n].time}

\* From the event before, or from the beginning of the session.
Heard(rec, n) ==
    {k \in DOMAIN rec.narration :
        /\ rec.narration[k].text # {}
        /\ rec.narration[k].end >= IF n > 1 THEN rec.events[n - 1].time ELSE 0
        /\ rec.narration[k].start <= rec.events[n].time}

Quoted(rec, n) == {k \in Heard(rec, n) : Ahead(Heard(rec, n), k) < MaxSaid}

MarksOn(rec, n) ==
    {k \in DOMAIN rec.annotations : rec.annotations[k].event = rec.events[n].id}

\* Elements that were pointed at together; one made without a group is with the
\* others of its event.
MarkGroups(rec, n) ==
    LET pointed == {k \in MarksOn(rec, n) : rec.annotations[k].pointed}
        Same(k) == {j \in pointed : rec.annotations[j].group = rec.annotations[k].group}
    IN {Same(k) : k \in {j \in pointed : Cardinality(Same(j)) > 1}}

---------------------------------------------------------------------------
(* The index. *)
EventBlock(rec, n, noise) ==
    LET event == rec.events[n]
    IN [event   |-> event.id,
        pause   |-> n > 1 /\ event.time - rec.events[n - 1].time >= IdleHint,
        opens   |-> n \in BreakPlaces(rec),
        moved   |-> n > 1 /\ event.tab # 0 /\ rec.events[n - 1].tab # event.tab,
        marks   |-> MarksOn(rec, n),
        groups  |-> MarkGroups(rec, n),
        urls    |-> event.diff.urls,
        titles  |-> event.diff.titles,
        changed |-> NamedChanges(event),
        added   |-> NamedAdditions(event, noise),
        listed  |-> Listed(event),
        others  |-> Cardinality(DOMAIN event.network \ FirstParty(event)),
        console |-> ListedConsole(event),
        said    |-> Quoted(rec, n)]

\* What the tester typed or chose; a placeholder that is only in somebody's
\* traffic is not a parameter of the test.
TypedParameters(rec) ==
    {p \in rec.parameters : \E n \in DOMAIN rec.events : p \in rec.events[n].value}

BuildDigest(rec) ==
    [objective |-> rec.objective,
     redacted  |-> TypedParameters(rec),
     blocks    |-> [n \in DOMAIN rec.events |-> EventBlock(rec, n, Recurring(rec))]]

---------------------------------------------------------------------------
(* Correctness. *)
\* Who reads the index is told of every break at the event it opens, reads all
\* that was said up to the last event with the event it was said before or during,
\* unless as much as fits is quoted ahead of it, and learns of a read only when
\* every write of that event is listed.
IndexTellsAll ==
    LET index == BuildDigest(recording).blocks IN
    /\ \A s \in {cut.segments[k] : k \in DOMAIN cut.segments} :
         \A n \in s.first..s.last : index[n].opens => n = s.first /\ s.opensCase
    /\ \A k \in DOMAIN recording.narration :
         recording.narration[k].text # {} =>
           \/ \E n \in DOMAIN index :
                k \in index[n].said \/ Ahead(Heard(recording, n), k) >= MaxSaid
           \/ \A n \in DOMAIN index : recording.narration[k].start > recording.events[n].time
    /\ \A n \in DOMAIN index : \A j, k \in FirstParty(recording.events[n]) :
         /\ recording.events[n].network[j].write
         /\ k \in index[n].listed /\ ~recording.events[n].network[k].write
         => j \in index[n].listed

\* A recording is read whole: when it has been cut, the segments are whole, and
\* the index tells of what the tester declared and said and of what the
\* application was made to do (segment.py:324-340, digest.py:226-362, SPEC 6.7).
SessionIsReadWhole ==
    /\ SegmentsAreWhole
    /\ stage = "expectations" => IndexTellsAll
=============================================================================
