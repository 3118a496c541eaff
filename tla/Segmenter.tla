------------------------------ MODULE Segmenter ------------------------------
(***************************************************************************)
(* The first stage of a run: the events of a recording are cut into        *)
(* candidate steps (server/pipeline/segment.py).                           *)
(*                                                                         *)
(* The cut goes through the events once.  A boundary the tester declared   *)
(* and a pause end the segment before an event; a navigation, a submit, a  *)
(* write that succeeded, a replaced region and the cap end it after one.   *)
(* Which events a declared break opens is worked out a second time, for    *)
(* the flag on the segment, for the index of the session (SessionIndex)    *)
(* and for the scenarios (Assembly).                                       *)
(*                                                                         *)
(*   segment  [first, last, reason, opensCase, writes], the places of its  *)
(*            events in the recording and the events of it that wrote      *)
(*                                                                         *)
(* Labels, addresses and fidelity flags of a segment are left out.         *)
(***************************************************************************)
EXTENDS Evidence

CONSTANTS
    Recordings,      \* the recordings a run may be of
    IdleGap,         \* a longer pause is a boundary            (segment.py:39)
    MaxPerSegment    \* events of a segment                     (segment.py:41)

\* The exporter writes events in order of time, and a sentence has a length.
ASSUME SegmenterAssumption ==
    /\ IdleGap \in Nat /\ MaxPerSegment \in Nat \ {0}
    /\ \A rec \in Recordings :
         /\ \A f \in {rec.events, rec.narration, rec.annotations} :
              Len(f) \in Nat /\ DOMAIN f = 1..Len(f)
         /\ \A n \in DOMAIN rec.events :
              rec.events[n].time \in Nat /\ IsFiniteSet(DOMAIN rec.events[n].network)
         /\ \A m, n \in DOMAIN rec.events : m <= n => rec.events[m].time <= rec.events[n].time
         /\ \A k \in DOMAIN rec.narration :
              /\ {rec.narration[k].start, rec.narration[k].end} \subseteq Nat
              /\ rec.narration[k].start <= rec.narration[k].end
         /\ \A k \in DOMAIN rec.annotations : rec.annotations[k].time \in Nat

VARIABLES
    stage,       \* what the run is at
    recording,   \* what it is of
    placed,      \* events that have been placed
    cut          \* [segments, begun, reason]: what is finished, the first event of
                 \* what is not, 0 if there is none, and why it was begun

segmentVars == <<stage, recording, placed, cut>>

---------------------------------------------------------------------------
(* What the tester declared. *)
TimesOf(rec, kinds) ==
    {rec.annotations[k].time : k \in {j \in DOMAIN rec.annotations : rec.annotations[j].kind \in kinds}}

\* A boundary that stands on an event counts too, though the exporter puts none there.
MarkedOn(rec, n, kinds) ==
    \E k \in DOMAIN rec.annotations :
        rec.annotations[k].kind \in kinds /\ rec.annotations[k].event = rec.events[n].id

Boundaries == {"checkpoint", "scenario_break"}

\* break_openers: the first event at or after each break.
BreakPlaces(rec) ==
    {n \in DOMAIN rec.events : \E t \in TimesOf(rec, {"scenario_break"}) :
        /\ t <= rec.events[n].time
        /\ \A m \in 1..(n - 1) : rec.events[m].time < t}

\* Mutant of DeclaredBetween: the event the boundary was declared at does not count.
DeclaredStrictlyBetween(rec, n) ==
    \E t \in TimesOf(rec, Boundaries) : rec.events[n - 1].time < t /\ t < rec.events[n].time

DeclaredBetween(rec, n) ==
    \E t \in TimesOf(rec, Boundaries) : rec.events[n - 1].time < t /\ t <= rec.events[n].time

---------------------------------------------------------------------------
(* The triggers. *)
Fires(holds, reason) == IF holds THEN {reason} ELSE {}

OpensBefore(rec, n) ==
    Fires((n > 1 /\ DeclaredBetween(rec, n)) \/ MarkedOn(rec, n, Boundaries),
          "checkpoint_annotation")
    \cup Fires(n > 1 /\ rec.events[n].time - rec.events[n - 1].time > IdleGap, "idle_gap")

\* A write that was refused leaves the tester where they were.
Writes(event) ==
    \E k \in DOMAIN event.network : event.network[k].write /\ event.network[k].done

NamedNodes(nodes) == Cardinality({i \in DOMAIN nodes : nodes[i].name # {}})

\* More than six of ten, of a page with four names at least.
RegionReplaced(event) ==
    LET before == NamedNodes(Flatten(event.before))
        churn == Len(event.diff.added) + Len(event.diff.removed)
    IN before >= 4 /\ 10 * churn > 6 * before

ClosesAfter(rec, n, size) ==
    LET event == rec.events[n]
    IN Fires(event.diff.urls # <<>> \/ event.kind = "navigate", "url_change")
       \cup Fires(event.kind = "submit", "form_submit")
       \cup Fires(Writes(event), "state_mutation")
       \cup Fires(RegionReplaced(event), "region_replacement")
       \cup Fires(size >= MaxPerSegment, "hard_cap")

Priority == [checkpoint_annotation |-> 1, url_change |-> 2, form_submit |-> 3,
             state_mutation |-> 4, idle_gap |-> 5, region_replacement |-> 6, hard_cap |-> 7]
Strongest(reasons) == CHOOSE r \in reasons : \A q \in reasons : Priority[r] <= Priority[q]

---------------------------------------------------------------------------
(* The cut. *)
Segment(rec, first, last, reason) ==
    [first |-> first, last |-> last, reason |-> reason,
     opensCase |-> \/ first \in BreakPlaces(rec)
                   \/ \E n \in first..last : MarkedOn(rec, n, {"scenario_break"}),
     writes |-> {n \in first..last : Writes(rec.events[n])}]

Finished(rec, so, last, next) ==
    [segments |-> Append(so.segments, Segment(rec, so.begun, last, so.reason)),
     begun |-> 0, reason |-> next]

\* Before the event, with the event, after it.
Opened(rec, so, n) ==
    IF so.begun # 0 /\ OpensBefore(rec, n) # {}
    THEN Finished(rec, so, n - 1, Strongest(OpensBefore(rec, n))) ELSE so

Added(so, n) == [so EXCEPT !.begun = IF @ = 0 THEN n ELSE @]

Closed(rec, so, n) ==
    LET reasons == ClosesAfter(rec, n, n - so.begun + 1)
    IN IF reasons # {} THEN Finished(rec, so, n, Strongest(reasons)) ELSE so

SegmentInit ==
    /\ stage = "segment"
    /\ recording \in Recordings
    /\ placed = 0
    /\ cut = [segments |-> <<>>, begun |-> 0, reason |-> "recording_start"]

\* segment_recording, once around its loop.
PlaceEvent ==
    /\ stage = "segment" /\ placed < Len(recording.events)
    /\ cut' = Closed(recording, Added(Opened(recording, cut, placed + 1), placed + 1), placed + 1)
    /\ placed' = placed + 1
    /\ UNCHANGED <<stage, recording>>

\* What is left over is a segment too; the document is saved.
FinishSegments ==
    /\ stage = "segment" /\ placed = Len(recording.events)
    /\ cut' = IF cut.begun = 0 THEN cut ELSE Finished(recording, cut, placed, cut.reason)
    /\ stage' = "expectations"
    /\ UNCHANGED <<recording, placed>>

---------------------------------------------------------------------------
(* Correctness. *)
Declared(rec) ==
    BreakPlaces(rec) \cup {n \in DOMAIN rec.events : MarkedOn(rec, n, {"scenario_break"})}

\* One segment after the other, from the first event to the last.
InSequence(segments) ==
    /\ segments # <<>> => segments[1].first = 1
    /\ \A k \in DOMAIN segments : segments[k].first <= segments[k].last
    /\ \A k \in 1..(Len(segments) - 1) : segments[k + 1].first = segments[k].last + 1

\* A break begins a segment that says so, and no other segment does; a write ends
\* one.  The reason of a segment is one of those that are there where it begins.
CutWhereTold(rec, segments) ==
    \A k \in DOMAIN segments :
        LET s == segments[k]
        IN /\ s.last - s.first < MaxPerSegment
           /\ Declared(rec) \cap (s.first..s.last) \subseteq {s.first}
           /\ s.opensCase <=> s.first \in Declared(rec)
           /\ s.writes \subseteq {s.last}
           /\ IF k = 1 THEN s.reason = "recording_start"
              ELSE s.reason \in OpensBefore(rec, s.first)
                                  \cup ClosesAfter(rec, s.first - 1, s.first - segments[k - 1].first)

\* Every event is in one segment, in the order of the recording
\* (_assert_full_coverage never raises), and the cuts are where they should be.
SegmentsAreWhole ==
    /\ InSequence(cut.segments)
    /\ CutWhereTold(recording, cut.segments)
    /\ stage # "segment" =>
         IF cut.segments = <<>> THEN Len(recording.events) = 0
         ELSE Last(cut.segments).last = Len(recording.events)
=============================================================================
