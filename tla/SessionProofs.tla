---------------------------- MODULE SessionProofs ----------------------------
(* What is true of the cut, of the index and of a run of the author, for     *)
(* recordings of any number of events, sentences and notes, for answers of   *)
(* any length and for any bounds. First the cut and the index; then the      *)
(* sequences and folds the author works with, induction over them included;  *)
(* then how one claim is bound or refused, how an answer is read and grouped, *)
(* and the invariant of the whole run with the three properties it gives.    *)
EXTENDS AuthorRun, FunctionTheorems, SequenceTheorems, FiniteSetTheorems, TLAPS

(***************************************************************************)
(* The inductive invariant: what is finished is right up to where it       *)
(* reaches, and what is open may still become a segment.                   *)
(***************************************************************************)
Reasons == DOMAIN Priority \cup {"recording_start"}
SegmentRecord ==
    [first : Nat, last : Nat, reason : Reasons, opensCase : BOOLEAN, writes : SUBSET Nat]
End(segments) == IF segments = <<>> THEN 0 ELSE segments[Len(segments)].last

\* A cut is a record with segments in it.
Shape(so) ==
    /\ so = [segments |-> so.segments, begun |-> so.begun, reason |-> so.reason]
    /\ so.segments \in Seq(SegmentRecord) /\ so.begun \in Nat /\ so.reason \in Reasons

\* The finished segments end with the last event placed, or where the open one begins.
Reached(so, p) ==
    /\ \A k \in DOMAIN so.segments : 1 <= so.segments[k].first /\ so.segments[k].last <= p
    /\ IF so.begun = 0 THEN End(so.segments) = p
       ELSE so.begun = End(so.segments) + 1 /\ so.begun <= p

\* The open segment has room for an event, no break inside and no write.
MayGrow(rec, so, p) ==
    so.begun # 0 =>
        /\ p - so.begun + 1 < MaxPerSegment
        /\ Declared(rec) \cap (so.begun..p) \subseteq {so.begun}
        /\ \A n \in so.begun..p : ~Writes(rec.events[n])

\* The reason kept for the next segment is one that is there.
Why(rec, so) ==
    IF so.segments = <<>> THEN so.reason = "recording_start"
    ELSE so.reason \in OpensBefore(rec, End(so.segments) + 1)
              \cup ClosesAfter(rec, End(so.segments),
                               (End(so.segments) + 1) - so.segments[Len(so.segments)].first)

Right(rec, so, p) ==
    /\ Shape(so) /\ Reached(so, p)
    /\ InSequence(so.segments) /\ CutWhereTold(rec, so.segments)

Cutting(rec, so, p) == Right(rec, so, p) /\ MayGrow(rec, so, p) /\ Why(rec, so)

WholeInv ==
    /\ recording \in Recordings
    /\ placed \in 0..Len(recording.events)
    /\ Right(recording, cut, placed)
    /\ IF stage = "segment" THEN Cutting(recording, cut, placed)
       ELSE placed = Len(recording.events) /\ cut.begun = 0

---------------------------------------------------------------------------
(* Recordings, reasons and places. *)
LEMMA ARecording ==
  ASSUME NEW rec \in Recordings
  PROVE  /\ Len(rec.events) \in Nat /\ DOMAIN rec.events = 1..Len(rec.events)
         /\ Len(rec.narration) \in Nat /\ DOMAIN rec.narration = 1..Len(rec.narration)
         /\ Len(rec.annotations) \in Nat /\ DOMAIN rec.annotations = 1..Len(rec.annotations)
         /\ \A n \in 1..Len(rec.events) :
              rec.events[n].time \in Nat /\ IsFiniteSet(DOMAIN rec.events[n].network)
         /\ \A m, n \in 1..Len(rec.events) : m <= n => rec.events[m].time <= rec.events[n].time
         /\ \A k \in 1..Len(rec.narration) :
              /\ rec.narration[k].start \in Nat /\ rec.narration[k].end \in Nat
              /\ rec.narration[k].start <= rec.narration[k].end
         /\ \A k \in 1..Len(rec.annotations) : rec.annotations[k].time \in Nat
  BY SegmenterAssumption

LEMMA LeastOf ==
  ASSUME NEW T \in SUBSET Nat, T # {}
  PROVE  \E n \in T : \A m \in T : n <= m
  <1>1. PICK n \in T : \A m \in T : ~(<<m, n>> \in OpToRel(<, Nat))
    BY WFMin, NatLessThanWellFounded, Zenon
  <1>2. \A m \in T : n <= m
    <2>1. SUFFICES ASSUME NEW m \in T, m < n PROVE FALSE
      OBVIOUS
    <2>2. <<m, n>> \in OpToRel(<, Nat)
      BY <2>1 DEF OpToRel
    <2>3. QED
      BY <1>1, <2>2
  <1>3. QED
    BY <1>2

LEMMA StrongestIsOne ==
  ASSUME NEW R \in SUBSET DOMAIN Priority, R # {}
  PROVE  Strongest(R) \in R
  <1> DEFINE T == {Priority[r] : r \in R}
  <1>1. \A r \in DOMAIN Priority : Priority[r] \in Nat
    BY DEF Priority
  <1>2. T \in SUBSET Nat /\ T # {}
    BY <1>1
  <1>3. PICK t \in T : \A u \in T : t <= u
    BY <1>2, LeastOf
  <1>4. PICK r \in R : Priority[r] = t
    BY <1>3
  <1>5. \A q \in R : Priority[r] <= Priority[q]
    BY <1>3, <1>4
  <1>6. QED
    BY <1>5 DEF Strongest

LEMMA ReasonsAreKnown ==
  ASSUME NEW rec, NEW n, NEW size
  PROVE  OpensBefore(rec, n) \subseteq DOMAIN Priority /\ ClosesAfter(rec, n, size) \subseteq DOMAIN Priority
  <1>1. DOMAIN Priority = {"checkpoint_annotation", "url_change", "form_submit", "state_mutation",
                           "idle_gap", "region_replacement", "hard_cap"}
    BY DEF Priority
  <1>2. OpensBefore(rec, n) \subseteq DOMAIN Priority
    BY <1>1 DEF OpensBefore, Fires
  <1>3. ClosesAfter(rec, n, size) \subseteq DOMAIN Priority
    BY <1>1 DEF ClosesAfter, Fires
  <1>4. QED
    BY <1>2, <1>3

\* A break that is declared for an event ends what is open before it.
LEMMA BreaksOpen ==
  ASSUME NEW rec \in Recordings, NEW n \in 2..Len(rec.events), n \in Declared(rec)
  PROVE  OpensBefore(rec, n) # {}
  <1>1. CASE n \in BreakPlaces(rec)
    <2>1. PICK t \in TimesOf(rec, {"scenario_break"}) :
             t <= rec.events[n].time /\ \A m \in 1..(n - 1) : rec.events[m].time < t
      BY <1>1 DEF BreakPlaces
    <2>2. t \in TimesOf(rec, Boundaries)
      BY <2>1 DEF TimesOf, Boundaries
    <2>3. rec.events[n - 1].time < t
      BY <2>1
    <2>4. DeclaredBetween(rec, n)
      BY <2>1, <2>2, <2>3 DEF DeclaredBetween
    <2>5. QED
      BY <2>4 DEF OpensBefore, Fires
  <1>2. CASE MarkedOn(rec, n, {"scenario_break"})
    <2>1. MarkedOn(rec, n, Boundaries)
      BY <1>2 DEF MarkedOn, Boundaries
    <2>2. QED
      BY <2>1 DEF OpensBefore, Fires
  <1>3. QED
    BY <1>1, <1>2 DEF Declared

---------------------------------------------------------------------------
(* The cut. *)
\* What is open, as a segment.
LEMMA SegmentIsOne ==
  ASSUME NEW rec \in Recordings, NEW first \in Nat, NEW last \in Nat, NEW reason \in Reasons
  PROVE  /\ Segment(rec, first, last, reason) \in SegmentRecord
         /\ Segment(rec, first, last, reason).first = first
         /\ Segment(rec, first, last, reason).last = last
         /\ Segment(rec, first, last, reason).reason = reason
         /\ Segment(rec, first, last, reason).writes = {n \in first..last : Writes(rec.events[n])}
         /\ Segment(rec, first, last, reason).opensCase
              <=> \/ first \in BreakPlaces(rec)
                  \/ \E n \in first..last : MarkedOn(rec, n, {"scenario_break"})
  <1> DEFINE opens == \/ first \in BreakPlaces(rec)
                      \/ \E n \in first..last : MarkedOn(rec, n, {"scenario_break"})
             wrote == {n \in first..last : Writes(rec.events[n])}
  <1>1. Segment(rec, first, last, reason)
          = [first |-> first, last |-> last, reason |-> reason, opensCase |-> opens, writes |-> wrote]
    BY DEF Segment
  <1>2. wrote \in SUBSET Nat
    OBVIOUS
  <1>3. opens \in BOOLEAN
    OBVIOUS
  <1> HIDE DEF opens, wrote
  <1>4. [first |-> first, last |-> last, reason |-> reason, opensCase |-> opens, writes |-> wrote]
          \in SegmentRecord
    BY <1>2, <1>3 DEF SegmentRecord
  <1>5. /\ Segment(rec, first, last, reason).first = first
        /\ Segment(rec, first, last, reason).last = last
        /\ Segment(rec, first, last, reason).reason = reason
        /\ Segment(rec, first, last, reason).writes = wrote
        /\ Segment(rec, first, last, reason).opensCase = opens
    BY <1>1
  <1>6. QED
    BY <1>1, <1>4, <1>5 DEF opens, wrote

\* The same for an open segment that ends at the event last.
LEMMA WhatIsOpen ==
  ASSUME NEW rec \in Recordings, NEW so, Shape(so), NEW last \in Nat
  PROVE  LET s == Segment(rec, so.begun, last, so.reason)
         IN /\ s \in SegmentRecord /\ s.first = so.begun /\ s.last = last /\ s.reason = so.reason
            /\ s.writes = {m \in so.begun..last : Writes(rec.events[m])}
            /\ s.opensCase <=> \/ so.begun \in BreakPlaces(rec)
                               \/ \E m \in so.begun..last : MarkedOn(rec, m, {"scenario_break"})
  <1>1. so.begun \in Nat /\ so.reason \in Reasons
    BY DEF Shape
  <1> DEFINE s == Segment(rec, so.begun, last, so.reason)
  <1>2. s \in SegmentRecord /\ s.first = so.begun /\ s.last = last /\ s.reason = so.reason
    BY <1>1, SegmentIsOne
  <1>3. s.writes = {m \in so.begun..last : Writes(rec.events[m])}
    BY <1>1, SegmentIsOne
  <1>4. s.opensCase <=> \/ so.begun \in BreakPlaces(rec)
                       \/ \E m \in so.begun..last : MarkedOn(rec, m, {"scenario_break"})
    BY <1>1, SegmentIsOne
  <1>5. QED
    BY <1>2, <1>3, <1>4

LEMMA ItsPlaces ==
  ASSUME NEW x \in SegmentRecord
  PROVE  x.first \in Nat /\ x.last \in Nat
  BY DEF SegmentRecord

\* A segment that is whole may be appended.
LEMMA FinishedIsRight ==
  ASSUME NEW rec \in Recordings, NEW so, NEW p \in Nat, NEW last \in Nat, NEW next \in Reasons,
         Shape(so), so.begun # 0, so.begun = End(so.segments) + 1, so.begun <= last,
         last <= Len(rec.events),
         \A k \in DOMAIN so.segments : 1 <= so.segments[k].first /\ so.segments[k].last <= p,
         p <= last,
         InSequence(so.segments), CutWhereTold(rec, so.segments), Why(rec, so),
         last - so.begun < MaxPerSegment,
         Declared(rec) \cap (so.begun..last) \subseteq {so.begun},
         \A n \in so.begun..last : Writes(rec.events[n]) => n = last
  PROVE  LET done == Finished(rec, so, last, next)
         IN /\ Right(rec, done, last) /\ done.begun = 0 /\ done.reason = next
            /\ End(done.segments) = last /\ done.segments # <<>>
            /\ done.segments[Len(done.segments)].first = so.begun
  <1> DEFINE s == Segment(rec, so.begun, last, so.reason)
             done == Finished(rec, so, last, next)
             n == Len(so.segments)
  <1>1. so.segments \in Seq(SegmentRecord) /\ so.begun \in Nat /\ so.reason \in Reasons
    BY DEF Shape
  <1>2. /\ s \in SegmentRecord /\ s.first = so.begun /\ s.last = last /\ s.reason = so.reason
        /\ s.writes = {m \in so.begun..last : Writes(rec.events[m])}
        /\ s.opensCase <=> \/ so.begun \in BreakPlaces(rec)
                           \/ \E m \in so.begun..last : MarkedOn(rec, m, {"scenario_break"})
    BY WhatIsOpen
  <1>3. done = [segments |-> Append(so.segments, s), begun |-> 0, reason |-> next]
    BY DEF Finished
  <1> HIDE DEF s, done
  <1>4. /\ done.segments = Append(so.segments, s) /\ done.begun = 0 /\ done.reason = next
    BY <1>3
  <1>5. /\ n \in Nat /\ DOMAIN so.segments = 1..n
        /\ \A k \in 1..n : so.segments[k] \in SegmentRecord
        /\ \A k \in 1..n : so.segments[k].first \in Nat /\ so.segments[k].last \in Nat
    <2>1. n \in Nat /\ DOMAIN so.segments = 1..n
      BY <1>1, LenProperties
    <2>2. \A k \in 1..n : so.segments[k] \in SegmentRecord
      BY <1>1, ElementOfSeq
    <2>3. QED
      BY <2>1, <2>2, ItsPlaces
  <1>14. /\ \A k \in 1..n : /\ 1 <= so.segments[k].first /\ so.segments[k].last <= p
                             /\ so.segments[k].first <= so.segments[k].last
         /\ n # 0 => so.segments[1].first = 1
         /\ \A k \in 1..(n - 1) : so.segments[k + 1].first = so.segments[k].last + 1
    <2>1. n # 0 => so.segments # <<>>
      BY <1>1, EmptySeq
    <2>2. QED
      BY <1>5, <2>1 DEF InSequence
  <1>6. /\ done.segments \in Seq(SegmentRecord) /\ Len(done.segments) = n + 1
        /\ DOMAIN done.segments = 1..(n + 1)
        /\ \A k \in 1..n : done.segments[k] = so.segments[k]
        /\ done.segments[n + 1] = s
    BY <1>1, <1>2, <1>4, <1>5, AppendProperties
  <1>7. done.segments # <<>> /\ End(done.segments) = last
    BY <1>2, <1>5, <1>6 DEF End
  <1>8. Shape(done)
    BY <1>3, <1>4, <1>6 DEF Shape
  <1>9. Reached(done, last)
    <2>1. \A k \in 1..n : 1 <= done.segments[k].first /\ done.segments[k].last <= last
      <3>1. ASSUME NEW k \in 1..n PROVE 1 <= so.segments[k].first /\ so.segments[k].last <= last
        BY <1>5, <1>14
      <3>2. QED
        BY <1>6, <3>1
    <2>2. 1 <= s.first /\ s.last <= last
      BY <1>1, <1>2
    <2>3. QED
      BY <1>4, <1>5, <1>6, <1>7, <2>1, <2>2 DEF Reached
  <1>10. InSequence(done.segments)
    <2>1. done.segments[1].first = 1
      <3>1. CASE n = 0
        <4>1. so.segments = <<>>
          BY <1>1, <3>1, EmptySeq
        <4>2. QED
          BY <1>2, <1>6, <3>1, <4>1 DEF End
      <3>2. CASE n # 0
        BY <1>5, <1>6, <3>2 DEF InSequence
      <3>3. QED
        BY <3>1, <3>2
    <2>2. \A k \in 1..(n + 1) : done.segments[k].first <= done.segments[k].last
      <3>1. \A k \in 1..n : done.segments[k].first <= done.segments[k].last
        BY <1>6, <1>14
      <3>2. s.first <= s.last
        BY <1>2
      <3>3. QED
        BY <1>5, <1>6, <3>1, <3>2
    <2>3. ASSUME NEW k \in 1..n PROVE done.segments[k + 1].first = done.segments[k].last + 1
      <3>1. CASE k = n
        <4>1. so.segments # <<>>
          BY <1>5, <3>1
        <4>2. QED
          BY <1>2, <1>5, <1>6, <3>1, <4>1 DEF End
      <3>2. CASE k # n
        <4>1. k \in 1..(n - 1) /\ k + 1 \in 1..n
          BY <1>5, <3>2
        <4>2. QED
          BY <1>6, <1>14, <4>1
      <3>3. QED
        BY <3>1, <3>2
    <2>4. QED
      BY <1>5, <1>6, <2>1, <2>2, <2>3 DEF InSequence
  <1>11. CutWhereTold(rec, done.segments)
    <2>1. SUFFICES ASSUME NEW k \in 1..(n + 1)
          PROVE  LET x == done.segments[k]
                 IN /\ x.last - x.first < MaxPerSegment
                    /\ Declared(rec) \cap (x.first..x.last) \subseteq {x.first}
                    /\ x.opensCase <=> x.first \in Declared(rec)
                    /\ x.writes \subseteq {x.last}
                    /\ IF k = 1 THEN x.reason = "recording_start"
                       ELSE x.reason \in OpensBefore(rec, x.first)
                              \cup ClosesAfter(rec, x.first - 1,
                                               x.first - done.segments[k - 1].first)
      BY <1>6, Zenon DEF CutWhereTold
    <2>2. CASE k \in 1..n
      <3>1. done.segments[k] = so.segments[k]
        BY <1>6, <2>2
      <3>2. k # 1 => done.segments[k - 1] = so.segments[k - 1]
        BY <1>6, <2>2
      <3>3. QED
        BY <1>5, <2>2, <3>1, <3>2 DEF CutWhereTold
    <2>3. CASE k = n + 1
      <3>1. s.last - s.first < MaxPerSegment
        BY <1>2
      <3>2. Declared(rec) \cap (s.first..s.last) \subseteq {s.first}
        BY <1>2
      <3>3. s.opensCase <=> s.first \in Declared(rec)
        <4>1. DOMAIN rec.events = 1..Len(rec.events) /\ so.begun \in DOMAIN rec.events
          BY <1>1, ARecording
        <4>2. \A m \in so.begun..last : m \in DOMAIN rec.events
          BY <1>1, <4>1
        <4>3. \A m \in so.begun..last : MarkedOn(rec, m, {"scenario_break"}) => m = so.begun
          BY <4>2 DEF Declared
        <4>4. so.begun \in so.begun..last
          BY <1>1
        <4>5. QED
          BY <1>2, <4>1, <4>3, <4>4 DEF Declared
      <3>4. s.writes \subseteq {s.last}
        BY <1>2
      <3>5. CASE n = 0
        <4>1. so.segments = <<>>
          BY <1>1, <3>5, EmptySeq
        <4>2. s.reason = "recording_start"
          BY <1>2, <4>1 DEF Why
        <4>3. QED
          BY <1>6, <2>3, <3>1, <3>2, <3>3, <3>4, <3>5, <4>2
      <3>6. CASE n # 0
        <4>1. so.segments # <<>>
          BY <1>5, <3>6
        <4>2. /\ done.segments[k - 1] = so.segments[n]
              /\ End(so.segments) = s.first - 1 /\ End(so.segments) + 1 = s.first
              /\ End(so.segments) \in Nat /\ so.segments[n].first \in Nat
          <5>1. n \in 1..n /\ so.segments[n].last \in Nat
            BY <1>5, <3>6
          <5>2. End(so.segments) \in Nat
            BY <4>1, <5>1 DEF End
          <5>3. k - 1 = n
            BY <1>5, <2>3
          <5>4. done.segments[k - 1] = so.segments[n]
            BY <1>6, <5>1, <5>3
          <5>5. so.segments[n].first \in Nat
            BY <1>5, <5>1
          <5>6. QED
            BY <1>1, <1>2, <5>2, <5>4, <5>5
        <4>3. s.reason \in OpensBefore(rec, s.first)
                             \cup ClosesAfter(rec, s.first - 1, s.first - done.segments[k - 1].first)
          <5>1. s.reason \in OpensBefore(rec, End(so.segments) + 1)
                  \cup ClosesAfter(rec, End(so.segments),
                                   (End(so.segments) + 1) - so.segments[n].first)
            BY <1>2, <4>1 DEF Why
          <5> DEFINE e == End(so.segments)  f == so.segments[n].first  b == s.first
                     g == done.segments[k - 1].first
          <5>2. e \in Nat /\ f \in Nat /\ e + 1 = b /\ e = b - 1 /\ f = g
            BY <4>2
          <5>3. s.reason \in OpensBefore(rec, e + 1) \cup ClosesAfter(rec, e, (e + 1) - f)
            BY <5>1
          <5> HIDE DEF e, f, b, g
          <5>4. (e + 1) - f = b - g
            BY <5>2
          <5>5. s.reason \in OpensBefore(rec, b) \cup ClosesAfter(rec, b - 1, b - g)
            BY <5>2, <5>3, <5>4
          <5>6. QED
            BY <5>5 DEF b, g
        <4>4. QED
          BY <1>5, <1>6, <2>3, <3>1, <3>2, <3>3, <3>4, <3>6, <4>3
      <3>7. QED
        BY <3>5, <3>6
    <2>4. QED
      BY <1>5, <2>2, <2>3
  <1>12. done.segments[Len(done.segments)].first = so.begun
    BY <1>2, <1>6
  <1>13. QED
    BY <1>4, <1>7, <1>8, <1>9, <1>10, <1>11, <1>12 DEF Right, done

\* The last segment stands where its number says.
LEMMA TheEnd ==
  ASSUME NEW so, NEW p \in Nat, Shape(so), Reached(so, p)
  PROVE  End(so.segments) \in Nat /\ End(so.segments) <= p
  <1>1. so.segments \in Seq(SegmentRecord) /\ Len(so.segments) \in Nat
        /\ DOMAIN so.segments = 1..Len(so.segments)
    BY LenProperties DEF Shape
  <1>2. CASE so.segments = <<>>
    BY <1>2 DEF End
  <1>3. CASE so.segments # <<>>
    <2>1. Len(so.segments) \in 1..Len(so.segments)
      BY <1>1, <1>3, EmptySeq
    <2>2. so.segments[Len(so.segments)] \in SegmentRecord
      BY <1>1, <2>1, ElementOfSeq
    <2>3. so.segments[Len(so.segments)].last \in Nat
      BY <2>2, ItsPlaces
    <2>4. so.segments[Len(so.segments)].last <= p
      BY <1>1, <2>1 DEF Reached
    <2>5. QED
      BY <1>3, <2>3, <2>4 DEF End
  <1>4. QED
    BY <1>2, <1>3

\* Before an event: what stays open is not ended by it.
LEMMA OpenedIsRight ==
  ASSUME NEW rec \in Recordings, NEW so, NEW p \in Nat, p < Len(rec.events), Cutting(rec, so, p)
  PROVE  LET o == Opened(rec, so, p + 1)
         IN Cutting(rec, o, p) /\ (o.begun # 0 => p + 1 \notin Declared(rec))
  <1> DEFINE o == Opened(rec, so, p + 1)
             reasons == OpensBefore(rec, p + 1)
  <1>1. Shape(so) /\ Reached(so, p) /\ so.begun \in Nat
    BY DEF Cutting, Right, Shape
  <1>2. CASE so.begun = 0
    <2>1. o = so
      BY <1>2 DEF Opened
    <2>2. QED
      BY <1>2, <2>1
  <1>3. CASE so.begun # 0 /\ reasons = {}
    <2>1. o = so
      BY <1>3 DEF Opened
    <2>2. 1 <= so.begun /\ so.begun <= p
      BY <1>1, <1>3 DEF Reached
    <2>3. Len(rec.events) \in Nat
      BY ARecording
    <2>4. p + 1 \in 2..Len(rec.events)
      BY <1>1, <2>2, <2>3
    <2>5. p + 1 \notin Declared(rec)
      BY <1>3, <2>4, BreaksOpen
    <2>6. QED
      BY <2>1, <2>5
  <1>4. CASE so.begun # 0 /\ reasons # {}
    <2> DEFINE next == Strongest(reasons)
               done == Finished(rec, so, p, next)
    <2>1. Len(rec.events) \in Nat
      BY ARecording
    <2>2. reasons \in SUBSET DOMAIN Priority
      BY ReasonsAreKnown
    <2>3. next \in reasons /\ next \in Reasons
      BY <1>4, <2>2, StrongestIsOne DEF Reasons
    <2>4. o = done
      <3>1. (p + 1) - 1 = p
        OBVIOUS
      <3>2. QED
        BY <1>4, <3>1 DEF Opened
    <2>5. so.begun = End(so.segments) + 1 /\ so.begun <= p
      BY <1>4, <1>1 DEF Reached
    <2>6. \A k \in DOMAIN so.segments : 1 <= so.segments[k].first /\ so.segments[k].last <= p
      BY <1>1 DEF Reached
    <2>7. p - so.begun + 1 < MaxPerSegment /\ MaxPerSegment \in Nat
      BY <1>4, SegmenterAssumption DEF Cutting, MayGrow
    <2>8. p - so.begun < MaxPerSegment
      BY <1>1, <2>7
    <2>9. Declared(rec) \cap (so.begun..p) \subseteq {so.begun}
      BY <1>4 DEF Cutting, MayGrow
    <2>10. \A n \in so.begun..p : Writes(rec.events[n]) => n = p
      BY <1>4 DEF Cutting, MayGrow
    <2>11. InSequence(so.segments) /\ CutWhereTold(rec, so.segments) /\ Why(rec, so)
      BY DEF Cutting, Right
    <2> HIDE DEF next, done
    <2>12. /\ Right(rec, Finished(rec, so, p, next), p)
           /\ Finished(rec, so, p, next).begun = 0 /\ Finished(rec, so, p, next).reason = next
           /\ End(Finished(rec, so, p, next).segments) = p
           /\ Finished(rec, so, p, next).segments # <<>>
      BY <1>1, <1>4, <2>1, <2>3, <2>5, <2>6, <2>8, <2>9, <2>10, <2>11, FinishedIsRight
    <2>13. /\ Right(rec, done, p) /\ done.begun = 0 /\ done.reason = next
           /\ End(done.segments) = p /\ done.segments # <<>>
      BY <2>12 DEF done
    <2>14. MayGrow(rec, done, p)
      BY <2>13 DEF MayGrow
    <2>15. Why(rec, done)
      BY <2>3, <2>13 DEF Why
    <2>16. Cutting(rec, done, p)
      BY <2>13, <2>14, <2>15 DEF Cutting
    <2>17. QED
      BY <2>4, <2>13, <2>16
  <1>5. QED
    BY <1>2, <1>3, <1>4

\* After it: an event that ends the segment ends it, and any other one fits in.
LEMMA ClosedIsRight ==
  ASSUME NEW rec \in Recordings, NEW so, NEW p \in Nat, p < Len(rec.events), Cutting(rec, so, p),
         so.begun # 0 => p + 1 \notin Declared(rec)
  PROVE  Cutting(rec, Closed(rec, Added(so, p + 1), p + 1), p + 1)
  <1> DEFINE a == Added(so, p + 1)
             n == p + 1
             reasons == ClosesAfter(rec, n, n - a.begun + 1)
  <1>1. /\ Shape(so) /\ Reached(so, p) /\ so.begun \in Nat /\ so.reason \in Reasons
        /\ so.segments \in Seq(SegmentRecord)
        /\ so = [segments |-> so.segments, begun |-> so.begun, reason |-> so.reason]
    BY DEF Cutting, Right, Shape
  <1>2. MaxPerSegment \in Nat /\ 0 < MaxPerSegment /\ Len(rec.events) \in Nat
    BY SegmenterAssumption, ARecording
  <1>3. End(so.segments) \in Nat
    BY <1>1, TheEnd
  <1>4. /\ a.segments = so.segments /\ a.reason = so.reason
        /\ a.begun = IF so.begun = 0 THEN n ELSE so.begun
        /\ a = [segments |-> a.segments, begun |-> a.begun, reason |-> a.reason]
    BY <1>1 DEF Added
  <1>5. a.begun = End(so.segments) + 1 /\ a.begun # 0 /\ a.begun <= n /\ a.begun \in Nat
    BY <1>1, <1>3, <1>4 DEF Reached
  <1>6. n - a.begun < MaxPerSegment
    BY <1>1, <1>2, <1>4 DEF Cutting, MayGrow
  <1>7. Declared(rec) \cap (a.begun..n) \subseteq {a.begun}
    <2>1. CASE so.begun = 0
      BY <1>4, <2>1
    <2>2. CASE so.begun # 0
      <3>1. Declared(rec) \cap (so.begun..p) \subseteq {so.begun}
        BY <2>2 DEF Cutting, MayGrow
      <3>2. \A m \in so.begun..n : m \in so.begun..p \/ m = n
        BY <1>1
      <3>3. QED
        BY <1>4, <2>2, <3>1, <3>2
    <2>3. QED
      BY <2>1, <2>2
  <1>8. \A m \in a.begun..n : Writes(rec.events[m]) => m = n
    <2>1. CASE so.begun = 0
      BY <1>4, <2>1
    <2>2. CASE so.begun # 0
      <3>1. \A m \in so.begun..p : ~Writes(rec.events[m])
        BY <2>2 DEF Cutting, MayGrow
      <3>2. \A m \in so.begun..n : m \in so.begun..p \/ m = n
        BY <1>1
      <3>3. QED
        BY <1>4, <2>2, <3>1, <3>2
    <2>3. QED
      BY <2>1, <2>2
  <1>9. InSequence(a.segments) /\ CutWhereTold(rec, a.segments) /\ Why(rec, a) /\ Shape(a)
    <2>1. InSequence(so.segments) /\ CutWhereTold(rec, so.segments) /\ Why(rec, so)
      BY DEF Cutting, Right
    <2>2. Why(rec, a)
      BY <1>4, <2>1 DEF Why
    <2>3. Shape(a)
      BY <1>1, <1>4, <1>5 DEF Shape
    <2>4. QED
      BY <1>4, <2>1, <2>2, <2>3
  <1>10. \A k \in DOMAIN a.segments : 1 <= a.segments[k].first /\ a.segments[k].last <= p
    BY <1>1, <1>4 DEF Reached
  <1> HIDE DEF a
  <1>11. CASE reasons # {}
    <2> DEFINE next == Strongest(reasons)
               done == Finished(rec, a, n, next)
    <2>1. next \in reasons /\ next \in Reasons
      BY <1>11, ReasonsAreKnown, StrongestIsOne DEF Reasons
    <2>2. Closed(rec, a, n) = done
      BY <1>11 DEF Closed
    <2> HIDE DEF next
    <2>3. /\ Right(rec, done, n) /\ done.begun = 0 /\ done.reason = next
          /\ End(done.segments) = n /\ done.segments # <<>>
          /\ done.segments[Len(done.segments)].first = a.begun
      <3>1. n \in Nat /\ p <= n /\ n <= Len(rec.events)
        BY <1>2
      <3>2. a.begun = End(a.segments) + 1
        BY <1>4, <1>5
      <3>3. QED
        BY <1>5, <1>6, <1>7, <1>8, <1>9, <1>10, <2>1, <3>1, <3>2, FinishedIsRight
    <2> HIDE DEF done
    <2>4. Why(rec, done)
      <3>1. (n + 1) - a.begun = n - a.begun + 1
        BY <1>5
      <3>2. done.reason \in ClosesAfter(rec, n, (n + 1) - a.begun)
        BY <2>1, <2>3, <3>1
      <3>3. QED
        BY <2>3, <3>2 DEF Why
    <2>5. MayGrow(rec, done, n)
      BY <2>3 DEF MayGrow
    <2>6. QED
      BY <2>2, <2>3, <2>4, <2>5 DEF Cutting, a
  <1>12. CASE reasons = {}
    <2>1. Closed(rec, a, n) = a
      BY <1>12 DEF Closed
    <2>2. n - a.begun + 1 < MaxPerSegment
      <3>1. ~(n - a.begun + 1 >= MaxPerSegment)
        BY <1>12 DEF ClosesAfter, Fires
      <3>2. QED
        BY <1>2, <1>5, <3>1
    <2>3. ~Writes(rec.events[n])
      BY <1>12 DEF ClosesAfter, Fires
    <2>4. \A m \in a.begun..n : ~Writes(rec.events[m])
      BY <1>8, <2>3
    <2>5. MayGrow(rec, a, n)
      BY <1>7, <2>2, <2>4 DEF MayGrow
    <2>6. Reached(a, n)
      <3>1. \A k \in DOMAIN a.segments : 1 <= a.segments[k].first /\ a.segments[k].last <= n
        <4>1. a.segments \in Seq(SegmentRecord)
          BY <1>1, <1>4
        <4>2. \A k \in DOMAIN a.segments : a.segments[k].last \in Nat
          BY <4>1, LenProperties, ElementOfSeq, ItsPlaces
        <4>3. QED
          BY <1>10, <4>2
      <3>2. QED
        BY <1>4, <1>5, <3>1 DEF Reached
    <2>7. QED
      BY <1>9, <2>1, <2>5, <2>6 DEF Cutting, Right, a
  <1>13. QED
    BY <1>11, <1>12

---------------------------------------------------------------------------
(* The run. *)
LEMMA InitWhole == Init => WholeInv
  <1>1. SUFFICES ASSUME Init PROVE WholeInv
    OBVIOUS
  <1>2. /\ stage = "segment" /\ recording \in Recordings /\ placed = 0
        /\ cut = [segments |-> <<>>, begun |-> 0, reason |-> "recording_start"]
    BY <1>1 DEF Init, SegmentInit
  <1>3. cut.segments = <<>> /\ cut.begun = 0 /\ cut.reason = "recording_start"
    BY <1>2
  <1>4. Shape(cut)
    <2>1. cut.segments \in Seq(SegmentRecord)
      BY <1>3
    <2>2. QED
      BY <1>2, <1>3, <2>1 DEF Shape, Reasons
  <1>5. cut.segments = <<>> /\ DOMAIN cut.segments = {} /\ Len(cut.segments) = 0
    BY <1>3
  <1>6. Reached(cut, placed)
    BY <1>2, <1>3, <1>5 DEF Reached, End
  <1>7. InSequence(cut.segments)
    BY <1>5 DEF InSequence
  <1>8. CutWhereTold(recording, cut.segments)
    BY <1>5 DEF CutWhereTold
  <1>9. MayGrow(recording, cut, placed) /\ Why(recording, cut)
    BY <1>3 DEF MayGrow, Why
  <1>10. placed \in 0..Len(recording.events)
    BY <1>2, ARecording
  <1>11. QED
    BY <1>2, <1>4, <1>6, <1>7, <1>8, <1>9, <1>10 DEF WholeInv, Cutting, Right

LEMMA PlaceWhole ==
  ASSUME WholeInv, PlaceEvent
  PROVE  WholeInv'
  <1> DEFINE o == Opened(recording, cut, placed + 1)
  <1>1. /\ recording \in Recordings /\ placed \in Nat /\ placed < Len(recording.events)
        /\ Len(recording.events) \in Nat
        /\ Cutting(recording, cut, placed) /\ stage = "segment"
    BY ARecording DEF WholeInv, PlaceEvent
  <1>2. Cutting(recording, o, placed) /\ (o.begun # 0 => placed + 1 \notin Declared(recording))
    BY <1>1, OpenedIsRight
  <1> HIDE DEF o
  <1>3. Cutting(recording, Closed(recording, Added(o, placed + 1), placed + 1), placed + 1)
    BY <1>1, <1>2, ClosedIsRight
  <1>4. /\ cut' = Closed(recording, Added(o, placed + 1), placed + 1)
        /\ placed' = placed + 1 /\ stage' = stage /\ recording' = recording
    BY DEF PlaceEvent, o
  <1>5. Cutting(recording', cut', placed')
    BY <1>3, <1>4
  <1>6. placed' \in 0..Len(recording'.events)
    BY <1>1, <1>4
  <1>7. QED
    BY <1>1, <1>4, <1>5, <1>6 DEF WholeInv, Cutting

LEMMA FinishWhole ==
  ASSUME WholeInv, FinishSegments
  PROVE  WholeInv'
  <1>1. /\ recording \in Recordings /\ placed \in Nat /\ placed = Len(recording.events)
        /\ Cutting(recording, cut, placed) /\ Right(recording, cut, placed)
        /\ recording' = recording /\ placed' = placed /\ stage' # "segment"
    BY ARecording DEF WholeInv, FinishSegments
  <1>2. Right(recording, cut', placed) /\ cut'.begun = 0
    <2>1. CASE cut.begun = 0
      BY <1>1, <2>1 DEF FinishSegments
    <2>2. CASE cut.begun # 0
      <3>1. cut' = Finished(recording, cut, placed, cut.reason)
        BY <2>2 DEF FinishSegments
      <3>2. /\ Shape(cut) /\ cut.reason \in Reasons /\ cut.begun \in Nat
            /\ InSequence(cut.segments) /\ CutWhereTold(recording, cut.segments)
            /\ Why(recording, cut)
        BY <1>1 DEF Cutting, Right, Shape
      <3>3. /\ cut.begun = End(cut.segments) + 1 /\ cut.begun <= placed
            /\ \A k \in DOMAIN cut.segments :
                 1 <= cut.segments[k].first /\ cut.segments[k].last <= placed
        BY <1>1, <2>2 DEF Right, Reached
      <3>4. /\ placed - cut.begun + 1 < MaxPerSegment
            /\ Declared(recording) \cap (cut.begun..placed) \subseteq {cut.begun}
            /\ \A n \in cut.begun..placed : ~Writes(recording.events[n])
        BY <1>1, <2>2 DEF Cutting, MayGrow
      <3>5. placed - cut.begun < MaxPerSegment
        BY <1>1, <3>2, <3>4, SegmenterAssumption
      <3>6. placed <= placed /\ placed <= Len(recording.events)
        BY <1>1
      <3>7. \A n \in cut.begun..placed : Writes(recording.events[n]) => n = placed
        BY <3>4
      <3>8. recording \in Recordings /\ placed \in Nat
        BY <1>1
      <3>9. Declared(recording) \cap (cut.begun..placed) \subseteq {cut.begun}
        BY <3>4
      <3>10. LET done == Finished(recording, cut, placed, cut.reason)
            IN Right(recording, done, placed) /\ done.begun = 0
        BY <2>2, <3>2, <3>3, <3>5, <3>6, <3>7, <3>8, <3>9, FinishedIsRight
      <3>11. QED
        BY <3>1, <3>10
    <2>3. QED
      BY <2>1, <2>2
  <1>3. placed \in 0..Len(recording.events)
    BY <1>1
  <1>4. QED
    BY <1>1, <1>2, <1>3 DEF WholeInv

\* What comes after has no part in it.
LEMMA LaterStages ==
  ASSUME Next, ~Place, ~Finish
  PROVE  UNCHANGED sessionVars /\ stage # "segment" /\ stage' # "segment"
  <1>1. CASE Guess
    BY <1>1 DEF Guess
  <1>2. CASE Ask
    BY <1>2 DEF Ask, Turn, Kept
  <1>3. CASE AskWithoutTools \/ AskPastBudget
    BY <1>3 DEF AskWithoutTools, AskPastBudget, Turn, Told, Kept
  <1>4. CASE AnswerUnretrieved \/ AnswerAccepted \/ OutOfTurns
    BY <1>4 DEF AnswerUnretrieved, AnswerAccepted, OutOfTurns, Turn, Kept
  <1>5. CASE Damage
    BY <1>5 DEF Damage
  <1>6. CASE Write
    BY <1>6 DEF Write
  <1>7. CASE Gate
    BY <1>7 DEF Gate
  <1>8. CASE Judge
    BY <1>8 DEF Judge
  <1>9. CASE Suggest
    BY <1>9 DEF Suggest
  <1>10. QED
    BY <1>1, <1>2, <1>3, <1>4, <1>5, <1>6, <1>7, <1>8, <1>9 DEF Next

LEMMA NextWhole == WholeInv /\ [Next]_runVars => WholeInv'
  <1>1. SUFFICES ASSUME WholeInv, [Next]_runVars PROVE WholeInv'
    OBVIOUS
  <1>2. CASE Place
    BY <1>1, <1>2, PlaceWhole DEF Place
  <1>3. CASE Finish
    BY <1>1, <1>3, FinishWhole DEF Finish
  <1>4. CASE Next /\ ~Place /\ ~Finish
    <2>1. recording' = recording /\ placed' = placed /\ cut' = cut
          /\ stage # "segment" /\ stage' # "segment"
      BY <1>4, LaterStages DEF sessionVars
    <2>2. QED
      BY <1>1, <2>1 DEF WholeInv
  <1>5. CASE UNCHANGED runVars
    BY <1>1, <1>5 DEF runVars, segmentVars, WholeInv
  <1>6. QED
    BY <1>1, <1>2, <1>3, <1>4, <1>5

\* The cut is right up to where it has come, whatever the recording.
THEOREM CutInvariant == Spec => []WholeInv
  BY InitWhole, NextWhole, PTL DEF Spec

LEMMA WholeIsWhole ==
  ASSUME WholeInv
  PROVE  SegmentsAreWhole
  <1>1. Right(recording, cut, placed) /\ recording \in Recordings /\ placed \in Nat
    BY ARecording DEF WholeInv
  <1>2. InSequence(cut.segments) /\ CutWhereTold(recording, cut.segments)
    BY <1>1 DEF Right
  <1>3. stage # "segment" => placed = Len(recording.events) /\ End(cut.segments) = placed
    BY <1>1 DEF WholeInv, Right, Reached
  <1>4. QED
    BY <1>2, <1>3 DEF SegmentsAreWhole, End, Last

\* Every event is in one segment, in order, and the cuts are where the tester and
\* the application put them (segment.py: segment_recording, _assert_full_coverage).
THEOREM EveryEventIsInOneSegment == Spec => []SegmentsAreWhole
  BY CutInvariant, WholeIsWhole, PTL

---------------------------------------------------------------------------
(* The index. *)
LEMMA IndexBlocks ==
  ASSUME NEW rec, NEW n \in DOMAIN rec.events
  PROVE  LET block == BuildDigest(rec).blocks[n]
         IN /\ block.opens <=> n \in BreakPlaces(rec)
            /\ block.listed = Listed(rec.events[n]) /\ block.said = Quoted(rec, n)
  BY DEF BuildDigest, EventBlock

\* Everything that is said before the last event ends is heard at the first event
\* it begins no later than.
LEMMA HeardSomewhere ==
  ASSUME NEW rec \in Recordings, NEW k \in DOMAIN rec.narration, rec.narration[k].text # {},
         NEW m \in DOMAIN rec.events, rec.narration[k].start <= rec.events[m].time
  PROVE  \E n \in DOMAIN rec.events : k \in Heard(rec, n)
  <1> DEFINE T == {n \in DOMAIN rec.events : rec.narration[k].start <= rec.events[n].time}
  <1>1. /\ DOMAIN rec.events = 1..Len(rec.events) /\ Len(rec.events) \in Nat
        /\ \A n \in DOMAIN rec.events : rec.events[n].time \in Nat
        /\ rec.narration[k].start \in Nat /\ rec.narration[k].end \in Nat
        /\ rec.narration[k].start <= rec.narration[k].end
    BY ARecording
  <1>2. T \in SUBSET Nat /\ m \in T
    BY <1>1
  <1>3. PICK n \in T : \A j \in T : n <= j
    BY <1>2, LeastOf
  <1>4. CASE n = 1
    <2>1. k \in Heard(rec, n)
      BY <1>1, <1>3, <1>4 DEF Heard
    <2>2. QED
      BY <1>3, <2>1
  <1>5. CASE n > 1
    <2>1. n - 1 \in DOMAIN rec.events /\ n - 1 \notin T
      BY <1>1, <1>3, <1>5
    <2>2. rec.events[n - 1].time < rec.narration[k].start
      BY <1>1, <2>1
    <2>3. rec.narration[k].end >= rec.events[n - 1].time
      BY <1>1, <2>1, <2>2
    <2>4. k \in Heard(rec, n)
      BY <1>3, <1>5, <2>3 DEF Heard
    <2>5. QED
      BY <1>3, <2>4
  <1>6. QED
    BY <1>1, <1>3, <1>4, <1>5

\* What goes before a write goes before every read that it goes before.
LEMMA WritesAreListed ==
  ASSUME NEW rec \in Recordings, NEW n \in DOMAIN rec.events,
         NEW j \in FirstParty(rec.events[n]), NEW k \in FirstParty(rec.events[n]),
         rec.events[n].network[j].write, ~rec.events[n].network[k].write,
         k \in Listed(rec.events[n])
  PROVE  j \in Listed(rec.events[n])
  <1> DEFINE event == rec.events[n]
             Above(x) == {i \in FirstParty(event) : GoesBefore(event, i, x)}
  <1>1. IsFiniteSet(FirstParty(event))
    <2>1. IsFiniteSet(DOMAIN event.network)
      BY ARecording
    <2>2. FirstParty(event) \subseteq DOMAIN event.network
      BY DEF FirstParty
    <2>3. QED
      BY <2>1, <2>2, FS_Subset
  <1>2. Above(j) \subseteq Above(k)
    BY DEF GoesBefore
  <1>3. IsFiniteSet(Above(k)) /\ IsFiniteSet(Above(j))
    <2>1. Above(k) \subseteq FirstParty(event) /\ Above(j) \subseteq FirstParty(event)
      OBVIOUS
    <2>2. QED
      BY <1>1, <2>1, FS_Subset
  <1>4. Cardinality(Above(j)) <= Cardinality(Above(k))
    BY <1>2, <1>3, FS_Subset
  <1>5. Cardinality(Above(j)) \in Nat /\ Cardinality(Above(k)) \in Nat
    BY <1>3, FS_CardinalityType
  <1>6. Cardinality(Above(k)) < MaxNetwork
    BY DEF Listed
  <1>7. MaxNetwork \in Nat
    BY SessionIndexAssumption
  <1>8. Cardinality(Above(j)) < MaxNetwork
    BY <1>4, <1>5, <1>6, <1>7
  <1>9. QED
    BY <1>8 DEF Listed

LEMMA IndexIsWhole ==
  ASSUME WholeInv, stage # "segment"
  PROVE  IndexTellsAll
  <1> DEFINE rec == recording
             index == BuildDigest(recording).blocks
  <1>1. /\ rec \in Recordings /\ DOMAIN rec.events = 1..Len(rec.events)
        /\ Len(rec.events) \in Nat /\ placed = Len(rec.events)
        /\ Right(rec, cut, placed)
    BY ARecording DEF WholeInv
  <1>2. DOMAIN index = DOMAIN rec.events
    BY DEF BuildDigest
  <1>3. ASSUME NEW s \in {cut.segments[k] : k \in DOMAIN cut.segments}, NEW n \in s.first..s.last,
               index[n].opens
        PROVE  n = s.first /\ s.opensCase
    <2>1. PICK k \in DOMAIN cut.segments : s = cut.segments[k]
      OBVIOUS
    <2>2. s \in SegmentRecord
      BY <1>1, <2>1, LenProperties, ElementOfSeq DEF Right, Shape
    <2>3. s.first \in Nat /\ s.last \in Nat /\ 1 <= s.first /\ s.last <= placed
      BY <1>1, <2>1, <2>2, ItsPlaces DEF Right, Reached
    <2>4. n \in DOMAIN rec.events
      BY <1>1, <2>3
    <2>5. n \in BreakPlaces(rec)
      BY <1>3, <2>4, IndexBlocks
    <2>6. n \in Declared(rec)
      BY <2>5 DEF Declared
    <2>7. /\ Declared(rec) \cap (s.first..s.last) \subseteq {s.first}
          /\ s.opensCase <=> s.first \in Declared(rec)
      BY <1>1, <2>1 DEF Right, CutWhereTold
    <2>8. QED
      BY <2>6, <2>7
  <1>4. ASSUME NEW k \in DOMAIN rec.narration, rec.narration[k].text # {},
               NEW m \in DOMAIN index, ~(rec.narration[k].start > rec.events[m].time)
        PROVE  \E n \in DOMAIN index : k \in index[n].said \/ Ahead(Heard(rec, n), k) >= MaxSaid
    <2>1. rec.narration[k].start \in Nat /\ rec.events[m].time \in Nat
      BY <1>1, <1>2, ARecording
    <2>2. PICK n \in DOMAIN rec.events : k \in Heard(rec, n)
      BY <1>1, <1>2, <1>4, <2>1, HeardSomewhere
    <2>3. Ahead(Heard(rec, n), k) \in Nat /\ MaxSaid \in Nat
      <3>1. Len(rec.narration) \in Nat /\ DOMAIN rec.narration = 1..Len(rec.narration)
        BY <1>1, ARecording
      <3>2. IsFiniteSet(1..Len(rec.narration))
        BY <3>1, FS_Interval
      <3>3. {j \in Heard(rec, n) : j < k} \subseteq 1..Len(rec.narration)
        BY <3>1 DEF Heard
      <3>4. Ahead(Heard(rec, n), k) \in Nat
        BY <3>2, <3>3, FS_Subset, FS_CardinalityType DEF Ahead
      <3>5. QED
        BY <3>4, SessionIndexAssumption
    <2>4. Ahead(Heard(rec, n), k) < MaxSaid => k \in index[n].said
      BY <2>2, IndexBlocks DEF Quoted
    <2>5. QED
      BY <1>2, <2>2, <2>3, <2>4
  <1>5. ASSUME NEW n \in DOMAIN index, NEW j \in FirstParty(rec.events[n]),
               NEW k \in FirstParty(rec.events[n]),
               rec.events[n].network[j].write, k \in index[n].listed,
               ~rec.events[n].network[k].write
        PROVE  j \in index[n].listed
    BY <1>1, <1>2, <1>5, IndexBlocks, WritesAreListed
  <1>6. QED
    BY <1>3, <1>4, <1>5, Zenon DEF IndexTellsAll

\* A recording is read whole: the segments are whole, and the index tells of every
\* declared break, of what was said up to the last event and of the writes.
THEOREM EverySessionIsReadWhole == Spec => []SessionIsReadWhole
  <1>1. WholeInv => SessionIsReadWhole
    BY WholeIsWhole, IndexIsWhole DEF SessionIsReadWhole
  <1>2. QED
    BY <1>1, CutInvariant, PTL

\* Induction up to a number, as the absence of a least exception.
LEMMA StepByStep ==
  ASSUME NEW N \in Nat, NEW T, 0 \in T, \A n \in 0..(N - 1) : n \in T => n + 1 \in T
  PROVE  \A n \in 0..N : n \in T
  <1> DEFINE U == {n \in 0..N : n \notin T}
  <1>1. SUFFICES ASSUME U # {} PROVE FALSE
    OBVIOUS
  <1>0. U \in SUBSET Nat
    OBVIOUS
  <1>2. PICK n \in U : \A m \in U : n <= m
    <2> HIDE DEF U
    <2> QED
      BY <1>0, <1>1, LeastOf
  <1>3. n # 0 /\ n - 1 \in 0..(N - 1)
    OBVIOUS
  <1>4. n - 1 \in T
    BY <1>2, <1>3
  <1>5. QED
    BY <1>3, <1>4

\* A sequence over a set is one over its own elements.
LEMMA InSeq ==
  ASSUME NEW S, NEW s \in Seq(S)
  PROVE  /\ IsSeq(s) /\ Len(s) \in Nat /\ DOMAIN s = 1..Len(s) /\ ToSet(s) \subseteq S
         /\ \A i \in 1..Len(s) : s[i] \in ToSet(s)
  <1>1. Len(s) \in Nat /\ DOMAIN s = 1..Len(s) /\ s \in [1..Len(s) -> S]
    BY LenProperties
  <1>2. s \in [1..Len(s) -> ToSet(s)]
    BY <1>1 DEF ToSet
  <1>3. s \in Seq(ToSet(s))
    BY <1>1, <1>2, SeqDef
  <1>4. QED
    BY <1>1, <1>2, <1>3 DEF IsSeq, ToSet

\* Length, domain and elements of a sequence.
LEMMA IsSeqMeans ==
  ASSUME NEW s, IsSeq(s)
  PROVE  /\ Len(s) \in Nat /\ DOMAIN s = 1..Len(s)
         /\ ToSet(s) = {s[i] : i \in 1..Len(s)}
         /\ (Len(s) = 0 <=> s = <<>>)
  BY InSeq, LenProperties, EmptySeq DEF IsSeq, ToSet

\* A function on 1..n is a sequence.
LEMMA Made ==
  ASSUME NEW n \in Nat, NEW s, DOMAIN s = 1..n, s = [i \in 1..n |-> s[i]]
  PROVE  IsSeq(s) /\ Len(s) = n
  <1>1. s \in [1..n -> ToSet(s)]
    BY DEF ToSet
  <1>2. s \in Seq(ToSet(s))
    BY <1>1, SeqDef
  <1>3. QED
    BY <1>2, LenProperties DEF IsSeq

\* What \o gives, place by place.
LEMMA CatOf ==
  ASSUME NEW s, NEW t, IsSeq(s), IsSeq(t)
  PROVE  /\ IsSeq(s \o t) /\ Len(s \o t) = Len(s) + Len(t)
         /\ \A i \in 1..Len(s) : (s \o t)[i] = s[i]
         /\ \A i \in 1..Len(t) : (s \o t)[Len(s) + i] = t[i]
         /\ \A q \in 1..(Len(s) + Len(t)) : q \in 1..Len(s) \/ q - Len(s) \in 1..Len(t)
  <1> DEFINE S == ToSet(s) \cup ToSet(t)
  <1>1. s \in Seq(S) /\ t \in Seq(S)
    BY SeqMonotonic DEF IsSeq
  <1>2. /\ s \o t \in Seq(S) /\ Len(s \o t) = Len(s) + Len(t)
        /\ \A i \in 1..Len(s) + Len(t) : (s \o t)[i] = IF i <= Len(s) THEN s[i] ELSE t[i - Len(s)]
    BY <1>1, ConcatProperties
  <1>3. Len(s) \in Nat /\ Len(t) \in Nat
    BY IsSeqMeans
  <1>4. IsSeq(s \o t)
    BY <1>2, InSeq
  <1>5. QED
    BY <1>2, <1>3, <1>4

---------------------------------------------------------------------------
(* Flattened sequences. *)
Flat(ss) ==
    CHOOSE flat : flat = [i \in 1..Len(ss) |-> IF i = 1 THEN ss[i] ELSE flat[i - 1] \o ss[i]]

\* What the first k of them come to, and where the k-th one starts.
Upto(ss, k) == IF k = 0 THEN <<>> ELSE Flat(ss)[k]
Start(ss, k) == Len(Upto(ss, k - 1))

SeqOfSeqs(ss) == IsSeq(ss) /\ \A k \in 1..Len(ss) : IsSeq(ss[k])

\* The recursive function FlattenSeq is defined by exists.
LEMMA FlatIsDefined ==
  ASSUME NEW ss, NEW N \in Nat
  PROVE  \E flat : flat = [i \in 1..N |-> IF i = 1 THEN ss[i] ELSE flat[i - 1] \o ss[i]]
  <1> DEFINE Good(flat, n) == flat = [i \in 1..n |-> IF i = 1 THEN ss[i] ELSE flat[i - 1] \o ss[i]]
             T == {n \in Nat : \E flat : Good(flat, n)}
  <1>1. 0 \in T
    <2> DEFINE g == [i \in 1..0 |-> <<>>]
    <2>1. Good(g, 0)
      OBVIOUS
    <2>2. QED
      BY <2>1
  <1>2. ASSUME NEW n \in 0..(N - 1), n \in T PROVE n + 1 \in T
    <2>1. PICK f : Good(f, n)
      BY <1>2
    <2> DEFINE g == [i \in 1..(n + 1) |->
                        IF i <= n THEN f[i]
                        ELSE IF i = 1 THEN ss[i] ELSE f[i - 1] \o ss[i]]
    <2> HIDE DEF T
    <2>2. \A i \in 1..n : f[i] = IF i = 1 THEN ss[i] ELSE f[i - 1] \o ss[i]
      BY <2>1
    <2>3. /\ g = [i \in 1..(n + 1) |-> g[i]]
          /\ \A i \in 1..(n + 1) :
                g[i] = IF i <= n THEN f[i] ELSE IF i = 1 THEN ss[i] ELSE f[i - 1] \o ss[i]
      OBVIOUS
    <2> HIDE DEF g, Good
    <2>4. n \in Nat
      OBVIOUS
    <2>5. ASSUME NEW i \in 1..(n + 1)
          PROVE  g[i] = IF i = 1 THEN ss[i] ELSE g[i - 1] \o ss[i]
      <3>1. CASE i = 1
        <4>1. g[i] = IF i <= n THEN f[i] ELSE ss[i]
          BY <2>3, <3>1
        <4>2. i <= n => f[i] = ss[i]
          BY <2>2, <3>1
        <4>3. QED
          BY <3>1, <4>1, <4>2
      <3>2. CASE i # 1
        <4>1. i - 1 \in 1..n /\ i - 1 \in 1..(n + 1) /\ i - 1 <= n
          BY <2>4, <3>2
        <4>2. g[i - 1] = f[i - 1]
          BY <2>3, <4>1
        <4>3. CASE i <= n
          <5>1. g[i] = f[i]
            BY <2>3, <4>3
          <5>2. f[i] = f[i - 1] \o ss[i]
            <6>1. i \in 1..n
              BY <2>4, <4>3
            <6>2. QED
              BY <2>2, <3>2, <6>1, Zenon
          <5>3. QED
            BY <3>2, <4>2, <5>1, <5>2
        <4>4. CASE ~(i <= n)
          <5>1. g[i] = f[i - 1] \o ss[i]
            BY <2>3, <3>2, <4>4
          <5>2. QED
            BY <3>2, <4>2, <5>1
        <4>5. QED
          BY <4>3, <4>4
      <3>3. QED
        BY <3>1, <3>2
    <2>6. Good(g, n + 1)
      BY <2>3, <2>5 DEF Good
    <2>7. QED
      BY <2>4, <2>6 DEF T
  <1>3. \A n \in 0..N : n \in T
    <2> HIDE DEF T
    <2> QED BY <1>1, <1>2, StepByStep
  <1>4. N \in T
    <2> HIDE DEF T
    <2> QED BY <1>3
  <1>5. QED
    BY <1>4

\* A flattened sequence is put together one part at a time.
LEMMA FlatUnfolds ==
  ASSUME NEW ss, SeqOfSeqs(ss)
  PROVE  /\ FlattenSeq(ss) = Upto(ss, Len(ss))
         /\ Upto(ss, 0) = <<>>
         /\ \A k \in 1..Len(ss) : Upto(ss, k) = Upto(ss, k - 1) \o ss[k]
         /\ \A k \in 0..Len(ss) : IsSeq(Upto(ss, k))
  <1>1. Len(ss) \in Nat /\ (Len(ss) = 0 => ss = <<>>)
    BY IsSeqMeans DEF SeqOfSeqs
  <1>2. Flat(ss) = [i \in 1..Len(ss) |-> IF i = 1 THEN ss[i] ELSE Flat(ss)[i - 1] \o ss[i]]
    <2> DEFINE F(flat) == flat = [i \in 1..Len(ss) |-> IF i = 1 THEN ss[i] ELSE flat[i - 1] \o ss[i]]
    <2>1. \E flat : F(flat)
      BY <1>1, FlatIsDefined
    <2>2. Flat(ss) = CHOOSE flat : F(flat)
      BY DEF Flat
    <2> HIDE DEF F
    <2>3. F(Flat(ss))
      BY <2>1, <2>2
    <2>4. QED
      BY <2>3 DEF F
  <1>3. FlattenSeq(ss) = Upto(ss, Len(ss))
    BY <1>1 DEF FlattenSeq, Upto, Flat
  <1>4. Upto(ss, 0) = <<>>
    BY DEF Upto
  <1>5. IsSeq(<<>>)
    BY DEF IsSeq
  <1>6. ASSUME NEW k \in 1..Len(ss) PROVE Upto(ss, k) = Upto(ss, k - 1) \o ss[k]
    <2>1. CASE k = 1
      <3>1. Upto(ss, k) = ss[1] /\ Upto(ss, k - 1) = <<>>
        BY <1>2, <2>1 DEF Upto
      <3>2. <<>> \o ss[1] = ss[1]
        BY <2>1, ConcatEmptySeq DEF SeqOfSeqs, IsSeq
      <3>3. QED
        BY <2>1, <3>1, <3>2
    <2>2. CASE k # 1
      <3>1. Flat(ss)[k] = Flat(ss)[k - 1] \o ss[k]
        BY <1>2, <2>2
      <3>2. k # 0 /\ k - 1 # 0
        BY <2>2
      <3>3. Upto(ss, k) = Flat(ss)[k] /\ Upto(ss, k - 1) = Flat(ss)[k - 1]
        BY <3>2 DEF Upto
      <3>4. QED
        BY <3>1, <3>3
    <2>3. QED
      BY <2>1, <2>2
  <1>7. \A k \in 0..Len(ss) : IsSeq(Upto(ss, k))
    <2> DEFINE T == {k \in Nat : IsSeq(Upto(ss, k))}
    <2>1. 0 \in T
      BY <1>4, <1>5
    <2>2. ASSUME NEW n \in 0..(Len(ss) - 1), n \in T PROVE n + 1 \in T
      <3>1. n + 1 \in 1..Len(ss) /\ (n + 1) - 1 = n
        BY <1>1
      <3>2. Upto(ss, n + 1) = Upto(ss, n) \o ss[n + 1]
        BY <1>6, <3>1
      <3>3. IsSeq(Upto(ss, n)) /\ IsSeq(ss[n + 1])
        BY <2>2, <3>1 DEF SeqOfSeqs
      <3>4. IsSeq(Upto(ss, n) \o ss[n + 1])
        BY <3>3, CatOf
      <3> HIDE DEF T
      <3>5. IsSeq(Upto(ss, n + 1))
        BY <3>2, <3>4, Zenon
      <3>6. n + 1 \in Nat
        BY <1>1
      <3>7. QED
        BY <3>5, <3>6 DEF T
    <2>3. \A k \in 0..Len(ss) : k \in T
      <3> HIDE DEF T
      <3> QED BY <1>1, <2>1, <2>2, StepByStep
    <2>4. QED
      BY <2>3
  <1>8. QED
    BY <1>3, <1>4, <1>6, <1>7

\* Where the parts begin, and how long the whole is.
LEMMA StartsOf ==
  ASSUME NEW ss, SeqOfSeqs(ss)
  PROVE  /\ Len(ss) \in Nat /\ Start(ss, 1) = 0
         /\ IsSeq(FlattenSeq(ss)) /\ Len(FlattenSeq(ss)) = Start(ss, Len(ss) + 1)
         /\ \A k \in 1..(Len(ss) + 1) : Start(ss, k) \in Nat
         /\ \A k \in 1..Len(ss) : Len(ss[k]) \in Nat /\ Start(ss, k + 1) = Start(ss, k) + Len(ss[k])
  <1>1. Len(ss) \in Nat /\ Len(<<>>) = 0
    BY IsSeqMeans DEF SeqOfSeqs
  <1>2. Start(ss, 1) = 0
    <2>1. Upto(ss, 1 - 1) = <<>>
      BY DEF Upto
    <2>2. QED
      BY <1>1, <2>1 DEF Start
  <1>3. IsSeq(FlattenSeq(ss)) /\ Len(FlattenSeq(ss)) = Start(ss, Len(ss) + 1)
    <2>1. (Len(ss) + 1) - 1 = Len(ss) /\ Len(ss) \in 0..Len(ss)
      BY <1>1
    <2>2. QED
      BY <2>1, FlatUnfolds DEF Start
  <1>4. ASSUME NEW k \in 1..(Len(ss) + 1) PROVE Start(ss, k) \in Nat
    <2>1. k - 1 \in 0..Len(ss)
      BY <1>1
    <2>2. QED
      BY <2>1, FlatUnfolds, IsSeqMeans DEF Start
  <1>5. ASSUME NEW k \in 1..Len(ss)
        PROVE  Len(ss[k]) \in Nat /\ Start(ss, k + 1) = Start(ss, k) + Len(ss[k])
    <2>1. k - 1 \in 0..Len(ss) /\ (k + 1) - 1 = k
      BY <1>1
    <2>2. IsSeq(Upto(ss, k - 1)) /\ IsSeq(ss[k]) /\ Upto(ss, k) = Upto(ss, k - 1) \o ss[k]
      BY <2>1, FlatUnfolds DEF SeqOfSeqs
    <2>3. Len(Upto(ss, k)) = Len(Upto(ss, k - 1)) + Len(ss[k])
      BY <2>2, CatOf
    <2>4. QED
      BY <2>1, <2>2, <2>3, IsSeqMeans DEF Start
  <1>6. QED
    BY <1>1, <1>2, <1>3, <1>4, <1>5

\* The first k come first in all of them.
LEMMA UptoIsPrefix ==
  ASSUME NEW ss, SeqOfSeqs(ss), NEW k \in 0..Len(ss)
  PROVE  \A m \in 0..Len(ss) : k <= m =>
            /\ Len(Upto(ss, k)) <= Len(Upto(ss, m))
            /\ \A q \in 1..Len(Upto(ss, k)) : Upto(ss, m)[q] = Upto(ss, k)[q]
  <1> DEFINE Ok(m) == /\ Len(Upto(ss, k)) <= Len(Upto(ss, m))
                      /\ \A q \in 1..Len(Upto(ss, k)) : Upto(ss, m)[q] = Upto(ss, k)[q]
             T == {m \in Nat : k <= m => Ok(m)}
  <1>1. Len(ss) \in Nat /\ k \in Nat
    BY StartsOf
  <1>2. \A m \in 0..Len(ss) : Len(Upto(ss, m)) \in Nat
    BY FlatUnfolds, IsSeqMeans
  <1>3. Ok(k)
    BY <1>2
  <1>4. 0 \in T
    BY <1>1, <1>3
  <1>5. ASSUME NEW m \in 0..(Len(ss) - 1), m \in T PROVE m + 1 \in T
    <2>1. m \in Nat /\ m \in 0..Len(ss) /\ m + 1 \in 1..Len(ss) /\ (m + 1) - 1 = m
      BY <1>1
    <2>2. CASE k <= m
      <3>1. Ok(m)
        BY <1>5, <2>2
      <3>2. /\ IsSeq(Upto(ss, m)) /\ IsSeq(ss[m + 1])
            /\ Upto(ss, m + 1) = Upto(ss, m) \o ss[m + 1]
        BY <2>1, FlatUnfolds DEF SeqOfSeqs
      <3>3. /\ Len(Upto(ss, m) \o ss[m + 1]) = Len(Upto(ss, m)) + Len(ss[m + 1])
            /\ \A q \in 1..Len(Upto(ss, m)) : (Upto(ss, m) \o ss[m + 1])[q] = Upto(ss, m)[q]
            /\ Len(ss[m + 1]) \in Nat
        BY <3>2, CatOf, IsSeqMeans
      <3>4. /\ Len(Upto(ss, m + 1)) = Len(Upto(ss, m)) + Len(ss[m + 1])
            /\ \A q \in 1..Len(Upto(ss, m)) : Upto(ss, m + 1)[q] = Upto(ss, m)[q]
        BY <3>2, <3>3, Zenon
      <3> HIDE DEF T
      <3>5. Ok(m + 1)
        BY <1>2, <2>1, <3>1, <3>3, <3>4
      <3>6. QED
        BY <2>1, <3>5 DEF T
    <2>3. CASE ~(k <= m)
      <3>1. k = m + 1 \/ ~(k <= m + 1)
        BY <1>1, <2>1, <2>3
      <3> HIDE DEF Ok
      <3>2. QED
        BY <1>3, <2>1, <3>1
    <2>4. QED
      BY <2>2, <2>3
  <1>6. \A m \in 0..Len(ss) : m \in T
    <2> HIDE DEF T
    <2> QED BY <1>1, <1>4, <1>5, StepByStep
  <1>7. QED
    BY <1>6

\* The j-th of the k-th is where it starts, and j further.
LEMMA FlatPlaces ==
  ASSUME NEW ss, SeqOfSeqs(ss), NEW k \in 1..Len(ss), NEW j \in 1..Len(ss[k])
  PROVE  /\ Start(ss, k) + j \in 1..Len(FlattenSeq(ss))
         /\ FlattenSeq(ss)[Start(ss, k) + j] = ss[k][j]
  <1>1. /\ Len(ss) \in Nat /\ k \in Nat /\ k - 1 \in 0..Len(ss) /\ k \in 0..Len(ss)
        /\ Len(ss) \in 0..Len(ss) /\ k <= Len(ss)
    BY StartsOf
  <1>2. /\ IsSeq(Upto(ss, k - 1)) /\ IsSeq(ss[k])
        /\ Upto(ss, k) = Upto(ss, k - 1) \o ss[k]
        /\ FlattenSeq(ss) = Upto(ss, Len(ss))
    BY <1>1, FlatUnfolds DEF SeqOfSeqs
  <1>3. /\ Len(Upto(ss, k - 1) \o ss[k]) = Start(ss, k) + Len(ss[k])
        /\ (Upto(ss, k - 1) \o ss[k])[Start(ss, k) + j] = ss[k][j]
        /\ Start(ss, k) \in Nat /\ Len(ss[k]) \in Nat
    BY <1>2, CatOf, IsSeqMeans DEF Start
  <1>4. Len(Upto(ss, k)) = Start(ss, k) + Len(ss[k]) /\ Upto(ss, k)[Start(ss, k) + j] = ss[k][j]
    BY <1>2, <1>3, Zenon
  <1>5. Start(ss, k) + j \in 1..Len(Upto(ss, k))
    BY <1>3, <1>4
  <1>6. /\ Len(Upto(ss, k)) <= Len(FlattenSeq(ss))
        /\ \A q \in 1..Len(Upto(ss, k)) : FlattenSeq(ss)[q] = Upto(ss, k)[q]
    BY <1>1, <1>2, UptoIsPrefix
  <1>7. Len(FlattenSeq(ss)) \in Nat /\ Len(Upto(ss, k)) \in Nat
    BY <1>1, <1>2, FlatUnfolds, IsSeqMeans
  <1>8. QED
    BY <1>4, <1>5, <1>6, <1>7

\* Every place in all of them is a place in one of them.
LEMMA FlatFrom ==
  ASSUME NEW ss, SeqOfSeqs(ss), NEW q \in 1..Len(FlattenSeq(ss))
  PROVE  \E k \in 1..Len(ss) : \E j \in 1..Len(ss[k]) : q = Start(ss, k) + j
  <1> DEFINE T == {k \in 1..(Len(ss) + 1) : q <= Start(ss, k)}
             N == Len(ss) + 1
  <1>1. /\ Len(ss) \in Nat /\ Start(ss, 1) = 0 /\ Len(FlattenSeq(ss)) = Start(ss, N)
        /\ \A k \in 1..N : Start(ss, k) \in Nat
        /\ \A k \in 1..Len(ss) : Len(ss[k]) \in Nat /\ Start(ss, k + 1) = Start(ss, k) + Len(ss[k])
    BY StartsOf
  <1>2. N \in 1..N /\ q \in Nat /\ q <= Start(ss, N) /\ 1 <= q
    BY <1>1
  <1>3. T \in SUBSET Nat /\ T # {}
    BY <1>1, <1>2
  <1> HIDE DEF T
  <1>4. PICK k \in T : \A m \in T : k <= m
    BY <1>3, LeastOf
  <1>5. k \in 1..N /\ q <= Start(ss, k)
    BY <1>4 DEF T
  <1>6. k # 1
    BY <1>1, <1>2, <1>5
  <1>7. k - 1 \in 1..Len(ss) /\ k - 1 \in 1..N /\ (k - 1) + 1 = k
    BY <1>1, <1>5, <1>6
  <1>8. ~(q <= Start(ss, k - 1))
    <2>1. k - 1 \notin T
      BY <1>4, <1>5, <1>7
    <2>2. QED
      BY <2>1, <1>7 DEF T
  <1>9. /\ Start(ss, k) = Start(ss, k - 1) + Len(ss[k - 1])
        /\ Start(ss, k - 1) \in Nat /\ Len(ss[k - 1]) \in Nat
    BY <1>1, <1>7
  <1>10. q - Start(ss, k - 1) \in 1..Len(ss[k - 1])
    BY <1>2, <1>5, <1>8, <1>9
  <1>11. q = Start(ss, k - 1) + (q - Start(ss, k - 1))
    BY <1>2, <1>9
  <1>12. QED
    BY <1>7, <1>10, <1>11

\* A flattened sequence has the elements of its parts.
LEMMA FlatRange ==
  ASSUME NEW ss, SeqOfSeqs(ss)
  PROVE  \A x : x \in ToSet(FlattenSeq(ss)) <=> \E k \in 1..Len(ss) : x \in ToSet(ss[k])
  <1>1. ToSet(FlattenSeq(ss)) = {FlattenSeq(ss)[q] : q \in 1..Len(FlattenSeq(ss))}
    BY StartsOf, IsSeqMeans
  <1>2. \A k \in 1..Len(ss) : \A y : y \in ToSet(ss[k]) <=> \E j \in 1..Len(ss[k]) : y = ss[k][j]
    <2>1. TAKE k \in 1..Len(ss)
    <2>2. ToSet(ss[k]) = {ss[k][j] : j \in 1..Len(ss[k])}
      BY IsSeqMeans DEF SeqOfSeqs
    <2>3. QED
      BY <2>2
  <1>3. ASSUME NEW q \in 1..Len(FlattenSeq(ss))
        PROVE  \E k \in 1..Len(ss) : \E j \in 1..Len(ss[k]) : FlattenSeq(ss)[q] = ss[k][j]
    <2>1. \E k \in 1..Len(ss) : \E j \in 1..Len(ss[k]) : q = Start(ss, k) + j
      BY FlatFrom
    <2>2. PICK k \in 1..Len(ss) : \E j \in 1..Len(ss[k]) : q = Start(ss, k) + j
      BY <2>1
    <2>3. PICK j \in 1..Len(ss[k]) : q = Start(ss, k) + j
      BY <2>2
    <2>4. FlattenSeq(ss)[q] = ss[k][j]
      BY <2>3, FlatPlaces
    <2>5. QED
      BY <2>4
  <1>4. ASSUME NEW k \in 1..Len(ss), NEW j \in 1..Len(ss[k])
        PROVE  \E q \in 1..Len(FlattenSeq(ss)) : FlattenSeq(ss)[q] = ss[k][j]
    BY FlatPlaces
  <1>5. TAKE x
  <1>6. ASSUME x \in ToSet(FlattenSeq(ss)) PROVE \E k \in 1..Len(ss) : x \in ToSet(ss[k])
    <2>1. PICK q \in 1..Len(FlattenSeq(ss)) : x = FlattenSeq(ss)[q]
      BY <1>1, <1>6
    <2>2. PICK k \in 1..Len(ss) : \E j \in 1..Len(ss[k]) : FlattenSeq(ss)[q] = ss[k][j]
      BY <1>3
    <2>3. x \in ToSet(ss[k])
      BY <1>2, <2>1, <2>2
    <2>4. QED
      BY <2>3
  <1>7. ASSUME NEW k \in 1..Len(ss), x \in ToSet(ss[k]) PROVE x \in ToSet(FlattenSeq(ss))
    <2>1. PICK j \in 1..Len(ss[k]) : x = ss[k][j]
      BY <1>2, <1>7
    <2>2. PICK q \in 1..Len(FlattenSeq(ss)) : FlattenSeq(ss)[q] = ss[k][j]
      BY <1>4
    <2>3. QED
      BY <1>1, <2>1, <2>2
  <1>8. QED
    BY <1>6, <1>7

\* What SubSeq gives, place by place.
LEMMA PartOf ==
  ASSUME NEW s, IsSeq(s), NEW m \in 1..(Len(s) + 1), NEW n \in 0..Len(s), m <= n + 1
  PROVE  /\ IsSeq(SubSeq(s, m, n)) /\ Len(SubSeq(s, m, n)) = (n - m) + 1
         /\ \A i \in 1..((n - m) + 1) : SubSeq(s, m, n)[i] = s[(m + i) - 1]
  <1>1. Len(s) \in Nat
    BY IsSeqMeans
  <1>2. m \in Int /\ n \in Int
    BY <1>1
  <1>3. \A i \in m..n : s[i] \in ToSet(s)
    <2>1. \A i \in 1..Len(s) : s[i] \in ToSet(s)
      BY IsSeqMeans
    <2>2. QED
      BY <1>1, <2>1
  <1>4. /\ SubSeq(s, m, n) \in Seq(ToSet(s))
        /\ Len(SubSeq(s, m, n)) = IF m <= n THEN (n - m) + 1 ELSE 0
        /\ \A i \in 1..((n - m) + 1) : SubSeq(s, m, n)[i] = s[(m + i) - 1]
    BY <1>2, <1>3, SubSeqProperties
  <1>5. IsSeq(SubSeq(s, m, n))
    BY <1>4, InSeq
  <1>6. QED
    BY <1>2, <1>4, <1>5

\* A sequence of one element.
LEMMA One ==
  ASSUME NEW e
  PROVE  IsSeq(<<e>>) /\ Len(<<e>>) = 1 /\ <<e>>[1] = e
  <1>1. <<e>> \in Seq({e})
    OBVIOUS
  <1>2. QED
    BY <1>1, InSeq

\* The empty sequence.
LEMMA None ==
  IsSeq(<<>>) /\ Len(<<>>) = 0
  BY DEF IsSeq

\* A sequence with one element replaced.
LEMMA ReplacedAt ==
  ASSUME NEW s, IsSeq(s), NEW i \in 1..Len(s), NEW e
  PROVE  /\ IsSeq([s EXCEPT ![i] = e]) /\ Len([s EXCEPT ![i] = e]) = Len(s)
         /\ [s EXCEPT ![i] = e][i] = e
         /\ \A j \in 1..Len(s) : j # i => [s EXCEPT ![i] = e][j] = s[j]
  <1> DEFINE S == ToSet(s) \cup {e}
             t == [s EXCEPT ![i] = e]
  <1>1. s \in Seq(S)
    BY SeqMonotonic DEF IsSeq
  <1>2. Len(s) \in Nat /\ s \in [1..Len(s) -> S]
    BY <1>1, LenProperties
  <1>3. e \in S
    OBVIOUS
  <1> HIDE DEF S
  <1>4. t \in [1..Len(s) -> S]
    BY <1>2, <1>3
  <1>5. t \in Seq(S)
    BY <1>2, <1>4, SeqDef
  <1>6. Len(t) = Len(s)
    <2>1. DOMAIN t = 1..Len(t) /\ Len(t) \in Nat
      BY <1>5, LenProperties
    <2>2. DOMAIN t = 1..Len(s)
      BY <1>4
    <2>3. 1..Len(t) = 1..Len(s) => Len(t) = Len(s)
      BY <1>2, <2>1
    <2>4. QED
      BY <2>1, <2>2, <2>3
  <1>7. QED
    BY <1>2, <1>5, <1>6, InSeq

\* Sequences with the same elements at the same places are the same.
LEMMA Alike ==
  ASSUME NEW s, NEW t, IsSeq(s), IsSeq(t), Len(s) = Len(t), \A i \in 1..Len(s) : s[i] = t[i]
  PROVE  s = t
  <1> DEFINE S == ToSet(s) \cup ToSet(t)
  <1>1. s \in Seq(S) /\ t \in Seq(S)
    BY SeqMonotonic DEF IsSeq
  <1> HIDE DEF S
  <1>2. QED
    BY <1>1, SeqEqual

\* Of sequences of the same lengths all starts are the same.
LEMMA FlatAlike ==
  ASSUME NEW ss, NEW tt, SeqOfSeqs(ss), SeqOfSeqs(tt), Len(ss) = Len(tt),
         \A k \in 1..Len(ss) : Len(ss[k]) = Len(tt[k])
  PROVE  /\ \A k \in 1..(Len(ss) + 1) : Start(ss, k) = Start(tt, k)
         /\ Len(FlattenSeq(ss)) = Len(FlattenSeq(tt))
  <1> DEFINE T == {n \in Nat : Start(ss, n + 1) = Start(tt, n + 1)}
  <1>1. Len(ss) \in Nat /\ Start(ss, 0 + 1) = 0 /\ Start(tt, 0 + 1) = 0
    BY StartsOf
  <1>2. 0 \in T
    BY <1>1
  <1>3. ASSUME NEW n \in 0..(Len(ss) - 1), n \in T PROVE n + 1 \in T
    <2>1. n + 1 \in 1..Len(ss) /\ n + 1 \in Nat
      BY <1>1
    <2>2. /\ Start(ss, (n + 1) + 1) = Start(ss, n + 1) + Len(ss[n + 1])
          /\ Start(tt, (n + 1) + 1) = Start(tt, n + 1) + Len(tt[n + 1])
      BY <2>1, StartsOf
    <2>3. Start(ss, (n + 1) + 1) = Start(tt, (n + 1) + 1)
      BY <1>3, <2>1, <2>2
    <2>4. QED
      BY <2>1, <2>3
  <1>4. \A n \in 0..Len(ss) : n \in T
    <2> HIDE DEF T
    <2> QED BY <1>1, <1>2, <1>3, StepByStep
  <1>5. ASSUME NEW k \in 1..(Len(ss) + 1) PROVE Start(ss, k) = Start(tt, k)
    <2>1. k - 1 \in 0..Len(ss) /\ (k - 1) + 1 = k
      BY <1>1
    <2>2. k - 1 \in T
      BY <1>4, <2>1
    <2>3. QED
      BY <2>1, <2>2
  <1>6. Len(ss) + 1 \in 1..(Len(ss) + 1)
    BY <1>1
  <1>7. Len(FlattenSeq(ss)) = Len(FlattenSeq(tt))
    BY <1>5, <1>6, StartsOf
  <1>8. QED
    BY <1>5, <1>7

\* What Append gives.
LEMMA Appended ==
  ASSUME NEW s, IsSeq(s), NEW e
  PROVE  /\ IsSeq(Append(s, e)) /\ Len(Append(s, e)) = Len(s) + 1
         /\ \A i \in 1..Len(s) : Append(s, e)[i] = s[i]
         /\ Append(s, e)[Len(s) + 1] = e /\ Last(Append(s, e)) = e /\ Append(s, e) # s
  <1> DEFINE S == ToSet(s) \cup {e}
             t == Append(s, e)
  <1>1. s \in Seq(S) /\ e \in S
    BY SeqMonotonic DEF IsSeq
  <1>2. Len(s) \in Nat
    BY IsSeqMeans
  <1> HIDE DEF S
  <1>3. /\ t \in Seq(S) /\ Len(t) = Len(s) + 1
        /\ \A i \in 1..Len(s) : t[i] = s[i]
        /\ t[Len(s) + 1] = e
    BY <1>1, AppendProperties
  <1> HIDE DEF t
  <1>4. IsSeq(t)
    BY <1>3, InSeq
  <1>5. t # s
    BY <1>2, <1>3
  <1>6. QED
    BY <1>3, <1>4, <1>5 DEF Last, t

---------------------------------------------------------------------------
(* Folds. A fold goes from the start over the places of the sequence, the *)
(* largest of a set of places last.                                       *)

\* The largest of some places.
LEMMA MaxOf ==
  ASSUME NEW n \in Nat, NEW S \in SUBSET (1..n), S # {}
  PROVE  Max(S) \in S /\ \A y \in S : Max(S) >= y
  <1> DEFINE T == {n - y : y \in S}
  <1>1. T \in SUBSET Nat /\ T # {}
    <2>1. \A y \in S : n - y \in Nat
      OBVIOUS
    <2>2. QED
      BY <2>1
  <1>2. PICK t \in T : \A u \in T : t <= u
    BY <1>1, LeastOf
  <1>3. PICK x \in S : t = n - x
    BY <1>2
  <1>4. \A y \in S : x >= y
    <2>1. TAKE y \in S
    <2>2. n - y \in T /\ x \in 1..n /\ y \in 1..n
      OBVIOUS
    <2>3. n - x <= n - y
      BY <1>2, <1>3, <2>2
    <2>4. QED
      BY <2>2, <2>3
  <1>5. QED
    BY <1>4 DEF Max

\* A set of the first n + 1 places is one of the first n, or has the last one.
LEMMA PlacesSplit ==
  ASSUME NEW n \in Nat, NEW S \in SUBSET (1..(n + 1))
  PROVE  \/ /\ S \in SUBSET (1..n)
            /\ S # {} => Max(S) \in 1..n /\ S \ {Max(S)} \in SUBSET (1..n)
         \/ /\ S \notin SUBSET (1..n) /\ S # {}
            /\ Max(S) = n + 1 /\ S \ {Max(S)} \in SUBSET (1..n)
  <1>1. CASE n + 1 \in S
    <2>1. Max(S) \in S /\ \A y \in S : Max(S) >= y
      <3>1. n + 1 \in Nat /\ S # {}
        BY <1>1
      <3>2. QED
        BY <3>1, MaxOf
    <2>2. Max(S) = n + 1
      <3>1. Max(S) \in 1..(n + 1) /\ Max(S) >= n + 1
        BY <1>1, <2>1
      <3>2. QED
        BY <3>1
    <2>3. QED
      BY <1>1, <2>2
  <1>2. CASE n + 1 \notin S
    <2>1. S \in SUBSET (1..n)
      BY <1>2
    <2>2. QED
      BY <2>1, MaxOf
  <1>3. QED
    BY <1>1, <1>2

\* The first k places, and the last of them.
LEMMA FirstPlaces ==
  ASSUME NEW k \in Nat \ {0}
  PROVE  1..k # {} /\ Max(1..k) = k /\ (1..k) \ {Max(1..k)} = 1..(k - 1)
  <1>1. 1..k \in SUBSET (1..k) /\ k \in 1..k
    OBVIOUS
  <1>2. Max(1..k) \in 1..k /\ \A y \in 1..k : Max(1..k) >= y
    BY <1>1, MaxOf
  <1>3. Max(1..k) = k
    BY <1>1, <1>2
  <1>4. QED
    BY <1>1, <1>3

\* What one look after the other leads to.
LEMMA LookFold ==
  ASSUME NEW rec, NEW literal, NEW start, NEW s, IsSeq(s)
  PROVE  \E f : /\ f[0] = start
                /\ \A k \in 1..Len(s) : f[k] = Look(rec, literal, f[k - 1], s[k])
                /\ LookAt(rec, literal, start, s) = f[Len(s)]
  <1> DEFINE One1(it, S) == IF S = {} THEN start ELSE Look(rec, literal, it[S \ {Max(S)}], s[Max(S)])
             Good(it, n) == it = [S \in SUBSET (1..n) |-> One1(it, S)]
             T == {n \in Nat : \E it : Good(it, n)}
  <1>1. Len(s) \in Nat /\ DOMAIN s = 1..Len(s)
    BY IsSeqMeans
  <1>2. 0 \in T
    <2> DEFINE g == [S \in SUBSET (1..0) |-> start]
    <2>1. Good(g, 0)
      OBVIOUS
    <2>2. QED
      BY <2>1
  <1>3. ASSUME NEW n \in 0..(Len(s) - 1), n \in T PROVE n + 1 \in T
    <2>1. PICK it : Good(it, n)
      BY <1>3
    <2> DEFINE g == [S \in SUBSET (1..(n + 1)) |->
                        IF S \in SUBSET (1..n) THEN it[S] ELSE Look(rec, literal, it[S \ {Max(S)}], s[Max(S)])]
    <2>2. n \in Nat
      BY <1>1
    <2>3. \A S \in SUBSET (1..n) : it[S] = One1(it, S)
      BY <2>1
    <2>4. /\ \A S \in SUBSET (1..n) : g[S] = it[S]
          /\ \A S \in SUBSET (1..(n + 1)) : S \notin SUBSET (1..n) => g[S] = Look(rec, literal, it[S \ {Max(S)}], s[Max(S)])
      <3>1. \A S \in SUBSET (1..n) : S \in SUBSET (1..(n + 1))
        BY <2>2
      <3>2. \A S \in SUBSET (1..(n + 1)) :
              g[S] = IF S \in SUBSET (1..n) THEN it[S] ELSE Look(rec, literal, it[S \ {Max(S)}], s[Max(S)])
        BY Zenon
      <3> HIDE DEF g
      <3>3. QED
        BY <3>1, <3>2, Zenon
    <2>5. ASSUME NEW S \in SUBSET (1..(n + 1)) PROVE g[S] = One1(g, S)
      <3> HIDE DEF g
      <3>1. CASE S \in SUBSET (1..n)
        <4>1. S # {} => S \ {Max(S)} \in SUBSET (1..n)
          BY <3>1
        <4>2. S # {} => g[S \ {Max(S)}] = it[S \ {Max(S)}]
          BY <2>4, <4>1, Zenon
        <4>3. QED
          BY <2>3, <2>4, <3>1, <4>2, Zenon
      <3>2. CASE S \notin SUBSET (1..n)
        <4>1. S # {} /\ S \ {Max(S)} \in SUBSET (1..n)
          BY <2>2, <3>2, PlacesSplit
        <4>2. g[S \ {Max(S)}] = it[S \ {Max(S)}]
          BY <2>4, <4>1
        <4>3. QED
          BY <2>4, <3>2, <4>1, <4>2, Zenon
      <3>3. QED
        BY <3>1, <3>2
    <2>6. g = [S \in SUBSET (1..(n + 1)) |-> g[S]]
      OBVIOUS
    <2> HIDE DEF g, One1
    <2>7. Good(g, n + 1)
      BY <2>5, <2>6
    <2>8. QED
      BY <2>2, <2>7
  <1> DEFINE all == CHOOSE it : Good(it, Len(s))
             f == [k \in 0..Len(s) |-> all[1..k]]
  <1>4. Good(all, Len(s))
    <2>1. \A n \in 0..Len(s) : n \in T
      <3> HIDE DEF T
      <3> QED BY <1>1, <1>2, <1>3, StepByStep
    <2>2. Len(s) \in T
      <3> HIDE DEF T
      <3> QED BY <1>1, <2>1
    <2> HIDE DEF Good
    <2>3. QED
      BY <2>2
  <1>5. LookAt(rec, literal, start, s) = all[1..Len(s)]
    BY <1>1 DEF LookAt, FoldLeft, MapThenFoldSet
  <1> HIDE DEF all
  <1>6. \A S \in SUBSET (1..Len(s)) : all[S] = One1(all, S)
    BY <1>4
  <1>7. f[0] = start
    <2>1. f[0] = all[1..0] /\ 1..0 = {} /\ 1..0 \in SUBSET (1..Len(s))
      BY <1>1
    <2>2. QED
      BY <1>6, <2>1
  <1>8. ASSUME NEW k \in 1..Len(s) PROVE f[k] = Look(rec, literal, f[k - 1], s[k])
    <2>1. k \in Nat \ {0} /\ k \in 0..Len(s) /\ k - 1 \in 0..Len(s) /\ 1..k \in SUBSET (1..Len(s))
      BY <1>1
    <2>2. 1..k # {} /\ Max(1..k) = k /\ (1..k) \ {Max(1..k)} = 1..(k - 1)
      BY <2>1, FirstPlaces
    <2>3. f[k] = all[1..k] /\ f[k - 1] = all[1..(k - 1)]
      BY <2>1
    <2> HIDE DEF f
    <2>4. all[1..k] = Look(rec, literal, all[(1..k) \ {Max(1..k)}], s[Max(1..k)])
      BY <1>6, <2>1, <2>2
    <2>5. QED
      BY <2>2, <2>3, <2>4
  <1>9. f[Len(s)] = all[1..Len(s)]
    BY <1>1
  <1> HIDE DEF f
  <1>10. QED
    BY <1>5, <1>7, <1>8, <1>9

\* What one line after the other leads to.
LEMMA LinesFold ==
  ASSUME NEW ctx, NEW start, NEW s, IsSeq(s)
  PROVE  \E f : /\ f[0] = start
                /\ \A k \in 1..Len(s) : f[k] = ReadLine(ctx, f[k - 1], s[k])
                /\ ReadLines(ctx, start, s) = f[Len(s)]
  <1> DEFINE One1(it, S) == IF S = {} THEN start ELSE ReadLine(ctx, it[S \ {Max(S)}], s[Max(S)])
             Good(it, n) == it = [S \in SUBSET (1..n) |-> One1(it, S)]
             T == {n \in Nat : \E it : Good(it, n)}
  <1>1. Len(s) \in Nat /\ DOMAIN s = 1..Len(s)
    BY IsSeqMeans
  <1>2. 0 \in T
    <2> DEFINE g == [S \in SUBSET (1..0) |-> start]
    <2>1. Good(g, 0)
      OBVIOUS
    <2>2. QED
      BY <2>1
  <1>3. ASSUME NEW n \in 0..(Len(s) - 1), n \in T PROVE n + 1 \in T
    <2>1. PICK it : Good(it, n)
      BY <1>3
    <2> DEFINE g == [S \in SUBSET (1..(n + 1)) |->
                        IF S \in SUBSET (1..n) THEN it[S] ELSE ReadLine(ctx, it[S \ {Max(S)}], s[Max(S)])]
    <2>2. n \in Nat
      BY <1>1
    <2>3. \A S \in SUBSET (1..n) : it[S] = One1(it, S)
      BY <2>1
    <2>4. /\ \A S \in SUBSET (1..n) : g[S] = it[S]
          /\ \A S \in SUBSET (1..(n + 1)) : S \notin SUBSET (1..n) => g[S] = ReadLine(ctx, it[S \ {Max(S)}], s[Max(S)])
      <3>1. \A S \in SUBSET (1..n) : S \in SUBSET (1..(n + 1))
        BY <2>2
      <3>2. \A S \in SUBSET (1..(n + 1)) :
              g[S] = IF S \in SUBSET (1..n) THEN it[S] ELSE ReadLine(ctx, it[S \ {Max(S)}], s[Max(S)])
        BY Zenon
      <3> HIDE DEF g
      <3>3. QED
        BY <3>1, <3>2, Zenon
    <2>5. ASSUME NEW S \in SUBSET (1..(n + 1)) PROVE g[S] = One1(g, S)
      <3> HIDE DEF g
      <3>1. CASE S \in SUBSET (1..n)
        <4>1. S # {} => S \ {Max(S)} \in SUBSET (1..n)
          BY <3>1
        <4>2. S # {} => g[S \ {Max(S)}] = it[S \ {Max(S)}]
          BY <2>4, <4>1, Zenon
        <4>3. QED
          BY <2>3, <2>4, <3>1, <4>2, Zenon
      <3>2. CASE S \notin SUBSET (1..n)
        <4>1. S # {} /\ S \ {Max(S)} \in SUBSET (1..n)
          BY <2>2, <3>2, PlacesSplit
        <4>2. g[S \ {Max(S)}] = it[S \ {Max(S)}]
          BY <2>4, <4>1
        <4>3. QED
          BY <2>4, <3>2, <4>1, <4>2, Zenon
      <3>3. QED
        BY <3>1, <3>2
    <2>6. g = [S \in SUBSET (1..(n + 1)) |-> g[S]]
      OBVIOUS
    <2> HIDE DEF g, One1
    <2>7. Good(g, n + 1)
      BY <2>5, <2>6
    <2>8. QED
      BY <2>2, <2>7
  <1> DEFINE all == CHOOSE it : Good(it, Len(s))
             f == [k \in 0..Len(s) |-> all[1..k]]
  <1>4. Good(all, Len(s))
    <2>1. \A n \in 0..Len(s) : n \in T
      <3> HIDE DEF T
      <3> QED BY <1>1, <1>2, <1>3, StepByStep
    <2>2. Len(s) \in T
      <3> HIDE DEF T
      <3> QED BY <1>1, <2>1
    <2> HIDE DEF Good
    <2>3. QED
      BY <2>2
  <1>5. ReadLines(ctx, start, s) = all[1..Len(s)]
    BY <1>1 DEF ReadLines, FoldLeft, MapThenFoldSet
  <1> HIDE DEF all
  <1>6. \A S \in SUBSET (1..Len(s)) : all[S] = One1(all, S)
    BY <1>4
  <1>7. f[0] = start
    <2>1. f[0] = all[1..0] /\ 1..0 = {} /\ 1..0 \in SUBSET (1..Len(s))
      BY <1>1
    <2>2. QED
      BY <1>6, <2>1
  <1>8. ASSUME NEW k \in 1..Len(s) PROVE f[k] = ReadLine(ctx, f[k - 1], s[k])
    <2>1. k \in Nat \ {0} /\ k \in 0..Len(s) /\ k - 1 \in 0..Len(s) /\ 1..k \in SUBSET (1..Len(s))
      BY <1>1
    <2>2. 1..k # {} /\ Max(1..k) = k /\ (1..k) \ {Max(1..k)} = 1..(k - 1)
      BY <2>1, FirstPlaces
    <2>3. f[k] = all[1..k] /\ f[k - 1] = all[1..(k - 1)]
      BY <2>1
    <2> HIDE DEF f
    <2>4. all[1..k] = ReadLine(ctx, all[(1..k) \ {Max(1..k)}], s[Max(1..k)])
      BY <1>6, <2>1, <2>2
    <2>5. QED
      BY <2>2, <2>3, <2>4
  <1>9. f[Len(s)] = all[1..Len(s)]
    BY <1>1
  <1> HIDE DEF f
  <1>10. QED
    BY <1>5, <1>7, <1>8, <1>9
\* What one match after the other leads to.
LEMMA MatchFold ==
  ASSUME NEW annotations, NEW start, NEW s, IsSeq(s)
  PROVE  \E f : /\ f[0] = start
                /\ \A k \in 1..Len(s) : f[k] = Match(annotations, f[k - 1], s[k])
                /\ MatchLines(annotations, start, s) = f[Len(s)]
  <1> DEFINE One1(it, S) == IF S = {} THEN start ELSE Match(annotations, it[S \ {Max(S)}], s[Max(S)])
             Good(it, n) == it = [S \in SUBSET (1..n) |-> One1(it, S)]
             T == {n \in Nat : \E it : Good(it, n)}
  <1>1. Len(s) \in Nat /\ DOMAIN s = 1..Len(s)
    BY IsSeqMeans
  <1>2. 0 \in T
    <2> DEFINE g == [S \in SUBSET (1..0) |-> start]
    <2>1. Good(g, 0)
      OBVIOUS
    <2>2. QED
      BY <2>1
  <1>3. ASSUME NEW n \in 0..(Len(s) - 1), n \in T PROVE n + 1 \in T
    <2>1. PICK it : Good(it, n)
      BY <1>3
    <2> DEFINE g == [S \in SUBSET (1..(n + 1)) |->
                        IF S \in SUBSET (1..n) THEN it[S] ELSE Match(annotations, it[S \ {Max(S)}], s[Max(S)])]
    <2>2. n \in Nat
      BY <1>1
    <2>3. \A S \in SUBSET (1..n) : it[S] = One1(it, S)
      BY <2>1
    <2>4. /\ \A S \in SUBSET (1..n) : g[S] = it[S]
          /\ \A S \in SUBSET (1..(n + 1)) : S \notin SUBSET (1..n) => g[S] = Match(annotations, it[S \ {Max(S)}], s[Max(S)])
      <3>1. \A S \in SUBSET (1..n) : S \in SUBSET (1..(n + 1))
        BY <2>2
      <3>2. \A S \in SUBSET (1..(n + 1)) :
              g[S] = IF S \in SUBSET (1..n) THEN it[S] ELSE Match(annotations, it[S \ {Max(S)}], s[Max(S)])
        BY Zenon
      <3> HIDE DEF g
      <3>3. QED
        BY <3>1, <3>2, Zenon
    <2>5. ASSUME NEW S \in SUBSET (1..(n + 1)) PROVE g[S] = One1(g, S)
      <3> HIDE DEF g
      <3>1. CASE S \in SUBSET (1..n)
        <4>1. S # {} => S \ {Max(S)} \in SUBSET (1..n)
          BY <3>1
        <4>2. S # {} => g[S \ {Max(S)}] = it[S \ {Max(S)}]
          BY <2>4, <4>1, Zenon
        <4>3. QED
          BY <2>3, <2>4, <3>1, <4>2, Zenon
      <3>2. CASE S \notin SUBSET (1..n)
        <4>1. S # {} /\ S \ {Max(S)} \in SUBSET (1..n)
          BY <2>2, <3>2, PlacesSplit
        <4>2. g[S \ {Max(S)}] = it[S \ {Max(S)}]
          BY <2>4, <4>1
        <4>3. QED
          BY <2>4, <3>2, <4>1, <4>2, Zenon
      <3>3. QED
        BY <3>1, <3>2
    <2>6. g = [S \in SUBSET (1..(n + 1)) |-> g[S]]
      OBVIOUS
    <2> HIDE DEF g, One1
    <2>7. Good(g, n + 1)
      BY <2>5, <2>6
    <2>8. QED
      BY <2>2, <2>7
  <1> DEFINE all == CHOOSE it : Good(it, Len(s))
             f == [k \in 0..Len(s) |-> all[1..k]]
  <1>4. Good(all, Len(s))
    <2>1. \A n \in 0..Len(s) : n \in T
      <3> HIDE DEF T
      <3> QED BY <1>1, <1>2, <1>3, StepByStep
    <2>2. Len(s) \in T
      <3> HIDE DEF T
      <3> QED BY <1>1, <2>1
    <2> HIDE DEF Good
    <2>3. QED
      BY <2>2
  <1>5. MatchLines(annotations, start, s) = all[1..Len(s)]
    BY <1>1 DEF MatchLines, FoldLeft, MapThenFoldSet
  <1> HIDE DEF all
  <1>6. \A S \in SUBSET (1..Len(s)) : all[S] = One1(all, S)
    BY <1>4
  <1>7. f[0] = start
    <2>1. f[0] = all[1..0] /\ 1..0 = {} /\ 1..0 \in SUBSET (1..Len(s))
      BY <1>1
    <2>2. QED
      BY <1>6, <2>1
  <1>8. ASSUME NEW k \in 1..Len(s) PROVE f[k] = Match(annotations, f[k - 1], s[k])
    <2>1. k \in Nat \ {0} /\ k \in 0..Len(s) /\ k - 1 \in 0..Len(s) /\ 1..k \in SUBSET (1..Len(s))
      BY <1>1
    <2>2. 1..k # {} /\ Max(1..k) = k /\ (1..k) \ {Max(1..k)} = 1..(k - 1)
      BY <2>1, FirstPlaces
    <2>3. f[k] = all[1..k] /\ f[k - 1] = all[1..(k - 1)]
      BY <2>1
    <2> HIDE DEF f
    <2>4. all[1..k] = Match(annotations, all[(1..k) \ {Max(1..k)}], s[Max(1..k)])
      BY <1>6, <2>1, <2>2
    <2>5. QED
      BY <2>2, <2>3, <2>4
  <1>9. f[Len(s)] = all[1..Len(s)]
    BY <1>1
  <1> HIDE DEF f
  <1>10. QED
    BY <1>5, <1>7, <1>8, <1>9
\* What one scenario after the other leads to.
LEMMA PickFold ==
  ASSUME NEW steps, NEW start, NEW s, IsSeq(s)
  PROVE  \E f : /\ f[0] = start
                /\ \A k \in 1..Len(s) : f[k] = Pick(steps, f[k - 1], s[k])
                /\ PickSteps(steps, start, s) = f[Len(s)]
  <1> DEFINE One1(it, S) == IF S = {} THEN start ELSE Pick(steps, it[S \ {Max(S)}], s[Max(S)])
             Good(it, n) == it = [S \in SUBSET (1..n) |-> One1(it, S)]
             T == {n \in Nat : \E it : Good(it, n)}
  <1>1. Len(s) \in Nat /\ DOMAIN s = 1..Len(s)
    BY IsSeqMeans
  <1>2. 0 \in T
    <2> DEFINE g == [S \in SUBSET (1..0) |-> start]
    <2>1. Good(g, 0)
      OBVIOUS
    <2>2. QED
      BY <2>1
  <1>3. ASSUME NEW n \in 0..(Len(s) - 1), n \in T PROVE n + 1 \in T
    <2>1. PICK it : Good(it, n)
      BY <1>3
    <2> DEFINE g == [S \in SUBSET (1..(n + 1)) |->
                        IF S \in SUBSET (1..n) THEN it[S] ELSE Pick(steps, it[S \ {Max(S)}], s[Max(S)])]
    <2>2. n \in Nat
      BY <1>1
    <2>3. \A S \in SUBSET (1..n) : it[S] = One1(it, S)
      BY <2>1
    <2>4. /\ \A S \in SUBSET (1..n) : g[S] = it[S]
          /\ \A S \in SUBSET (1..(n + 1)) : S \notin SUBSET (1..n) => g[S] = Pick(steps, it[S \ {Max(S)}], s[Max(S)])
      <3>1. \A S \in SUBSET (1..n) : S \in SUBSET (1..(n + 1))
        BY <2>2
      <3>2. \A S \in SUBSET (1..(n + 1)) :
              g[S] = IF S \in SUBSET (1..n) THEN it[S] ELSE Pick(steps, it[S \ {Max(S)}], s[Max(S)])
        BY Zenon
      <3> HIDE DEF g
      <3>3. QED
        BY <3>1, <3>2, Zenon
    <2>5. ASSUME NEW S \in SUBSET (1..(n + 1)) PROVE g[S] = One1(g, S)
      <3> HIDE DEF g
      <3>1. CASE S \in SUBSET (1..n)
        <4>1. S # {} => S \ {Max(S)} \in SUBSET (1..n)
          BY <3>1
        <4>2. S # {} => g[S \ {Max(S)}] = it[S \ {Max(S)}]
          BY <2>4, <4>1, Zenon
        <4>3. QED
          BY <2>3, <2>4, <3>1, <4>2, Zenon
      <3>2. CASE S \notin SUBSET (1..n)
        <4>1. S # {} /\ S \ {Max(S)} \in SUBSET (1..n)
          BY <2>2, <3>2, PlacesSplit
        <4>2. g[S \ {Max(S)}] = it[S \ {Max(S)}]
          BY <2>4, <4>1
        <4>3. QED
          BY <2>4, <3>2, <4>1, <4>2, Zenon
      <3>3. QED
        BY <3>1, <3>2
    <2>6. g = [S \in SUBSET (1..(n + 1)) |-> g[S]]
      OBVIOUS
    <2> HIDE DEF g, One1
    <2>7. Good(g, n + 1)
      BY <2>5, <2>6
    <2>8. QED
      BY <2>2, <2>7
  <1> DEFINE all == CHOOSE it : Good(it, Len(s))
             f == [k \in 0..Len(s) |-> all[1..k]]
  <1>4. Good(all, Len(s))
    <2>1. \A n \in 0..Len(s) : n \in T
      <3> HIDE DEF T
      <3> QED BY <1>1, <1>2, <1>3, StepByStep
    <2>2. Len(s) \in T
      <3> HIDE DEF T
      <3> QED BY <1>1, <2>1
    <2> HIDE DEF Good
    <2>3. QED
      BY <2>2
  <1>5. PickSteps(steps, start, s) = all[1..Len(s)]
    BY <1>1 DEF PickSteps, FoldLeft, MapThenFoldSet
  <1> HIDE DEF all
  <1>6. \A S \in SUBSET (1..Len(s)) : all[S] = One1(all, S)
    BY <1>4
  <1>7. f[0] = start
    <2>1. f[0] = all[1..0] /\ 1..0 = {} /\ 1..0 \in SUBSET (1..Len(s))
      BY <1>1
    <2>2. QED
      BY <1>6, <2>1
  <1>8. ASSUME NEW k \in 1..Len(s) PROVE f[k] = Pick(steps, f[k - 1], s[k])
    <2>1. k \in Nat \ {0} /\ k \in 0..Len(s) /\ k - 1 \in 0..Len(s) /\ 1..k \in SUBSET (1..Len(s))
      BY <1>1
    <2>2. 1..k # {} /\ Max(1..k) = k /\ (1..k) \ {Max(1..k)} = 1..(k - 1)
      BY <2>1, FirstPlaces
    <2>3. f[k] = all[1..k] /\ f[k - 1] = all[1..(k - 1)]
      BY <2>1
    <2> HIDE DEF f
    <2>4. all[1..k] = Pick(steps, all[(1..k) \ {Max(1..k)}], s[Max(1..k)])
      BY <1>6, <2>1, <2>2
    <2>5. QED
      BY <2>2, <2>3, <2>4
  <1>9. f[Len(s)] = all[1..Len(s)]
    BY <1>1
  <1> HIDE DEF f
  <1>10. QED
    BY <1>5, <1>7, <1>8, <1>9
\* What one raw step after the other leads to.
LEMMA RawsFold ==
  ASSUME NEW ctx, NEW raws, NEW start, NEW s, IsSeq(s)
  PROVE  \E f : /\ f[0] = start
                /\ \A k \in 1..Len(s) : f[k] = ReadStep(ctx, f[k - 1], raws[s[k]], s[k])
                /\ ReadRaws(ctx, raws, start, s) = f[Len(s)]
  <1> DEFINE One1(it, S) == IF S = {} THEN start ELSE ReadStep(ctx, it[S \ {Max(S)}], raws[s[Max(S)]], s[Max(S)])
             Good(it, n) == it = [S \in SUBSET (1..n) |-> One1(it, S)]
             T == {n \in Nat : \E it : Good(it, n)}
  <1>1. Len(s) \in Nat /\ DOMAIN s = 1..Len(s)
    BY IsSeqMeans
  <1>2. 0 \in T
    <2> DEFINE g == [S \in SUBSET (1..0) |-> start]
    <2>1. Good(g, 0)
      OBVIOUS
    <2>2. QED
      BY <2>1
  <1>3. ASSUME NEW n \in 0..(Len(s) - 1), n \in T PROVE n + 1 \in T
    <2>1. PICK it : Good(it, n)
      BY <1>3
    <2> DEFINE g == [S \in SUBSET (1..(n + 1)) |->
                        IF S \in SUBSET (1..n) THEN it[S] ELSE ReadStep(ctx, it[S \ {Max(S)}], raws[s[Max(S)]], s[Max(S)])]
    <2>2. n \in Nat
      BY <1>1
    <2>3. \A S \in SUBSET (1..n) : it[S] = One1(it, S)
      BY <2>1
    <2>4. /\ \A S \in SUBSET (1..n) : g[S] = it[S]
          /\ \A S \in SUBSET (1..(n + 1)) : S \notin SUBSET (1..n) => g[S] = ReadStep(ctx, it[S \ {Max(S)}], raws[s[Max(S)]], s[Max(S)])
      <3>1. \A S \in SUBSET (1..n) : S \in SUBSET (1..(n + 1))
        BY <2>2
      <3>2. \A S \in SUBSET (1..(n + 1)) :
              g[S] = IF S \in SUBSET (1..n) THEN it[S] ELSE ReadStep(ctx, it[S \ {Max(S)}], raws[s[Max(S)]], s[Max(S)])
        BY Zenon
      <3> HIDE DEF g
      <3>3. QED
        BY <3>1, <3>2, Zenon
    <2>5. ASSUME NEW S \in SUBSET (1..(n + 1)) PROVE g[S] = One1(g, S)
      <3> HIDE DEF g
      <3>1. CASE S \in SUBSET (1..n)
        <4>1. S # {} => S \ {Max(S)} \in SUBSET (1..n)
          BY <3>1
        <4>2. S # {} => g[S \ {Max(S)}] = it[S \ {Max(S)}]
          BY <2>4, <4>1, Zenon
        <4>3. QED
          BY <2>3, <2>4, <3>1, <4>2, Zenon
      <3>2. CASE S \notin SUBSET (1..n)
        <4>1. S # {} /\ S \ {Max(S)} \in SUBSET (1..n)
          BY <2>2, <3>2, PlacesSplit
        <4>2. g[S \ {Max(S)}] = it[S \ {Max(S)}]
          BY <2>4, <4>1
        <4>3. QED
          BY <2>4, <3>2, <4>1, <4>2, Zenon
      <3>3. QED
        BY <3>1, <3>2
    <2>6. g = [S \in SUBSET (1..(n + 1)) |-> g[S]]
      OBVIOUS
    <2> HIDE DEF g, One1
    <2>7. Good(g, n + 1)
      BY <2>5, <2>6
    <2>8. QED
      BY <2>2, <2>7
  <1> DEFINE all == CHOOSE it : Good(it, Len(s))
             f == [k \in 0..Len(s) |-> all[1..k]]
  <1>4. Good(all, Len(s))
    <2>1. \A n \in 0..Len(s) : n \in T
      <3> HIDE DEF T
      <3> QED BY <1>1, <1>2, <1>3, StepByStep
    <2>2. Len(s) \in T
      <3> HIDE DEF T
      <3> QED BY <1>1, <2>1
    <2> HIDE DEF Good
    <2>3. QED
      BY <2>2
  <1>5. ReadRaws(ctx, raws, start, s) = all[1..Len(s)]
    BY <1>1 DEF ReadRaws, FoldLeft, MapThenFoldSet
  <1> HIDE DEF all
  <1>6. \A S \in SUBSET (1..Len(s)) : all[S] = One1(all, S)
    BY <1>4
  <1>7. f[0] = start
    <2>1. f[0] = all[1..0] /\ 1..0 = {} /\ 1..0 \in SUBSET (1..Len(s))
      BY <1>1
    <2>2. QED
      BY <1>6, <2>1
  <1>8. ASSUME NEW k \in 1..Len(s) PROVE f[k] = ReadStep(ctx, f[k - 1], raws[s[k]], s[k])
    <2>1. k \in Nat \ {0} /\ k \in 0..Len(s) /\ k - 1 \in 0..Len(s) /\ 1..k \in SUBSET (1..Len(s))
      BY <1>1
    <2>2. 1..k # {} /\ Max(1..k) = k /\ (1..k) \ {Max(1..k)} = 1..(k - 1)
      BY <2>1, FirstPlaces
    <2>3. f[k] = all[1..k] /\ f[k - 1] = all[1..(k - 1)]
      BY <2>1
    <2> HIDE DEF f
    <2>4. all[1..k] = ReadStep(ctx, all[(1..k) \ {Max(1..k)}], raws[s[Max(1..k)]], s[Max(1..k)])
      BY <1>6, <2>1, <2>2
    <2>5. QED
      BY <2>2, <2>3, <2>4
  <1>9. f[Len(s)] = all[1..Len(s)]
    BY <1>1
  <1> HIDE DEF f
  <1>10. QED
    BY <1>5, <1>7, <1>8, <1>9

---------------------------------------------------------------------------
(* Replies and the log of them. *)
IsReply(reply) ==
    AreLists({reply.identity, reply.tree, reply.rows, reply.other, reply.query})

\* What a file of the log may say when it is no longer what came back.
Damaged == {NoFile, Reply("get_snapshot", "none")}

IsCall(call) ==
    /\ call = [got |-> call.got, stored |-> call.stored]
    /\ IsReply(call.got) /\ IsReply(call.stored) /\ call.got \notin Damaged

IsLog(calls, cited) ==
    /\ IsSeq(calls) /\ \A n \in 1..Len(calls) : IsCall(calls[n])
    /\ IsSeq(cited) /\ \A i \in 1..Len(cited) : cited[i] \in 1..Len(calls)

\* What has been logged stays in its place.
Further(c, b) ==
    /\ Len(b.calls) <= Len(c.calls) /\ \A n \in 1..Len(b.calls) : c.calls[n] = b.calls[n]
    /\ Len(b.cited) <= Len(c.cited) /\ \A i \in 1..Len(b.cited) : c.cited[i] = b.cited[i]

\* An element for each place of a sequence.
LEMMA Mapped ==
  ASSUME NEW s, Len(s) \in Nat, DOMAIN s = 1..Len(s), NEW t, t = [i \in DOMAIN s |-> t[i]]
  PROVE  IsSeq(t) /\ Len(t) = Len(s) /\ DOMAIN t = 1..Len(s)
  <1>1. DOMAIN t = 1..Len(s) /\ t = [i \in 1..Len(s) |-> t[i]]
    OBVIOUS
  <1>2. QED
    BY <1>1, Made

\* Those of a sequence: a sequence of elements of it.
LEMMA ThoseOf ==
  ASSUME NEW s, Len(s) \in Nat, DOMAIN s = 1..Len(s), NEW t, t = [i \in DOMAIN s |-> t[i]],
         \A i \in DOMAIN s : t[i] = <<s[i]>> \/ t[i] = <<>>
  PROVE  /\ SeqOfSeqs(t) /\ Len(t) = Len(s) /\ IsSeq(FlattenSeq(t))
         /\ \A x : x \in ToSet(FlattenSeq(t)) <=> \E i \in 1..Len(s) : x = s[i] /\ t[i] = <<s[i]>>
  <1>1. IsSeq(t) /\ Len(t) = Len(s) /\ DOMAIN s = 1..Len(s)
    BY Mapped
  <1>2. SeqOfSeqs(t)
    <2>1. \A e : IsSeq(<<e>>)
      BY One
    <2>2. \A k \in 1..Len(s) : t[k] = <<s[k]>> \/ t[k] = <<>>
      BY <1>1
    <2>3. \A k \in 1..Len(s) : IsSeq(t[k])
      BY <2>1, <2>2, None
    <2>4. QED
      BY <1>1, <2>3 DEF SeqOfSeqs
  <1>3. IsSeq(FlattenSeq(t))
    BY <1>2, StartsOf
  <1>4. ASSUME NEW x PROVE x \in ToSet(FlattenSeq(t)) <=> \E i \in 1..Len(s) : x = s[i] /\ t[i] = <<s[i]>>
    <2>1. x \in ToSet(FlattenSeq(t)) <=> \E i \in 1..Len(s) : x \in ToSet(t[i])
      BY <1>1, <1>2, FlatRange
    <2>2. \A e : ToSet(<<e>>) = {e}
      BY DEF ToSet
    <2>3. ToSet(<<>>) = {}
      BY DEF ToSet
    <2>4. ASSUME NEW i \in 1..Len(s) PROVE x \in ToSet(t[i]) <=> x = s[i] /\ t[i] = <<s[i]>>
      <3>1. CASE t[i] = <<s[i]>>
        BY <2>2, <3>1
      <3>2. CASE t[i] = <<>>
        <4>1. <<>> # <<s[i]>>
          BY One, None
        <4>2. QED
          BY <2>3, <3>2, <4>1
      <3>3. QED
        BY <1>1, <3>1, <3>2
    <2>5. QED
      BY <2>1, <2>4
  <1>5. QED
    BY <1>1, <1>2, <1>3, <1>4

\* A recording's events are what AuthorRunAssumption says.
LEMMA EventIs ==
  ASSUME NEW rec \in Recordings, NEW id \in Ids(rec)
  PROVE  /\ \E n \in 1..Len(rec.events) : Event(rec, id) = rec.events[n] /\ rec.events[n].id = id
         /\ Event(rec, id).id = id /\ IsEvent(Event(rec, id))
  <1> DEFINE n == CHOOSE i \in DOMAIN rec.events : rec.events[i].id = id
  <1>1. \E i \in DOMAIN rec.events : rec.events[i].id = id
    BY DEF Ids
  <1>2. n \in DOMAIN rec.events /\ rec.events[n].id = id
    BY <1>1
  <1>3. Event(rec, id) = rec.events[n]
    BY DEF Event
  <1> HIDE DEF n
  <1>4. IsEvent(rec.events[n])
    BY <1>2, AuthorRunAssumption
  <1>5. QED
    BY <1>2, <1>3, <1>4, ARecording

\* Parts of a page and of an event are sequences.
LEMMA PartsOf ==
  ASSUME NEW event, IsEvent(event)
  PROVE  /\ \A when : IsSeq(Flatten(PageAt(event, when)))
         /\ IsSeq(Nodes(event)) /\ IsSeq(Traffic(event)) /\ IsSeq(LooseTexts(event))
  <1>1. ASSUME NEW page \in {event.before, event.after, event.transient}
        PROVE  IsSeq(Flatten(page))
    <2>1. IsSeq(page.tree) /\ IsSeq(page.live)
      BY DEF IsEvent, AreLists
    <2>2. QED
      BY <2>1, CatOf DEF Flatten
  <1>2. \A when : PageAt(event, when) \in {event.before, event.after, event.transient}
    BY DEF PageAt
  <1>3. IsSeq(Nodes(event))
    <2>1. IsSeq(Flatten(event.before) \o Flatten(event.after))
      BY <1>1, CatOf
    <2>2. QED
      BY <1>1, <2>1, CatOf DEF Nodes
  <1>4. IsSeq(Traffic(event))
    <2>1. IsSeq(event.network)
      BY DEF IsEvent, AreLists
    <2>2. Traffic(event) = [k \in DOMAIN event.network |-> Traffic(event)[k]]
      BY DEF Traffic
    <2>3. Len(event.network) \in Nat /\ DOMAIN event.network = 1..Len(event.network)
      BY <2>1, IsSeqMeans
    <2>4. QED
      BY <2>2, <2>3, Mapped
  <1>5. IsSeq(LooseTexts(event))
    <2>1. IsSeq(<<event.url, event.before.url, event.after.url>>)
      <3> DEFINE S == {event.url, event.before.url, event.after.url}
      <3>1. <<event.url, event.before.url, event.after.url>> \in Seq(S)
        OBVIOUS
      <3> HIDE DEF S
      <3>2. QED
        BY <3>1, InSeq
    <2>2. IsSeq(Addresses(event))
      BY <2>1 DEF Addresses
    <2>3. IsSeq(Addresses(event) \o Traffic(event)) /\ IsSeq(event.console)
      BY <1>4, <2>2, CatOf DEF IsEvent, AreLists
    <2>4. QED
      BY <2>3, CatOf DEF LooseTexts
  <1>6. QED
    BY <1>1, <1>2, <1>3, <1>4, <1>5

\* The names of nodes are a sequence.
LEMMA NamesOf ==
  ASSUME NEW nodes, IsSeq(nodes)
  PROVE  IsSeq(Names(nodes))
  <1>1. Len(nodes) \in Nat /\ DOMAIN nodes = 1..Len(nodes)
    BY IsSeqMeans
  <1>2. Names(nodes) = [i \in DOMAIN nodes |-> Names(nodes)[i]]
    BY DEF Names
  <1>3. QED
    BY <1>1, <1>2, Mapped

\* A sequence cut to so many.
LEMMA CutShort ==
  ASSUME NEW s, IsSeq(s), NEW n \in Nat
  PROVE  IsSeq(SubSeq(s, 1, Min({Len(s), n})))
  <1>1. Len(s) \in Nat
    BY IsSeqMeans
  <1>2. Min({Len(s), n}) \in 0..Len(s)
    <2>1. {Len(s), n} \in SUBSET Nat /\ {Len(s), n} # {}
      BY <1>1
    <2>2. PICK m \in {Len(s), n} : \A y \in {Len(s), n} : m <= y
      <3> DEFINE S == {Len(s), n}
      <3> HIDE DEF S
      <3>1. S \in SUBSET Nat /\ S # {}
        BY <2>1 DEF S
      <3>2. \E m \in S : \A y \in S : m <= y
        BY <3>1, LeastOf
      <3>3. QED
        BY <3>2 DEF S
    <2>3. Min({Len(s), n}) \in {Len(s), n} /\ \A y \in {Len(s), n} : Min({Len(s), n}) <= y
      BY <2>2 DEF Min
    <2>4. QED
      BY <1>1, <2>3
  <1>3. 1 \in 1..(Len(s) + 1) /\ 1 <= Min({Len(s), n}) + 1
    BY <1>1, <1>2
  <1>4. QED
    BY <1>2, <1>3, PartOf

\* The ranked nodes are a sequence.
LEMMA RankOf ==
  ASSUME NEW nodes, IsSeq(nodes)
  PROVE  IsSeq(Rank(nodes))
  <1> DEFINE t == [i \in DOMAIN nodes |-> IF nodes[i].name # {} THEN <<nodes[i]>> ELSE <<>>]
             u == [i \in DOMAIN nodes |-> IF ~(nodes[i].name # {}) THEN <<nodes[i]>> ELSE <<>>]
             order == FlattenSeq(t) \o FlattenSeq(u)
  <1>1. Len(nodes) \in Nat /\ DOMAIN nodes = 1..Len(nodes)
    BY IsSeqMeans
  <1>2. /\ t = [i \in DOMAIN nodes |-> t[i]] /\ \A i \in DOMAIN nodes : t[i] = <<nodes[i]>> \/ t[i] = <<>>
        /\ u = [i \in DOMAIN nodes |-> u[i]] /\ \A i \in DOMAIN nodes : u[i] = <<nodes[i]>> \/ u[i] = <<>>
    OBVIOUS
  <1>3. Rank(nodes) = SubSeq(order, 1, Min({Len(order), MaxRows}))
    BY DEF Rank, Those
  <1> HIDE DEF t, u
  <1>4. IsSeq(FlattenSeq(t)) /\ IsSeq(FlattenSeq(u))
    BY <1>1, <1>2, ThoseOf
  <1>5. IsSeq(order)
    BY <1>4, CatOf
  <1>6. MaxRows \in Nat
    BY AuthorRunAssumption
  <1> HIDE DEF order
  <1>7. QED
    BY <1>3, <1>5, <1>6, CutShort

\* Pairs are sequences.
LEMMA Two ==
  ASSUME NEW d, NEW e
  PROVE  IsSeq(<<d, e>>) /\ <<d, e>> # <<>>
  <1>1. <<d, e>> \in Seq({d, e})
    OBVIOUS
  <1>2. QED
    BY <1>1, InSeq

\* A page that is asked for answers with lists, and says what page it is.
LEMMA SnapshotIs ==
  ASSUME NEW rec \in Recordings, NEW id \in Ids(rec), NEW when
  PROVE  /\ IsReply(GetSnapshot(rec, id, when)) /\ GetSnapshot(rec, id, when) \notin Damaged
         /\ GetSnapshot(rec, id, when).query = <<>>
         /\ GetSnapshot(rec, id, when).tool = "get_snapshot"
  <1> DEFINE page == PageAt(Event(rec, id), when)
             pair == <<page.url, page.title>>
             who == IF page.present THEN pair ELSE <<>>
             reply == GetSnapshot(rec, id, when)
  <1>1. IsSeq(Flatten(page))
    BY EventIs, PartsOf
  <1>2. IsSeq(pair) /\ pair # <<>>
    BY Two
  <1>3. /\ reply.identity = who /\ reply.tree = Flatten(page) /\ reply.rows = <<>>
        /\ reply.other = <<>> /\ reply.query = <<>> /\ reply.tool = "get_snapshot"
        /\ reply.present = page.present
    BY DEF GetSnapshot, Reply
  <1>4. /\ Reply("get_snapshot", "none").present /\ Reply("get_snapshot", "none").identity = <<>>
        /\ NoFile.tool = "lost"
    BY DEF Reply, NoFile
  <1> HIDE DEF reply, page, pair
  <1>5. IsSeq(who)
    BY <1>2, None
  <1>6. IsReply(reply)
    BY <1>1, <1>3, <1>5, None DEF IsReply, AreLists
  <1>7. reply \notin Damaged
    <2>1. reply # NoFile
      BY <1>3, <1>4
    <2>2. reply # Reply("get_snapshot", "none")
      <3>1. CASE page.present
        BY <1>2, <1>3, <1>4, <3>1
      <3>2. CASE ~page.present
        BY <1>3, <1>4, <3>2
      <3>3. QED
        BY <3>1, <3>2
    <2>3. QED
      BY <2>1, <2>2 DEF Damaged
  <1>8. QED
    BY <1>3, <1>6, <1>7 DEF reply

\* Whatever is asked, what comes back is lists and no damaged file.
LEMMA AnswerIs ==
  ASSUME NEW rec \in Recordings, NEW tool \in Tools, NEW arg
  PROVE  IsReply(Answer(rec, tool, arg)) /\ Answer(rec, tool, arg) \notin Damaged
  <1> DEFINE reply == Answer(rec, tool, arg)
  <1>1. /\ Reply("get_snapshot", "none").tool = "get_snapshot" /\ NoFile.tool = "lost"
        /\ ~Reply("get_snapshot", "none").error
    BY DEF Reply, NoFile
  <1>2. \A one : one.tool \notin {"get_snapshot", "lost"} => one \notin Damaged
    BY <1>1 DEF Damaged
  <1>3. MaxMatches \in Nat
    BY AuthorRunAssumption
  <1>4. Len(rec.events) \in Nat /\ DOMAIN rec.events = 1..Len(rec.events)
        /\ Len(rec.narration) \in Nat /\ DOMAIN rec.narration = 1..Len(rec.narration)
    BY ARecording
  <1> DEFINE said == [i \in DOMAIN rec.narration |-> rec.narration[i].text]
  <1>5. IsSeq(said) /\ Len(said) \in Nat /\ DOMAIN said = 1..Len(said)
    <2>1. said = [i \in DOMAIN rec.narration |-> said[i]]
      OBVIOUS
    <2> HIDE DEF said
    <2>2. QED
      BY <1>4, <2>1, Mapped
  <1>6. CASE tool = "find_text"
    <2> DEFINE heard == [i \in DOMAIN said |-> IF Within(arg, said[i]) THEN <<said[i]>> ELSE <<>>]
               Look2(i) == [k \in DOMAIN LooseTexts(rec.events[i]) |->
                              IF Within(arg, LooseTexts(rec.events[i])[k])
                              THEN <<LooseTexts(rec.events[i])[k]>> ELSE <<>>]
               Seen(i) == [k \in DOMAIN Nodes(rec.events[i]) |->
                              IF Within(arg, Nodes(rec.events[i])[k].name)
                              THEN <<Nodes(rec.events[i])[k]>> ELSE <<>>]
               texts == [i \in DOMAIN rec.events |-> FlattenSeq(Look2(i))]
               nodes == [i \in DOMAIN rec.events |-> FlattenSeq(Seen(i))]
               rows == FlattenSeq(nodes)
               other == FlattenSeq(heard) \o FlattenSeq(texts)
    <2>1. IsSeq(FlattenSeq(heard))
      <3>1. heard = [i \in DOMAIN said |-> heard[i]]
            /\ \A i \in DOMAIN said : heard[i] = <<said[i]>> \/ heard[i] = <<>>
        OBVIOUS
      <3> HIDE DEF heard, said
      <3>2. QED
        BY <1>5, <3>1, ThoseOf
    <2>2. ASSUME NEW i \in DOMAIN rec.events PROVE IsSeq(FlattenSeq(Look2(i))) /\ IsSeq(FlattenSeq(Seen(i)))
      <3> DEFINE s == LooseTexts(rec.events[i])
                 r == Nodes(rec.events[i])
      <3>1. IsEvent(rec.events[i])
        BY AuthorRunAssumption
      <3>2. IsSeq(s) /\ IsSeq(r)
        BY <3>1, PartsOf
      <3>3. Len(s) \in Nat /\ DOMAIN s = 1..Len(s) /\ Len(r) \in Nat /\ DOMAIN r = 1..Len(r)
        BY <3>2, IsSeqMeans
      <3>4. Look2(i) = [k \in DOMAIN s |-> Look2(i)[k]] /\ \A k \in DOMAIN s : Look2(i)[k] = <<s[k]>> \/ Look2(i)[k] = <<>>
        OBVIOUS
      <3>5. Seen(i) = [k \in DOMAIN r |-> Seen(i)[k]] /\ \A k \in DOMAIN r : Seen(i)[k] = <<r[k]>> \/ Seen(i)[k] = <<>>
        OBVIOUS
      <3> HIDE DEF Look2, Seen, s, r
      <3>6. IsSeq(FlattenSeq(Look2(i)))
        BY <3>3, <3>4, ThoseOf
      <3>7. IsSeq(FlattenSeq(Seen(i)))
        BY <3>3, <3>5, ThoseOf
      <3>8. QED
        BY <3>6, <3>7
    <2> HIDE DEF Look2, Seen
    <2>3. IsSeq(FlattenSeq(texts)) /\ IsSeq(rows)
      <3>1. texts = [i \in DOMAIN rec.events |-> texts[i]] /\ nodes = [i \in DOMAIN rec.events |-> nodes[i]]
            /\ \A i \in DOMAIN rec.events : texts[i] = FlattenSeq(Look2(i)) /\ nodes[i] = FlattenSeq(Seen(i))
        OBVIOUS
      <3> HIDE DEF texts, nodes
      <3>2. IsSeq(texts) /\ DOMAIN texts = DOMAIN rec.events /\ Len(texts) = Len(rec.events)
        BY <1>4, <3>1, Mapped
      <3>3. IsSeq(nodes) /\ DOMAIN nodes = DOMAIN rec.events /\ Len(nodes) = Len(rec.events)
        BY <1>4, <3>1, Mapped
      <3>4. SeqOfSeqs(texts)
        BY <1>4, <2>2, <3>1, <3>2 DEF SeqOfSeqs
      <3>5. SeqOfSeqs(nodes)
        BY <1>4, <2>2, <3>1, <3>3 DEF SeqOfSeqs
      <3>6. QED
        BY <3>4, <3>5, StartsOf
    <2>4. IsSeq(other)
      BY <2>1, <2>3, CatOf
    <2>5. reply = [Reply("find_text", "none") EXCEPT
             !.query = <<arg>>, !.other = SubSeq(other, 1, Min({Len(other), MaxMatches})),
             !.rows = SubSeq(rows, 1, Min({Len(rows), MaxMatches}))]
      BY <1>6 DEF Answer, FindText, Those, Look2, Seen
    <2> HIDE DEF other, rows
    <2>6. /\ reply.identity = <<>> /\ reply.tree = <<>> /\ reply.query = <<arg>> /\ reply.tool = "find_text"
          /\ reply.other = SubSeq(other, 1, Min({Len(other), MaxMatches}))
          /\ reply.rows = SubSeq(rows, 1, Min({Len(rows), MaxMatches}))
      BY <2>5 DEF Reply
    <2>7. IsSeq(SubSeq(other, 1, Min({Len(other), MaxMatches}))) /\ IsSeq(SubSeq(rows, 1, Min({Len(rows), MaxMatches})))
      BY <1>3, <2>3, <2>4, CutShort
    <2> HIDE DEF reply
    <2>8. IsReply(reply)
      BY <2>6, <2>7, One, None DEF IsReply, AreLists
    <2>9. QED
      BY <1>2, <2>6, <2>8 DEF reply
  <1>7. CASE tool = "get_narration"
    <2>1. reply = [Reply("get_narration", "none") EXCEPT !.other = said]
      BY <1>7 DEF Answer, GetNarration
    <2> HIDE DEF said
    <2>2. /\ reply.identity = <<>> /\ reply.tree = <<>> /\ reply.query = <<>> /\ reply.tool = "get_narration"
          /\ reply.other = said /\ reply.rows = <<>>
      BY <2>1 DEF Reply
    <2> HIDE DEF reply
    <2>3. IsReply(reply)
      BY <1>5, <2>2, None DEF IsReply, AreLists
    <2>4. QED
      BY <1>2, <2>2, <2>3 DEF reply
  <1>8. CASE tool \notin {"find_text", "get_narration"} /\ ~HasEvent(rec, arg)
    <2>1. reply = [Reply(tool, arg) EXCEPT !.error = TRUE, !.present = FALSE, !.other = <<{arg}>>]
      BY <1>8 DEF Answer, Failed
    <2>2. /\ reply.identity = <<>> /\ reply.tree = <<>> /\ reply.query = <<>> /\ reply.tool = tool
          /\ reply.other = <<{arg}>> /\ reply.rows = <<>>
      BY <2>1 DEF Reply
    <2> HIDE DEF reply
    <2>3. IsReply(reply)
      BY <2>2, One, None DEF IsReply, AreLists
    <2>4. tool \notin {"get_snapshot", "lost"}
      BY DEF Tools
    <2>5. QED
      BY <1>2, <2>2, <2>3, <2>4 DEF reply
  <1>9. CASE tool \notin {"find_text", "get_narration"} /\ HasEvent(rec, arg)
    <2> DEFINE event == Event(rec, arg)
    <2>1. arg \in Ids(rec) /\ IsEvent(event)
      BY <1>9, EventIs DEF HasEvent
    <2>2. CASE tool \in {"before", "after"}
      <3>1. reply = GetSnapshot(rec, arg, tool)
        BY <1>9, <2>2 DEF Answer
      <3>2. QED
        BY <2>1, <3>1, SnapshotIs
    <2>3. CASE tool = "get_diff"
      <3> DEFINE diff == event.diff
                 who == diff.urls \o diff.titles
                 what == diff.changed \o Rank(diff.added) \o Rank(diff.removed)
      <3>1. reply = [Reply("get_diff", arg) EXCEPT !.identity = who, !.rows = what]
        BY <1>9, <2>3 DEF Answer, GetDiff
      <3>2. IsSeq(diff.urls) /\ IsSeq(diff.titles) /\ IsSeq(diff.changed) /\ IsSeq(diff.added) /\ IsSeq(diff.removed)
        <4> HIDE DEF event
        <4> QED BY <2>1 DEF IsEvent, AreLists
      <3> HIDE DEF diff, event
      <3>3. IsSeq(who)
        BY <3>2, CatOf
      <3>4. IsSeq(what)
        <4>1. IsSeq(Rank(diff.added)) /\ IsSeq(Rank(diff.removed))
          BY <3>2, RankOf
        <4>2. IsSeq(diff.changed \o Rank(diff.added))
          BY <3>2, <4>1, CatOf
        <4>3. QED
          BY <4>1, <4>2, CatOf
      <3> HIDE DEF who, what
      <3>5. /\ reply.identity = who /\ reply.tree = <<>> /\ reply.query = <<>> /\ reply.tool = "get_diff"
            /\ reply.other = <<>> /\ reply.rows = what
        BY <3>1 DEF Reply
      <3> HIDE DEF reply
      <3>6. IsReply(reply)
        BY <3>3, <3>4, <3>5, None DEF IsReply, AreLists
      <3>7. QED
        BY <1>2, <3>5, <3>6 DEF reply
    <2>4. CASE tool = "see"
      <3> DEFINE pair == <<event.url, event.after.title>>
                 who == IF event.shot THEN pair ELSE <<>>
      <3>1. reply = [Reply("see", arg) EXCEPT !.present = event.shot, !.identity = who]
        BY <1>9, <2>4 DEF Answer, See
      <3>2. IsSeq(pair)
        BY Two
      <3> HIDE DEF pair, event
      <3>3. IsSeq(who)
        BY <3>2, None
      <3> HIDE DEF who
      <3>5. /\ reply.identity = who /\ reply.tree = <<>> /\ reply.query = <<>> /\ reply.tool = "see"
            /\ reply.other = <<>> /\ reply.rows = <<>>
        BY <3>1 DEF Reply
      <3> HIDE DEF reply
      <3>6. IsReply(reply)
        BY <3>3, <3>5, None DEF IsReply, AreLists
      <3>7. QED
        BY <1>2, <3>5, <3>6 DEF reply
    <2>5. CASE tool = "get_network"
      <3>1. reply = [Reply("get_network", arg) EXCEPT !.other = Traffic(event)]
        BY <1>9, <2>5 DEF Answer, GetNetwork
      <3>2. IsSeq(Traffic(event))
        BY <2>1, PartsOf
      <3> HIDE DEF event
      <3>5. /\ reply.identity = <<>> /\ reply.tree = <<>> /\ reply.query = <<>> /\ reply.tool = "get_network"
            /\ reply.other = Traffic(event) /\ reply.rows = <<>>
        BY <3>1 DEF Reply
      <3> HIDE DEF reply
      <3>6. IsReply(reply)
        BY <3>2, <3>5, None DEF IsReply, AreLists
      <3>7. QED
        BY <1>2, <3>5, <3>6 DEF reply
    <2>6. QED
      BY <1>9, <2>2, <2>3, <2>4, <2>5 DEF Tools
  <1>10. QED
    BY <1>6, <1>7, <1>8, <1>9

\* What the author may cite and what it cost, as the document is put together.
IsBinding(b) ==
    /\ b = [calls |-> b.calls, cited |-> b.cited, rescues |-> b.rescues, refused |-> b.refused]
    /\ IsLog(b.calls, b.cited) /\ b.rescues \in Nat /\ IsSeq(b.refused)

\* Every retrieval on top is one rescue, and there are no more of them than allowed.
Extends(ctx, c, b) ==
    /\ Further(c, b) /\ b.rescues <= c.rescues
    /\ Len(c.cited) + b.rescues = Len(b.cited) + c.rescues
    /\ b.rescues <= RescueBudget => c.rescues <= RescueBudget
    /\ ~ctx.tools => c.calls = b.calls

\* What is true of a log stays true of what is appended to it.
LEMMA LoggedOn ==
  ASSUME NEW b, NEW c, IsLog(b.calls, b.cited), NEW reply, IsReply(reply), reply \notin Damaged,
         c.calls = Logged(b.calls, reply), c.cited = Append(b.cited, Len(c.calls))
  PROVE  /\ IsLog(c.calls, c.cited) /\ Further(c, b) /\ Len(c.cited) = Len(b.cited) + 1
         /\ Len(c.calls) \in ToSet(c.cited)
         /\ c.calls[Len(c.calls)] = [got |-> reply, stored |-> reply]
  <1> DEFINE call == [got |-> reply, stored |-> reply]
  <1>1. IsSeq(b.calls) /\ IsSeq(b.cited) /\ Len(b.calls) \in Nat /\ Len(b.cited) \in Nat
    BY IsSeqMeans DEF IsLog
  <1>2. IsCall(call)
    BY DEF IsCall
  <1>3. c.calls = Append(b.calls, call)
    BY DEF Logged
  <1> HIDE DEF call
  <1>4. /\ IsSeq(c.calls) /\ Len(c.calls) = Len(b.calls) + 1
        /\ \A i \in 1..Len(b.calls) : c.calls[i] = b.calls[i]
        /\ c.calls[Len(b.calls) + 1] = call
    BY <1>1, <1>3, Appended
  <1>5. /\ IsSeq(c.cited) /\ Len(c.cited) = Len(b.cited) + 1
        /\ \A i \in 1..Len(b.cited) : c.cited[i] = b.cited[i]
        /\ c.cited[Len(b.cited) + 1] = Len(c.calls)
    BY <1>1, Appended
  <1>6. \A n \in 1..Len(c.calls) : IsCall(c.calls[n])
    <2>1. TAKE n \in 1..Len(c.calls)
    <2>2. n \in 1..Len(b.calls) \/ n = Len(b.calls) + 1
      BY <1>1, <1>4
    <2>3. QED
      BY <1>2, <1>4, <2>2 DEF IsLog
  <1>7. \A i \in 1..Len(c.cited) : c.cited[i] \in 1..Len(c.calls)
    <2>1. TAKE i \in 1..Len(c.cited)
    <2>2. i \in 1..Len(b.cited) \/ i = Len(b.cited) + 1
      BY <1>1, <1>5
    <2>3. \A k \in 1..Len(b.cited) : b.cited[k] \in 1..Len(b.calls)
      BY DEF IsLog
    <2>4. QED
      BY <1>1, <1>4, <1>5, <2>2, <2>3
  <1>8. Further(c, b)
    BY <1>1, <1>4, <1>5 DEF Further
  <1>9. Len(c.calls) \in ToSet(c.cited)
    <2>1. Len(b.cited) + 1 \in 1..Len(c.cited)
      BY <1>1, <1>5
    <2>2. IsSeq(c.cited) /\ c.cited[Len(b.cited) + 1] = Len(c.calls)
      BY <1>5
    <2> DEFINE s == c.cited
               i == Len(b.cited) + 1
    <2>3. IsSeq(s) /\ i \in 1..Len(s) /\ s[i] = Len(c.calls)
      BY <2>1, <2>2
    <2> HIDE DEF s, i
    <2>4. ToSet(s) = {s[k] : k \in 1..Len(s)}
      BY <2>3, IsSeqMeans
    <2>5. Len(c.calls) \in ToSet(s)
      BY <2>3, <2>4
    <2>6. QED
      BY <2>5 DEF s
  <1>10. QED
    BY <1>4, <1>5, <1>6, <1>7, <1>8, <1>9 DEF IsLog, call

\* The last of some calls that is cited, if any is.
LEMMA TheLast ==
  ASSUME NEW calls, NEW cited, IsLog(calls, cited), NEW S
  PROVE  /\ LastOf(cited, S) # 0 => LastOf(cited, S) \in ToSet(cited) \cap S
         /\ LastOf(cited, S) = 0 => \A n \in ToSet(cited) : n \notin S
         /\ ToSet(cited) \subseteq 1..Len(calls)
  <1> DEFINE hits == {i \in DOMAIN cited : cited[i] \in S}
  <1>1. /\ Len(cited) \in Nat /\ DOMAIN cited = 1..Len(cited)
        /\ ToSet(cited) = {cited[i] : i \in 1..Len(cited)}
        /\ Len(calls) \in Nat /\ \A i \in 1..Len(cited) : cited[i] \in 1..Len(calls)
    BY IsSeqMeans DEF IsLog
  <1>2. LastOf(cited, S) = IF hits = {} THEN 0 ELSE cited[Max(hits)]
    BY DEF LastOf
  <1>3. CASE hits = {}
    BY <1>1, <1>2, <1>3
  <1>4. CASE hits # {}
    <2>1. hits \in SUBSET (1..Len(cited))
      BY <1>1
    <2>2. Max(hits) \in hits
      <3> HIDE DEF hits
      <3> QED BY <1>1, <1>4, <2>1, MaxOf
    <2>3. Max(hits) \in 1..Len(cited) /\ cited[Max(hits)] \in S
      BY <1>1, <2>2
    <2> HIDE DEF hits
    <2>4. LastOf(cited, S) \in ToSet(cited) \cap S
      BY <1>1, <1>2, <1>4, <2>3
    <2>5. ToSet(cited) \subseteq 1..Len(calls) /\ 0 \notin 1..Len(calls)
      BY <1>1
    <2>6. QED
      BY <2>4, <2>5
  <1>5. QED
    BY <1>3, <1>4

\* What a response supports it contains; a page contains no more than it supports.
LEMMA SupportsSays ==
  ASSUME NEW reply, IsReply(reply), NEW literal
  PROVE  /\ ResponseSupports(reply, literal) => ContainsLiteral(reply, literal)
         /\ reply.query = <<>> /\ reply.tool # "see" /\ ContainsLiteral(reply, literal)
              => ResponseSupports(reply, literal)
  <1> DEFINE r == Recorded(reply)
  <1>1. IsSeq(reply.identity) /\ IsSeq(reply.tree) /\ IsSeq(reply.rows) /\ IsSeq(reply.other) /\ IsSeq(reply.query)
    BY DEF IsReply, AreLists
  <1>2. IsSeq(Names(reply.tree)) /\ IsSeq(Names(reply.rows))
    BY <1>1, NamesOf
  <1>3. IsSeq(reply.identity \o Names(reply.tree))
    BY <1>1, <1>2, CatOf
  <1>4. IsSeq(Elements(reply))
    BY <1>2, <1>3, CatOf DEF Elements
  <1>5. IsSeq(r)
    BY <1>1, <1>4, CatOf DEF Recorded
  <1>6. StringsIn(reply) = r \o reply.query
    BY DEF StringsIn
  <1>7. /\ Len(r) \in Nat /\ DOMAIN r = 1..Len(r) /\ Len(reply.query) \in Nat
    BY <1>1, <1>5, IsSeqMeans
  <1> HIDE DEF r
  <1>8. /\ IsSeq(r \o reply.query) /\ Len(r \o reply.query) = Len(r) + Len(reply.query)
        /\ \A i \in 1..Len(r) : (r \o reply.query)[i] = r[i]
    BY <1>1, <1>5, CatOf
  <1>9. DOMAIN (r \o reply.query) = 1..(Len(r) + Len(reply.query))
    BY <1>8, IsSeqMeans
  <1>10. ResponseSupports(reply, literal) <=> reply.tool # "see" /\ \E i \in 1..Len(r) : Within(literal, r[i])
    BY <1>7 DEF ResponseSupports, Found, r
  <1>11. ContainsLiteral(reply, literal)
           <=> \E i \in 1..(Len(r) + Len(reply.query)) : Within(literal, (r \o reply.query)[i])
    BY <1>6, <1>9 DEF ContainsLiteral, Found
  <1>12. ResponseSupports(reply, literal) => ContainsLiteral(reply, literal)
    <2>1. \A i \in 1..Len(r) : i \in 1..(Len(r) + Len(reply.query))
      BY <1>7
    <2>2. QED
      BY <1>8, <1>10, <1>11, <2>1
  <1>13. ASSUME reply.query = <<>>, reply.tool # "see", ContainsLiteral(reply, literal)
         PROVE  ResponseSupports(reply, literal)
    <2>1. Len(reply.query) = 0
      BY <1>13, None
    <2>2. 1..(Len(r) + Len(reply.query)) = 1..Len(r)
      BY <1>7, <2>1
    <2>3. QED
      BY <1>8, <1>10, <1>11, <1>13, <2>2
  <1>14. QED
    BY <1>12, <1>13

\* The retrieval that is found has the string, or is about the event.
LEMMA ResolvedIs ==
  ASSUME NEW calls, NEW cited, IsLog(calls, cited), NEW literal, NEW id
  PROVE  /\ ResolveCall(calls, cited, literal) # 0 =>
              /\ ResolveCall(calls, cited, literal) \in ToSet(cited)
              /\ ResponseSupports(calls[ResolveCall(calls, cited, literal)].stored, literal)
         /\ ResolveCall(calls, cited, literal) = 0 =>
              \A n \in ToSet(cited) : ~ResponseSupports(calls[n].stored, literal)
         /\ ResolveEventCall(calls, cited, id) # 0 =>
              /\ ResolveEventCall(calls, cited, id) \in ToSet(cited)
              /\ calls[ResolveEventCall(calls, cited, id)].got.event = id
  <1> DEFINE S == {n \in DOMAIN calls : ResponseSupports(calls[n].stored, literal)}
             E == {n \in DOMAIN calls : /\ calls[n].got.tool \notin {"see", "find_text", "get_narration"}
                                        /\ ~calls[n].got.error /\ calls[n].got.event = id}
  <1>1. DOMAIN calls = 1..Len(calls)
    BY IsSeqMeans DEF IsLog
  <1>2. ResolveCall(calls, cited, literal) = LastOf(cited, S)
    BY DEF ResolveCall
  <1>3. ResolveEventCall(calls, cited, id) = LastOf(cited, E)
    BY DEF ResolveEventCall
  <1>4. /\ LastOf(cited, S) # 0 => LastOf(cited, S) \in ToSet(cited) \cap S
        /\ LastOf(cited, S) = 0 => \A n \in ToSet(cited) : n \notin S
        /\ LastOf(cited, E) # 0 => LastOf(cited, E) \in ToSet(cited) \cap E
        /\ ToSet(cited) \subseteq 1..Len(calls)
    <2> HIDE DEF S, E
    <2> QED BY TheLast
  <1>5. QED
    BY <1>1, <1>2, <1>3, <1>4

\* Nothing done is an extension, and so are two.
LEMMA ExtendsSelf ==
  ASSUME NEW ctx, NEW b, IsBinding(b)
  PROVE  Extends(ctx, b, b)
  <1>1. Len(b.calls) \in Nat /\ Len(b.cited) \in Nat /\ b.rescues \in Nat
    BY IsSeqMeans DEF IsBinding, IsLog
  <1>2. QED
    BY <1>1 DEF Extends, Further

\* A log that goes on from one that goes on from a third goes on from the third.
LEMMA FurtherTwice ==
  ASSUME NEW b, NEW c, NEW d, IsLog(b.calls, b.cited), IsLog(c.calls, c.cited),
         IsLog(d.calls, d.cited), Further(c, b), Further(d, c)
  PROVE  Further(d, b)
  <1>1. /\ Len(b.calls) \in Nat /\ Len(b.cited) \in Nat
        /\ Len(c.calls) \in Nat /\ Len(c.cited) \in Nat
        /\ Len(d.calls) \in Nat /\ Len(d.cited) \in Nat
    BY IsSeqMeans DEF IsLog
  <1>2. \A n \in 1..Len(b.calls) : n \in 1..Len(c.calls)
    BY <1>1 DEF Further
  <1>3. \A n \in 1..Len(b.cited) : n \in 1..Len(c.cited)
    BY <1>1 DEF Further
  <1>4. Len(b.calls) <= Len(d.calls) /\ Len(b.cited) <= Len(d.cited)
    BY <1>1 DEF Further
  <1>5. QED
    BY <1>2, <1>3, <1>4 DEF Further

\* Two stretches of binding are one.
LEMMA ExtendsTwice ==
  ASSUME NEW ctx, NEW b, NEW c, NEW d, IsBinding(b), IsBinding(c), IsBinding(d),
         Extends(ctx, c, b), Extends(ctx, d, c)
  PROVE  Extends(ctx, d, b)
  <1>1. Further(d, b)
    BY FurtherTwice DEF IsBinding, Extends
  <1>2. /\ Len(b.cited) \in Nat /\ Len(c.cited) \in Nat /\ Len(d.cited) \in Nat
        /\ b.rescues \in Nat /\ c.rescues \in Nat /\ d.rescues \in Nat
    BY IsSeqMeans DEF IsBinding, IsLog
  <1>3. RescueBudget \in Nat
    BY AuthorRunAssumption
  <1>4. /\ b.rescues <= c.rescues /\ c.rescues <= d.rescues
        /\ Len(c.cited) + b.rescues = Len(b.cited) + c.rescues
        /\ Len(d.cited) + c.rescues = Len(c.cited) + d.rescues
    BY DEF Extends
  <1>5. b.rescues <= d.rescues /\ Len(d.cited) + b.rescues = Len(b.cited) + d.rescues
    <2> DEFINE x == Len(b.cited)
               y == Len(c.cited)
               z == Len(d.cited)
               p == b.rescues
               q == c.rescues
               r == d.rescues
    <2>1. /\ x \in Nat /\ y \in Nat /\ z \in Nat /\ p \in Nat /\ q \in Nat /\ r \in Nat
          /\ p <= q /\ q <= r /\ y + p = x + q /\ z + q = y + r
      BY <1>2, <1>4
    <2> HIDE DEF x, y, z, p, q, r
    <2>2. p <= r /\ z + p = x + r
      BY <2>1
    <2>3. QED
      BY <2>2 DEF x, z, p, r
  <1>6. b.rescues <= RescueBudget => d.rescues <= RescueBudget
    BY DEF Extends
  <1>7. ~ctx.tools => d.calls = b.calls
    BY DEF Extends
  <1>8. QED
    BY <1>1, <1>5, <1>6, <1>7 DEF Extends

\* What is cited stays cited, and the calls stay what they were.
LEMMA CitedStays ==
  ASSUME NEW b, NEW c, IsLog(b.calls, b.cited), IsLog(c.calls, c.cited), Further(c, b)
  PROVE  \A n \in ToSet(b.cited) : n \in ToSet(c.cited) /\ n \in 1..Len(b.calls) /\ c.calls[n] = b.calls[n]
  <1>1. /\ Len(b.cited) \in Nat /\ Len(c.cited) \in Nat
        /\ ToSet(b.cited) = {b.cited[i] : i \in 1..Len(b.cited)}
        /\ ToSet(c.cited) = {c.cited[i] : i \in 1..Len(c.cited)}
    BY IsSeqMeans DEF IsLog
  <1>2. \A i \in 1..Len(b.cited) : i \in 1..Len(c.cited) /\ c.cited[i] = b.cited[i]
    BY <1>1 DEF Further
  <1>3. \A i \in 1..Len(b.cited) : b.cited[i] \in 1..Len(b.calls)
    BY DEF IsLog
  <1>4. QED
    BY <1>1, <1>2, <1>3 DEF Further

\* A claim is about an event of the recording, or about none.
LEMMA ClaimedIs ==
  ASSUME NEW rec, NEW step, IsSeq(step.events), ToSet(step.events) \subseteq Ids(rec), NEW raw
  PROVE  ClaimedEvent(rec, step, raw) \in Ids(rec) \cup {"none"}
  <1>1. CASE HasEvent(rec, raw.event)
    BY <1>1 DEF ClaimedEvent, HasEvent
  <1>2. CASE ~HasEvent(rec, raw.event) /\ step.events = <<>>
    BY <1>2 DEF ClaimedEvent
  <1>3. CASE ~HasEvent(rec, raw.event) /\ step.events # <<>>
    <2>1. /\ Len(step.events) \in Nat /\ Len(step.events) # 0
          /\ ToSet(step.events) = {step.events[i] : i \in 1..Len(step.events)}
      BY <1>3, IsSeqMeans
    <2>2. Len(step.events) \in 1..Len(step.events)
      BY <2>1
    <2>3. step.events[Len(step.events)] \in Ids(rec)
      BY <2>1, <2>2
    <2>4. QED
      BY <1>3, <2>3 DEF ClaimedEvent, Last
  <1>4. QED
    BY <1>1, <1>2, <1>3

---------------------------------------------------------------------------
(* The rescue. *)
\* A call that has been found is cited and has the string.
Has(so, literal) ==
    so.call # 0 =>
        /\ so.call \in ToSet(so.b.cited)
        /\ ResponseSupports(so.b.calls[so.call].stored, literal)

\* One retrieval more.
LEMMA BindingGrown ==
  ASSUME NEW b, b = [calls |-> b.calls, cited |-> b.cited, rescues |-> b.rescues, refused |-> b.refused],
         NEW calls, NEW cited, NEW c, c = [b EXCEPT !.calls = calls, !.cited = cited, !.rescues = @ + 1]
  PROVE  /\ c.calls = calls /\ c.cited = cited /\ c.rescues = b.rescues + 1 /\ c.refused = b.refused
         /\ c = [calls |-> calls, cited |-> cited, rescues |-> b.rescues + 1, refused |-> b.refused]
  OBVIOUS

\* One look of a rescue: what it cites holds the literal, and the budget pays for it.
LEMMA LookedIs ==
  ASSUME NEW ctx, ctx.rec \in Recordings, ctx.tools, NEW literal,
         NEW so, so = [b |-> so.b, call |-> so.call], IsBinding(so.b), Has(so, literal),
         NEW target, target.id \in Ids(ctx.rec),
         NEW r, r = Look(ctx.rec, literal, so, target)
  PROVE  /\ r = [b |-> r.b, call |-> r.call] /\ IsBinding(r.b) /\ Has(r, literal)
         /\ Extends(ctx, r.b, so.b) /\ r.b.refused = so.b.refused
         /\ so.call # 0 => r = so
         /\ so.call = 0 /\ r.call = 0 /\ r.b.rescues < RescueBudget =>
              ~ContainsLiteral(GetSnapshot(ctx.rec, target.id, target.when), literal)
  <1> DEFINE reply == GetSnapshot(ctx.rec, target.id, target.when)
             calls == Logged(so.b.calls, reply)
             cited == Append(so.b.cited, Len(calls))
             c == [so.b EXCEPT !.calls = calls, !.cited = cited, !.rescues = @ + 1]
             b == so.b
  <1>1. r = IF so.call # 0 \/ Spent(so.b) THEN so
            ELSE [b |-> c, call |-> ResolveCall(calls, cited, literal)]
    BY DEF Look
  <1>2. RescueBudget \in Nat /\ b.rescues \in Nat
    BY AuthorRunAssumption DEF IsBinding
  <1>3. CASE so.call # 0 \/ Spent(so.b)
    <2>1. r = so
      BY <1>1, <1>3
    <2>2. Extends(ctx, so.b, so.b)
      BY ExtendsSelf
    <2>3. so.call = 0 => ~(so.b.rescues < RescueBudget)
      BY <1>2, <1>3 DEF Spent
    <2>4. QED
      BY <2>1, <2>2, <2>3
  <1>4. CASE ~(so.call # 0 \/ Spent(so.b))
    <2>1. IsReply(reply) /\ reply \notin Damaged /\ reply.query = <<>> /\ reply.tool = "get_snapshot"
      BY SnapshotIs
    <2>2. /\ c.calls = calls /\ c.cited = cited /\ c.rescues = b.rescues + 1 /\ c.refused = b.refused
          /\ c = [calls |-> calls, cited |-> cited, rescues |-> b.rescues + 1, refused |-> b.refused]
      <3>1. b = [calls |-> b.calls, cited |-> b.cited, rescues |-> b.rescues, refused |-> b.refused]
        BY DEF IsBinding
      <3> HIDE DEF calls, cited
      <3>2. c = [b EXCEPT !.calls = calls, !.cited = cited, !.rescues = @ + 1]
        OBVIOUS
      <3> HIDE DEF c, b
      <3>3. QED
        BY <3>1, <3>2, BindingGrown
    <2>3. IsLog(b.calls, b.cited) /\ IsSeq(b.refused)
      BY DEF IsBinding
    <2> HIDE DEF reply, b
    <2>4. c.calls = Logged(b.calls, reply) /\ c.cited = Append(b.cited, Len(c.calls))
      BY <2>2 DEF b
    <2> HIDE DEF c, calls, cited
    <2>5. /\ IsLog(c.calls, c.cited) /\ Further(c, b) /\ Len(c.cited) = Len(b.cited) + 1
          /\ Len(c.calls) \in ToSet(c.cited)
          /\ c.calls[Len(c.calls)] = [got |-> reply, stored |-> reply]
      <3>1. IsReply(reply) /\ reply \notin Damaged /\ IsLog(b.calls, b.cited)
        BY <2>1, <2>3
      <3>2. QED
        BY <2>4, <3>1, LoggedOn
    <2>6. r.b = c /\ r.call = ResolveCall(c.calls, c.cited, literal) /\ r = [b |-> r.b, call |-> r.call]
      BY <1>1, <1>4, <2>2
    <2>7. IsBinding(c)
      BY <1>2, <2>2, <2>3, <2>5 DEF IsBinding
    <2>8. Len(b.cited) \in Nat
      BY <2>3, IsSeqMeans DEF IsLog
    <2>9. Extends(ctx, c, b)
      <3>1. b.rescues + 1 <= RescueBudget
        BY <1>2, <1>4 DEF Spent, b
      <3>2. b.rescues <= c.rescues /\ Len(c.cited) + b.rescues = Len(b.cited) + c.rescues
        <4>1. Len(c.cited) = Len(b.cited) + 1 /\ c.rescues = b.rescues + 1
          BY <2>2, <2>5
        <4> DEFINE x == Len(b.cited)
                   p == b.rescues
        <4>2. x \in Nat /\ p \in Nat /\ Len(c.cited) = x + 1 /\ c.rescues = p + 1
          BY <1>2, <2>8, <4>1 DEF b
        <4> HIDE DEF x, p
        <4>3. p <= p + 1 /\ (x + 1) + p = x + (p + 1)
          BY <4>2
        <4>4. QED
          BY <4>2, <4>3, Zenon DEF x, p
      <3>3. c.rescues <= RescueBudget
        BY <2>2, <3>1
      <3>4. QED
        BY <2>5, <3>2, <3>3 DEF Extends
    <2>10. Has(r, literal) /\ (r.call = 0 => \A n \in ToSet(c.cited) : ~ResponseSupports(c.calls[n].stored, literal))
      BY <2>5, <2>6, ResolvedIs DEF Has
    <2>11. r.call = 0 => ~ContainsLiteral(reply, literal)
      <3>1. c.calls[Len(c.calls)].stored = reply
        BY <2>5
      <3>2. reply.tool # "see"
        BY <2>1
      <3>3. r.call = 0 => ~ResponseSupports(reply, literal)
        BY <2>5, <2>10, <3>1
      <3>4. QED
        BY <2>1, <3>2, <3>3, SupportsSays
    <2>12. QED
      BY <1>4, <2>2, <2>6, <2>7, <2>9, <2>10, <2>11 DEF b, reply
  <1>5. QED
    BY <1>3, <1>4

\* The pages that are looked at.
LEMMA TargetsOf ==
  ASSUME NEW rec \in Recordings, NEW event \in Ids(rec)
  PROVE  /\ IsSeq(RescueTargets(rec, event)) /\ Len(RescueTargets(rec, event)) \in {1, 2}
         /\ RescueTargets(rec, event)[1] = [id |-> event, when |-> "after"]
         /\ Len(RescueTargets(rec, event)) = 2 => RescueTargets(rec, event)[2].id \in Ids(rec)
  <1> DEFINE at == CHOOSE i \in DOMAIN rec.events : rec.events[i].id = event
             own == [id |-> event, when |-> "after"]
             next == [id |-> rec.events[at + 1].id, when |-> "before"]
             rest == IF at < Len(rec.events) THEN <<next>> ELSE <<>>
  <1>1. Len(rec.events) \in Nat /\ DOMAIN rec.events = 1..Len(rec.events)
    BY ARecording
  <1>2. at \in 1..Len(rec.events)
    <2>1. \E i \in DOMAIN rec.events : rec.events[i].id = event
      BY DEF Ids
    <2>2. QED
      BY <1>1, <2>1
  <1>3. at < Len(rec.events) => next.id \in Ids(rec)
    <2>1. at < Len(rec.events) => at + 1 \in DOMAIN rec.events
      BY <1>1, <1>2
    <2>2. QED
      BY <2>1 DEF Ids
  <1>4. RescueTargets(rec, event) = <<own>> \o rest
    BY DEF RescueTargets
  <1> HIDE DEF at, own, next
  <1>5. IsSeq(<<own>>) /\ Len(<<own>>) = 1 /\ <<own>>[1] = own
    BY One
  <1>6. IsSeq(rest) /\ (IF at < Len(rec.events) THEN Len(rest) = 1 /\ rest[1] = next ELSE Len(rest) = 0)
    BY One, None
  <1> HIDE DEF rest
  <1>7. /\ IsSeq(<<own>> \o rest) /\ Len(<<own>> \o rest) = 1 + Len(rest)
        /\ \A i \in 1..1 : (<<own>> \o rest)[i] = <<own>>[i]
        /\ \A i \in 1..Len(rest) : (<<own>> \o rest)[1 + i] = rest[i]
    BY <1>5, <1>6, CatOf
  <1>8. (<<own>> \o rest)[1] = own
    BY <1>5, <1>7
  <1>9. Len(<<own>> \o rest) \in {1, 2} /\ (Len(<<own>> \o rest) = 2 => (<<own>> \o rest)[2].id \in Ids(rec))
    <2>1. CASE at < Len(rec.events)
      <3>0. Len(rest) = 1 /\ rest[1] = next
        BY <1>6, <2>1
      <3>1. Len(rest) = 1 /\ rest[1] = next /\ 1 \in 1..Len(rest)
        BY <3>0
      <3>2. (<<own>> \o rest)[1 + 1] = next
        BY <1>7, <3>1
      <3>3. QED
        BY <1>3, <1>7, <2>1, <3>1, <3>2
    <2>2. CASE ~(at < Len(rec.events))
      BY <1>6, <1>7, <2>2
    <2>3. QED
      BY <2>1, <2>2
  <1>10. QED
    BY <1>4, <1>7, <1>8, <1>9 DEF own

\* What a rescue finds has the string, and what it does not find was not on the page.
LEMMA RescueIs ==
  ASSUME NEW ctx, ctx.rec \in Recordings, NEW b, IsBinding(b), NEW literal, NEW predicate,
         NEW event \in Ids(ctx.rec) \cup {"none"},
         NEW r, r = Rescue(ctx, b, literal, predicate, event)
  PROVE  /\ r = [b |-> r.b, call |-> r.call] /\ IsBinding(r.b) /\ Has(r, literal)
         /\ Extends(ctx, r.b, b) /\ r.b.refused = b.refused
         /\ r.call # 0 => ~Negative(predicate)
         /\ /\ r.call = 0 /\ ctx.tools /\ ~Negative(predicate) /\ event # "none"
            /\ r.b.rescues < RescueBudget
            => ~ContainsLiteral(GetSnapshot(ctx.rec, event, "after"), literal)
  <1> DEFINE start == [b |-> b, call |-> 0]
             s == RescueTargets(ctx.rec, event)
  <1>1. start = [b |-> start.b, call |-> start.call] /\ start.b = b /\ start.call = 0 /\ Has(start, literal)
    BY DEF Has
  <1>2. Extends(ctx, b, b)
    BY ExtendsSelf
  <1>3. CASE ~ctx.tools \/ Negative(predicate) \/ event = "none"
    <2>1. r = start
      BY <1>3 DEF Rescue
    <2> HIDE DEF start
    <2>2. QED
      BY <1>1, <1>2, <1>3, <2>1
  <1>4. CASE ~(~ctx.tools \/ Negative(predicate) \/ event = "none")
    <2>1. event \in Ids(ctx.rec)
      BY <1>4
    <2>2. r = LookAt(ctx.rec, literal, start, s)
      BY <1>4 DEF Rescue
    <2>3. /\ IsSeq(s) /\ Len(s) \in {1, 2} /\ s[1] = [id |-> event, when |-> "after"]
          /\ Len(s) = 2 => s[2].id \in Ids(ctx.rec)
      BY <2>1, TargetsOf
    <2> HIDE DEF s, start
    <2>4. PICK f : /\ f[0] = start
                   /\ \A k \in 1..Len(s) : f[k] = Look(ctx.rec, literal, f[k - 1], s[k])
                   /\ LookAt(ctx.rec, literal, start, s) = f[Len(s)]
      BY <2>3, LookFold
    <2> DEFINE one == f[1]
    <2>5. one = Look(ctx.rec, literal, start, s[1])
      <3>1. 1 \in 1..Len(s) /\ 1 - 1 = 0
        BY <2>3
      <3>2. QED
        BY <2>4, <3>1
    <2>6. s[1].id \in Ids(ctx.rec) /\ s[1].id = event /\ s[1].when = "after" /\ ctx.tools
      BY <1>4, <2>1, <2>3
    <2> HIDE DEF one
    <2>7. /\ one = [b |-> one.b, call |-> one.call] /\ IsBinding(one.b) /\ Has(one, literal)
          /\ Extends(ctx, one.b, b) /\ one.b.refused = b.refused
          /\ one.call = 0 /\ one.b.rescues < RescueBudget =>
               ~ContainsLiteral(GetSnapshot(ctx.rec, event, "after"), literal)
      <3>1. IsBinding(start.b)
        BY <1>1
      <3>2. /\ one = [b |-> one.b, call |-> one.call] /\ IsBinding(one.b) /\ Has(one, literal)
            /\ Extends(ctx, one.b, start.b) /\ one.b.refused = start.b.refused
            /\ start.call = 0 /\ one.call = 0 /\ one.b.rescues < RescueBudget =>
                 ~ContainsLiteral(GetSnapshot(ctx.rec, s[1].id, s[1].when), literal)
        BY <1>1, <2>5, <2>6, <3>1, LookedIs
      <3>3. QED
        BY <1>1, <2>6, <3>2
    <2>8. CASE Len(s) = 1
      <3>1. r = one
        BY <2>2, <2>4, <2>8 DEF one
      <3>2. QED
        BY <1>4, <2>7, <3>1
    <2>9. CASE Len(s) = 2
      <3>1. r = Look(ctx.rec, literal, one, s[2])
        <4>1. 2 \in 1..Len(s) /\ 2 - 1 = 1
          BY <2>9
        <4>2. f[2] = Look(ctx.rec, literal, f[1], s[2])
          BY <2>4, <4>1
        <4>3. QED
          BY <2>2, <2>4, <2>9, <4>2 DEF one
      <3>2. s[2].id \in Ids(ctx.rec)
        BY <2>3, <2>9
      <3>3. /\ r = [b |-> r.b, call |-> r.call] /\ IsBinding(r.b) /\ Has(r, literal)
            /\ Extends(ctx, r.b, one.b) /\ r.b.refused = one.b.refused
            /\ one.call # 0 => r = one
        BY <2>6, <2>7, <3>1, <3>2, LookedIs
      <3>4. Extends(ctx, r.b, b)
        BY <2>7, <3>3, ExtendsTwice
      <3>5. r.b.rescues < RescueBudget => one.b.rescues < RescueBudget
        <4>1. RescueBudget \in Nat /\ one.b.rescues \in Nat /\ r.b.rescues \in Nat
          BY <2>7, <3>3, AuthorRunAssumption DEF IsBinding
        <4>2. one.b.rescues <= r.b.rescues
          BY <3>3 DEF Extends
        <4>3. QED
          BY <4>1, <4>2
      <3>6. r.call = 0 => one.call = 0
        BY <3>3
      <3>7. QED
        BY <1>4, <2>7, <3>3, <3>4, <3>5, <3>6
    <2>10. QED
      BY <2>3, <2>8, <2>9
  <1>5. QED
    BY <1>3, <1>4

---------------------------------------------------------------------------
(* One expected result. *)
ClaimHolds(rec, b, claim) ==
    Bound(claim) /\ ~claim.unresolved =>
        /\ claim.call \in ToSet(b.cited)
        /\ Evaluate(b.calls[claim.call].stored, claim.literal, claim.predicate) = "true"
        /\ IF Negative(claim.predicate) THEN b.calls[claim.call].got.event = claim.event
           ELSE ContainsAt(rec, claim.literal, claim.event)

IsDraft(rec, step) ==
    /\ step = [id |-> step.id, keyword |-> step.keyword, role |-> step.role, text |-> step.text,
               events |-> step.events, claims |-> step.claims, whyNot |-> step.whyNot,
               bug |-> step.bug, low |-> step.low]
    /\ IsSeq(step.events) /\ ToSet(step.events) \subseteq Ids(rec) /\ IsSeq(step.claims)

StepHolds(rec, b, step) ==
    IsDraft(rec, step) /\ \A i \in 1..Len(step.claims) : ClaimHolds(rec, b, step.claims[i])

\* A refusal that blames the run is true of what was there before, unless too many
\* rescues have been needed by now.
TrueRefusal(ctx, was, b, r) ==
    r.why = "never retrieved" =>
        /\ Corrupted(was.calls, was.cited) = {}
        /\ ~r.negative =>
             /\ \A n \in ToSet(was.cited) : ~ResponseSupports(was.calls[n].got, r.literal)
             /\ ctx.tools /\ r.event # "none" /\ b.rescues < RescueBudget =>
                  ~ContainsLiteral(GetSnapshot(ctx.rec, r.event, "after"), r.literal)

\* One claim more, bound or refused.
Attached(ctx, b, step, claim, r) ==
    /\ r = [b |-> r.b, step |-> r.step] /\ IsBinding(r.b) /\ Extends(ctx, r.b, b)
    /\ IsDraft(ctx.rec, r.step) /\ r.step.id = step.id /\ r.step.text = step.text
    /\ IF claim = {} THEN r.step.claims = step.claims /\ r.b.refused = b.refused
       ELSE \E x : /\ r.step.claims = Append(step.claims, x) /\ x.text = claim
                   /\ ClaimHolds(ctx.rec, r.b, x)
                   /\ IF Bound(x) THEN r.b.refused = b.refused
                      ELSE \E y : r.b.refused = Append(b.refused, y) /\ TrueRefusal(ctx, b, r.b, y)

\* A binding with other refusals, a step with other claims.
LEMMA BindingWith ==
  ASSUME NEW b, b = [calls |-> b.calls, cited |-> b.cited, rescues |-> b.rescues, refused |-> b.refused],
         NEW refused, NEW c, c = [b EXCEPT !.refused = refused]
  PROVE  /\ c = [calls |-> b.calls, cited |-> b.cited, rescues |-> b.rescues, refused |-> refused]
         /\ c.calls = b.calls /\ c.cited = b.cited /\ c.rescues = b.rescues /\ c.refused = refused
  OBVIOUS

\* A step with another list of claims, and with the reason why it has none.
LEMMA StepWith ==
  ASSUME NEW step,
         step = [id |-> step.id, keyword |-> step.keyword, role |-> step.role, text |-> step.text,
                 events |-> step.events, claims |-> step.claims, whyNot |-> step.whyNot,
                 bug |-> step.bug, low |-> step.low],
         NEW claims, NEW whyNot, NEW s,
         \/ s = [step EXCEPT !.claims = claims, !.whyNot = whyNot]
         \/ s = [step EXCEPT !.whyNot = whyNot, !.claims = claims]
  PROVE  /\ s = [id |-> step.id, keyword |-> step.keyword, role |-> step.role, text |-> step.text,
                 events |-> step.events, claims |-> claims, whyNot |-> whyNot,
                 bug |-> step.bug, low |-> step.low]
         /\ s.id = step.id /\ s.text = step.text /\ s.events = step.events /\ s.claims = claims
  OBVIOUS

\* A claim refused with a true reason is attached to its step without a citation.
LEMMA RefusedIs ==
  ASSUME NEW ctx, NEW b, NEW c, IsBinding(c), Extends(ctx, c, b), c.refused = b.refused,
         NEW step, IsDraft(ctx.rec, step), NEW claim, claim # {}, NEW raw, NEW why,
         why = "never retrieved" =>
             /\ Corrupted(b.calls, b.cited) = {}
             /\ ~Negative(raw.predicate) =>
                  /\ \A n \in ToSet(b.cited) : ~ResponseSupports(b.calls[n].got, raw.literal)
                  /\ /\ ctx.tools /\ ClaimedEvent(ctx.rec, step, raw) # "none"
                     /\ c.rescues < RescueBudget
                     => ~ContainsLiteral(GetSnapshot(ctx.rec, ClaimedEvent(ctx.rec, step, raw), "after"),
                                         raw.literal)
  PROVE  Attached(ctx, b, step, claim, Refuse(ctx, c, step, claim, raw, why))
  <1> DEFINE r == Refuse(ctx, c, step, claim, raw, why)
             event == ClaimedEvent(ctx.rec, step, raw)
             y == [step |-> step.id, claim |-> claim, why |-> why, literal |-> raw.literal,
                   event |-> event, negative |-> raw.predicate.form = "absent"]
             new == NewClaim(ctx, step, claim)
             x == [new EXCEPT !.why = why]
             claims == Append(step.claims, x)
             said == IF step.whyNot = "" THEN why ELSE step.whyNot
             d == [c EXCEPT !.refused = Append(@, y)]
             s == [step EXCEPT !.claims = claims, !.whyNot = said]
  <1>1. r = [b |-> d, step |-> s]
    BY DEF Refuse
  <1>2. x.text = claim /\ x.status = "unproved"
    BY DEF NewClaim
  <1>3. y.why = why /\ y.literal = raw.literal /\ y.event = event
        /\ (y.negative <=> Negative(raw.predicate))
    BY DEF Negative
  <1> HIDE DEF x, y, event, said
  <1>4. IsSeq(step.claims) /\ IsSeq(c.refused)
    BY DEF IsDraft, IsBinding
  <1>5. IsSeq(claims) /\ IsSeq(Append(c.refused, y))
    BY <1>4, Appended
  <1>6. /\ d = [calls |-> c.calls, cited |-> c.cited, rescues |-> c.rescues, refused |-> Append(c.refused, y)]
        /\ d.calls = c.calls /\ d.cited = c.cited /\ d.rescues = c.rescues
        /\ d.refused = Append(c.refused, y)
    <2>1. c = [calls |-> c.calls, cited |-> c.cited, rescues |-> c.rescues, refused |-> c.refused]
      BY DEF IsBinding
    <2> DEFINE more == Append(c.refused, y)
    <2>2. d = [c EXCEPT !.refused = more]
      OBVIOUS
    <2> HIDE DEF d, more
    <2>3. /\ d = [calls |-> c.calls, cited |-> c.cited, rescues |-> c.rescues, refused |-> more]
          /\ d.calls = c.calls /\ d.cited = c.cited /\ d.rescues = c.rescues /\ d.refused = more
      BY <2>1, <2>2, BindingWith
    <2>4. QED
      BY <2>3 DEF more
  <1> HIDE DEF claims
  <1>7. /\ s = [id |-> step.id, keyword |-> step.keyword, role |-> step.role, text |-> step.text,
                events |-> step.events, claims |-> claims, whyNot |-> said, bug |-> step.bug, low |-> step.low]
        /\ s.id = step.id /\ s.text = step.text /\ s.events = step.events /\ s.claims = claims
    <2>1. s = [step EXCEPT !.claims = claims, !.whyNot = said]
      OBVIOUS
    <2> HIDE DEF s
    <2>2. QED
      BY <2>1, StepWith DEF IsDraft
  <1> HIDE DEF d, s, r
  <1>8. IsBinding(d)
    BY <1>5, <1>6 DEF IsBinding
  <1>9. Extends(ctx, d, b)
    BY <1>6 DEF Extends, Further
  <1>10. IsDraft(ctx.rec, s)
    BY <1>5, <1>7 DEF IsDraft
  <1>11. ClaimHolds(ctx.rec, d, x) /\ ~Bound(x)
    BY <1>2 DEF ClaimHolds, Bound
  <1>12. TrueRefusal(ctx, b, d, y)
    BY <1>3, <1>6 DEF TrueRefusal, event
  <1>13. r.b = d /\ r.step = s /\ r = [b |-> r.b, step |-> r.step]
    BY <1>1
  <1>14. r.step.claims = Append(step.claims, x) /\ r.b.refused = Append(b.refused, y)
    BY <1>6, <1>7, <1>13 DEF claims
  <1>15. Attached(ctx, b, step, claim, r)
    BY <1>2, <1>7, <1>8, <1>9, <1>10, <1>11, <1>12, <1>13, <1>14 DEF Attached
  <1>16. QED
    BY <1>15 DEF r

\* A claim bound to a call that supports it is attached to its step with that citation.
LEMMA BoundIs ==
  ASSUME NEW ctx, NEW b, NEW c, IsBinding(c), Extends(ctx, c, b), c.refused = b.refused,
         NEW step, IsDraft(ctx.rec, step), NEW claim, claim # {}, NEW raw,
         NEW call \in ToSet(c.cited), NEW event, NEW unresolved \in BOOLEAN,
         ~unresolved =>
             /\ Evaluate(c.calls[call].stored, raw.literal, raw.predicate) = "true"
             /\ IF Negative(raw.predicate) THEN c.calls[call].got.event = event
                ELSE ContainsAt(ctx.rec, raw.literal, event)
  PROVE  Attached(ctx, b, step, claim,
             Bind(ctx, c, step, claim, raw, [call |-> call, event |-> event, unresolved |-> unresolved]))
  <1> DEFINE found == [call |-> call, event |-> event, unresolved |-> unresolved]
             r == Bind(ctx, c, step, claim, raw, found)
             new == NewClaim(ctx, step, claim)
             kept == IF unresolved THEN NoPredicate ELSE raw.predicate
             grade == Grade(c.calls[call].stored, raw.literal)
             x == [new EXCEPT !.status = "proved", !.literal = raw.literal, !.call = call,
                              !.event = event, !.unresolved = unresolved, !.predicate = kept,
                              !.strength = grade]
             claims == Append(step.claims, x)
             s == [step EXCEPT !.whyNot = "", !.claims = claims]
  <1>1. r = [b |-> c, step |-> s]
    BY DEF Bind
  <1>2. /\ x.text = claim /\ x.status = "proved" /\ x.literal = raw.literal /\ x.call = call
        /\ x.event = event /\ x.unresolved = unresolved /\ x.predicate = kept
    <2> HIDE DEF kept, grade
    <2> QED BY DEF NewClaim
  <1>3. ~unresolved => kept = raw.predicate
    OBVIOUS
  <1> HIDE DEF x, kept
  <1>4. IsSeq(step.claims)
    BY DEF IsDraft
  <1>5. IsSeq(claims)
    BY <1>4, Appended
  <1> HIDE DEF claims
  <1>7. /\ s = [id |-> step.id, keyword |-> step.keyword, role |-> step.role, text |-> step.text,
                events |-> step.events, claims |-> claims, whyNot |-> "", bug |-> step.bug, low |-> step.low]
        /\ s.id = step.id /\ s.text = step.text /\ s.events = step.events /\ s.claims = claims
    <2>1. s = [step EXCEPT !.whyNot = "", !.claims = claims]
      OBVIOUS
    <2> HIDE DEF s
    <2>2. QED
      BY <2>1, StepWith DEF IsDraft
  <1> HIDE DEF s, r
  <1>10. IsDraft(ctx.rec, s)
    BY <1>5, <1>7 DEF IsDraft
  <1>11. ClaimHolds(ctx.rec, c, x) /\ Bound(x)
    BY <1>2, <1>3 DEF ClaimHolds, Bound
  <1>13. r.b = c /\ r.step = s /\ r = [b |-> r.b, step |-> r.step]
    BY <1>1
  <1>14. r.step.claims = Append(step.claims, x) /\ r.b.refused = b.refused
    BY <1>7, <1>13 DEF claims
  <1>15. Attached(ctx, b, step, claim, r)
    BY <1>2, <1>7, <1>10, <1>11, <1>13, <1>14 DEF Attached
  <1>16. QED
    BY <1>15 DEF r

\* The three answers to a claim, and what the plain one is about.
LEMMA EvaluatedIs ==
  ASSUME NEW reply, NEW literal, NEW predicate
  PROVE  /\ Evaluate(reply, literal, predicate) \in {"true", "false", "cannot"}
         /\ ContainsLiteral(reply, literal) => Evaluate(reply, literal, NoPredicate) = "true"
  <1>1. FirstOf(reply, literal, predicate.container) \in {"true", "false", "cannot"}
    BY DEF FirstOf
  <1>2. Count(reply, predicate) \in {"true", "false", "cannot"}
    BY DEF Count
  <1>3. Evaluate(reply, literal, predicate) \in {"true", "false", "cannot"}
    BY <1>1, <1>2 DEF Evaluate
  <1>4. NoPredicate.form = "none"
    BY DEF NoPredicate
  <1>5. QED
    BY <1>3, <1>4 DEF Evaluate

\* A moment at which the string is there, or the event of an absence.
LEMMA MomentIs ==
  ASSUME NEW rec, NEW literal, NEW predicate, NEW event,
         Moment(rec, literal, predicate, event) # "none"
  PROVE  IF Negative(predicate) THEN Moment(rec, literal, predicate, event) = event
         ELSE ContainsAt(rec, literal, Moment(rec, literal, predicate, event))
  <1> DEFINE S == EventsContaining(rec, literal)
  <1>1. CASE Negative(predicate) \/ (event # "none" /\ ContainsAt(rec, literal, event))
    BY <1>1 DEF Moment
  <1>2. CASE ~(Negative(predicate) \/ (event # "none" /\ ContainsAt(rec, literal, event)))
    <2>1. Cardinality(S) = 1 /\ Moment(rec, literal, predicate, event) = CHOOSE id \in S : TRUE
      BY <1>2 DEF Moment
    <2>2. S # {}
      BY <2>1, FS_EmptySet
    <2>3. Moment(rec, literal, predicate, event) \in S
      BY <2>1, <2>2
    <2>4. QED
      BY <1>2, <2>3 DEF EventsContaining
  <1>3. QED
    BY <1>1, <1>2

\* The verdict of a look (_bind_claim): bound, unresolved, or refused, and true each time.
LEMMA JudgedIs ==
  ASSUME NEW ctx, NEW b, NEW c, IsBinding(c), Extends(ctx, c, b), c.refused = b.refused,
         NEW step, IsDraft(ctx.rec, step), NEW claim, claim # {}, NEW raw,
         NEW call \in ToSet(c.cited), NEW event,
         Negative(raw.predicate) => c.calls[call].got.event = event,
         raw.predicate = NoPredicate => ContainsLiteral(c.calls[call].stored, raw.literal)
  PROVE  Attached(ctx, b, step, claim, Judged(ctx, c, step, claim, raw, call, event))
  <1> DEFINE moment == Moment(ctx.rec, raw.literal, raw.predicate, event)
             outcome == IF raw.predicate = NoPredicate THEN "true"
                        ELSE Evaluate(c.calls[call].stored, raw.literal, raw.predicate)
             r == Judged(ctx, c, step, claim, raw, call, event)
  <1>1. r = IF moment = "none" THEN Refuse(ctx, c, step, claim, raw, "not at the event")
            ELSE IF outcome = "false" THEN Refuse(ctx, c, step, claim, raw, "the answer was no")
            ELSE Bind(ctx, c, step, claim, raw,
                      [call |-> call, event |-> moment, unresolved |-> outcome = "cannot"])
    BY DEF Judged
  <1>2. outcome \in {"true", "false", "cannot"}
    BY EvaluatedIs
  <1>3. outcome = "true" => Evaluate(c.calls[call].stored, raw.literal, raw.predicate) = "true"
    BY EvaluatedIs
  <1>4. moment # "none" => IF Negative(raw.predicate) THEN moment = event
                           ELSE ContainsAt(ctx.rec, raw.literal, moment)
    BY MomentIs
  <1> HIDE DEF moment, outcome, r
  <1>5. CASE moment = "none"
    <2>1. r = Refuse(ctx, c, step, claim, raw, "not at the event")
      BY <1>1, <1>5
    <2>2. "not at the event" # "never retrieved"
      OBVIOUS
    <2>3. Attached(ctx, b, step, claim, r)
      BY <2>1, <2>2, RefusedIs
    <2>4. QED
      BY <2>3 DEF r
  <1>6. CASE moment # "none" /\ outcome = "false"
    <2>1. r = Refuse(ctx, c, step, claim, raw, "the answer was no")
      BY <1>1, <1>6
    <2>2. "the answer was no" # "never retrieved"
      OBVIOUS
    <2>3. Attached(ctx, b, step, claim, r)
      BY <2>1, <2>2, RefusedIs
    <2>4. QED
      BY <2>3 DEF r
  <1>7. CASE moment # "none" /\ outcome # "false"
    <2> DEFINE open == outcome = "cannot"
    <2>1. r = Bind(ctx, c, step, claim, raw, [call |-> call, event |-> moment, unresolved |-> open])
      BY <1>1, <1>7
    <2>2. open \in BOOLEAN /\ (~open => outcome = "true")
      BY <1>2, <1>7
    <2> HIDE DEF open
    <2>3. ~open =>
             /\ Evaluate(c.calls[call].stored, raw.literal, raw.predicate) = "true"
             /\ IF Negative(raw.predicate) THEN c.calls[call].got.event = moment
                ELSE ContainsAt(ctx.rec, raw.literal, moment)
      BY <1>3, <1>4, <1>7, <2>2
    <2>4. Attached(ctx, b, step, claim, r)
      BY <2>1, <2>2, <2>3, BoundIs
    <2>5. QED
      BY <2>4 DEF r
  <1>8. QED
    BY <1>5, <1>6, <1>7

\* The retrieval that licenses a claim: cited, about the event when something is to
\* be absent, and with the string when nothing more is said.
LEMMA LicensedIs ==
  ASSUME NEW b, IsBinding(b), NEW literal, NEW predicate, NEW event,
         NEW call, call = License(b, literal, predicate, event)
  PROVE  /\ call # 0 =>
              /\ call \in ToSet(b.cited)
              /\ Negative(predicate) => b.calls[call].got.event = event
              /\ predicate = NoPredicate => ResponseSupports(b.calls[call].stored, literal)
         /\ call = 0 /\ ~Negative(predicate) =>
              \A n \in ToSet(b.cited) : ~ResponseSupports(b.calls[n].stored, literal)
  <1> DEFINE here == IF Negative(predicate) \/ predicate.container # NoRef
                     THEN ResolveEventCall(b.calls, b.cited, event) ELSE 0
             there == ResolveCall(b.calls, b.cited, literal)
             that == ResolveEventCall(b.calls, b.cited, event)
  <1>1. IsLog(b.calls, b.cited)
    BY DEF IsBinding
  <1>2. /\ there # 0 => there \in ToSet(b.cited) /\ ResponseSupports(b.calls[there].stored, literal)
        /\ there = 0 => \A n \in ToSet(b.cited) : ~ResponseSupports(b.calls[n].stored, literal)
        /\ that # 0 => that \in ToSet(b.cited) /\ b.calls[that].got.event = event
    BY <1>1, ResolvedIs
  <1>3. call = IF here # 0 \/ Negative(predicate) THEN here ELSE there
    BY DEF License
  <1>4. here = IF Negative(predicate) \/ predicate.container # NoRef THEN that ELSE 0
    OBVIOUS
  <1>5. predicate = NoPredicate => ~Negative(predicate) /\ predicate.container = NoRef
    BY DEF NoPredicate, Negative
  <1> HIDE DEF here, there, that
  <1>6. QED
    BY <1>2, <1>3, <1>4, <1>5

\* A response that supports a string contains it, in every cited call of the log.
LEMMA CitedSays ==
  ASSUME NEW b, IsBinding(b), NEW call \in ToSet(b.cited), NEW literal
  PROVE  /\ ResponseSupports(b.calls[call].stored, literal)
              => ContainsLiteral(b.calls[call].stored, literal)
         /\ Corrupted(b.calls, b.cited) = {} => b.calls[call].stored = b.calls[call].got
  <1>1. IsLog(b.calls, b.cited)
    BY DEF IsBinding
  <1>2. ToSet(b.cited) \subseteq 1..Len(b.calls)
    BY <1>1, TheLast
  <1>3. IsReply(b.calls[call].stored)
    BY <1>1, <1>2 DEF IsLog, IsCall
  <1>4. ToSet(b.cited) = Range(b.cited)
    BY DEF ToSet, Range
  <1>5. Corrupted(b.calls, b.cited) = {} => b.calls[call].stored = b.calls[call].got
    BY <1>4 DEF Corrupted
  <1>6. QED
    BY <1>3, <1>5, SupportsSays

\* An expected result is bound to what holds, or refused for what is true.
LEMMA AttachedIs ==
  ASSUME NEW ctx, ctx.rec \in Recordings, NEW b, IsBinding(b), NEW step, IsDraft(ctx.rec, step),
         NEW claim, NEW raw
  PROVE  Attached(ctx, b, step, claim, AttachClaim(ctx, b, step, claim, raw))
  <1> DEFINE event == ClaimedEvent(ctx.rec, step, raw)
             call == License(b, raw.literal, raw.predicate, event)
             rescued == Rescue(ctx, b, raw.literal, raw.predicate, event)
             r == AttachClaim(ctx, b, step, claim, raw)
  <1>1. r = IF claim = {} THEN [b |-> b, step |-> step]
            ELSE IF raw.literal = {} THEN Refuse(ctx, b, step, claim, raw, "nothing quoted")
            ELSE IF call # 0 THEN Judged(ctx, b, step, claim, raw, call, event)
            ELSE IF Corrupted(b.calls, b.cited) # {}
            THEN Refuse(ctx, b, step, claim, raw, "the evidence is broken")
            ELSE Rescued(ctx, rescued, step, claim, raw, event)
    BY DEF AttachClaim
  <1>2. event \in Ids(ctx.rec) \cup {"none"}
    BY ClaimedIs DEF IsDraft
  <1>3. Extends(ctx, b, b)
    BY ExtendsSelf
  <1>4. event = ClaimedEvent(ctx.rec, step, raw)
    OBVIOUS
  <1>5. call = License(b, raw.literal, raw.predicate, event)
    OBVIOUS
  <1>6. rescued = Rescue(ctx, b, raw.literal, raw.predicate, event)
    OBVIOUS
  <1> HIDE DEF event, call, rescued, r
  <1>7. CASE claim = {}
    <2>1. r = [b |-> b, step |-> step]
      BY <1>1, <1>7
    <2>2. r.b = b /\ r.step = step /\ r = [b |-> r.b, step |-> r.step]
      BY <2>1
    <2>3. Attached(ctx, b, step, claim, r)
      BY <1>3, <1>7, <2>2 DEF Attached
    <2>4. QED
      BY <2>3 DEF r
  <1>8. CASE claim # {} /\ raw.literal = {}
    <2>1. r = Refuse(ctx, b, step, claim, raw, "nothing quoted")
      BY <1>1, <1>8
    <2>2. "nothing quoted" # "never retrieved"
      OBVIOUS
    <2>3. Attached(ctx, b, step, claim, r)
      BY <1>3, <1>8, <2>1, <2>2, RefusedIs
    <2>4. QED
      BY <2>3 DEF r
  <1>9. CASE claim # {} /\ raw.literal # {} /\ call # 0
    <2>1. r = Judged(ctx, b, step, claim, raw, call, event)
      BY <1>1, <1>9
    <2>2. /\ call \in ToSet(b.cited)
          /\ Negative(raw.predicate) => b.calls[call].got.event = event
          /\ raw.predicate = NoPredicate => ResponseSupports(b.calls[call].stored, raw.literal)
      BY <1>5, <1>9, LicensedIs
    <2>3. raw.predicate = NoPredicate => ContainsLiteral(b.calls[call].stored, raw.literal)
      BY <2>2, CitedSays
    <2>4. Attached(ctx, b, step, claim, r)
      BY <1>3, <1>9, <2>1, <2>2, <2>3, JudgedIs
    <2>5. QED
      BY <2>4 DEF r
  <1>10. CASE claim # {} /\ raw.literal # {} /\ call = 0 /\ Corrupted(b.calls, b.cited) # {}
    <2>1. r = Refuse(ctx, b, step, claim, raw, "the evidence is broken")
      BY <1>1, <1>10
    <2>2. "the evidence is broken" # "never retrieved"
      OBVIOUS
    <2>3. Attached(ctx, b, step, claim, r)
      BY <1>3, <1>10, <2>1, <2>2, RefusedIs
    <2>4. QED
      BY <2>3 DEF r
  <1>11. CASE claim # {} /\ raw.literal # {} /\ call = 0 /\ Corrupted(b.calls, b.cited) = {}
    <2> DEFINE c == rescued.b
    <2>1. r = Rescued(ctx, rescued, step, claim, raw, event)
      BY <1>1, <1>11
    <2>2. /\ IsBinding(c) /\ Has(rescued, raw.literal)
          /\ Extends(ctx, c, b) /\ c.refused = b.refused
          /\ rescued.call # 0 => ~Negative(raw.predicate)
          /\ /\ rescued.call = 0 /\ ctx.tools /\ ~Negative(raw.predicate) /\ event # "none"
             /\ c.rescues < RescueBudget
             => ~ContainsLiteral(GetSnapshot(ctx.rec, event, "after"), raw.literal)
      BY <1>2, <1>6, RescueIs
    <2>3. CASE rescued.call # 0
      <3>1. r = Judged(ctx, c, step, claim, raw, rescued.call, event)
        BY <2>1, <2>3 DEF Rescued
      <3>2. rescued.call \in ToSet(c.cited) /\ ResponseSupports(c.calls[rescued.call].stored, raw.literal)
        BY <2>2, <2>3 DEF Has
      <3>3. ContainsLiteral(c.calls[rescued.call].stored, raw.literal)
        BY <2>2, <3>2, CitedSays
      <3> HIDE DEF c
      <3>4. Attached(ctx, b, step, claim, r)
        BY <1>11, <2>2, <2>3, <3>1, <3>2, <3>3, JudgedIs
      <3>5. QED
        BY <3>4 DEF r
    <2>4. CASE rescued.call = 0
      <3>1. r = Refuse(ctx, c, step, claim, raw, "never retrieved")
        BY <2>1, <2>4 DEF Rescued
      <3>2. ~Negative(raw.predicate) => \A n \in ToSet(b.cited) : ~ResponseSupports(b.calls[n].stored, raw.literal)
        BY <1>5, <1>11, LicensedIs
      <3>3. ~Negative(raw.predicate) => \A n \in ToSet(b.cited) : ~ResponseSupports(b.calls[n].got, raw.literal)
        BY <1>11, <3>2, CitedSays
      <3>4. /\ Corrupted(b.calls, b.cited) = {}
            /\ ~Negative(raw.predicate) =>
                  /\ \A n \in ToSet(b.cited) : ~ResponseSupports(b.calls[n].got, raw.literal)
                  /\ /\ ctx.tools /\ ClaimedEvent(ctx.rec, step, raw) # "none"
                     /\ c.rescues < RescueBudget
                     => ~ContainsLiteral(GetSnapshot(ctx.rec, ClaimedEvent(ctx.rec, step, raw), "after"),
                                         raw.literal)
        BY <1>4, <1>11, <2>2, <2>4, <3>3
      <3> HIDE DEF c
      <3>5. Attached(ctx, b, step, claim, r)
        BY <1>11, <2>2, <3>1, <3>4, RefusedIs
      <3>6. QED
        BY <3>5 DEF r
    <2>5. QED
      BY <2>3, <2>4
  <1>12. QED
    BY <1>7, <1>8, <1>9, <1>10, <1>11

---------------------------------------------------------------------------
(* What holds goes on holding. *)
AllTrue(ctx, was, b) == \A i \in 1..Len(b.refused) : TrueRefusal(ctx, was, b, b.refused[i])

\* A claim that holds of a log holds of every log that goes on from it.
LEMMA ClaimGoesOn ==
  ASSUME NEW rec, NEW b, NEW c, IsLog(b.calls, b.cited), IsLog(c.calls, c.cited), Further(c, b),
         NEW claim, ClaimHolds(rec, b, claim)
  PROVE  ClaimHolds(rec, c, claim)
  <1>1. SUFFICES ASSUME Bound(claim), ~claim.unresolved PROVE ClaimHolds(rec, c, claim)
    BY DEF ClaimHolds
  <1>2. /\ claim.call \in ToSet(b.cited)
        /\ Evaluate(b.calls[claim.call].stored, claim.literal, claim.predicate) = "true"
        /\ IF Negative(claim.predicate) THEN b.calls[claim.call].got.event = claim.event
           ELSE ContainsAt(rec, claim.literal, claim.event)
    BY <1>1 DEF ClaimHolds
  <1>3. claim.call \in ToSet(c.cited) /\ c.calls[claim.call] = b.calls[claim.call]
    BY <1>2, CitedStays
  <1>4. QED
    BY <1>2, <1>3 DEF ClaimHolds

\* So does a step.
LEMMA StepGoesOn ==
  ASSUME NEW rec, NEW b, NEW c, IsLog(b.calls, b.cited), IsLog(c.calls, c.cited), Further(c, b),
         NEW step, StepHolds(rec, b, step)
  PROVE  StepHolds(rec, c, step)
  BY ClaimGoesOn DEF StepHolds

\* A refusal stays true while the budget is spent further.
LEMMA RefusalGoesOn ==
  ASSUME NEW ctx, NEW was, NEW b, NEW c, IsBinding(b), IsBinding(c), b.rescues <= c.rescues,
         NEW r, TrueRefusal(ctx, was, b, r)
  PROVE  TrueRefusal(ctx, was, c, r)
  <1>1. c.rescues < RescueBudget => b.rescues < RescueBudget
    <2>1. b.rescues \in Nat /\ c.rescues \in Nat /\ RescueBudget \in Nat
      BY AuthorRunAssumption DEF IsBinding
    <2>2. QED
      BY <2>1
  <1>2. QED
    BY <1>1 DEF TrueRefusal

\* It is true of what there was still earlier.
LEMMA RefusalOfBefore ==
  ASSUME NEW ctx, NEW was, NEW b, NEW c, IsBinding(was), IsBinding(b), Further(b, was),
         NEW r, TrueRefusal(ctx, b, c, r)
  PROVE  TrueRefusal(ctx, was, c, r)
  <1>1. \A n \in ToSet(was.cited) : n \in ToSet(b.cited) /\ b.calls[n] = was.calls[n]
    BY CitedStays DEF IsBinding
  <1>2. ToSet(was.cited) = Range(was.cited) /\ ToSet(b.cited) = Range(b.cited)
    BY DEF ToSet, Range
  <1>3. Corrupted(b.calls, b.cited) = {} => Corrupted(was.calls, was.cited) = {}
    BY <1>1, <1>2 DEF Corrupted
  <1>4. QED
    BY <1>1, <1>3 DEF TrueRefusal

\* The step a claim has been attached to holds, and so do the refusals.
LEMMA AttachedHolds ==
  ASSUME NEW ctx, NEW b, IsBinding(b), NEW step, StepHolds(ctx.rec, b, step), NEW claim,
         NEW r, Attached(ctx, b, step, claim, r)
  PROVE  StepHolds(ctx.rec, r.b, r.step)
  <1>1. IsBinding(r.b) /\ Extends(ctx, r.b, b) /\ IsDraft(ctx.rec, r.step)
    BY DEF Attached
  <1>2. IsLog(b.calls, b.cited) /\ IsLog(r.b.calls, r.b.cited) /\ Further(r.b, b)
    BY <1>1 DEF IsBinding, Extends
  <1>3. \A i \in 1..Len(step.claims) : ClaimHolds(ctx.rec, r.b, step.claims[i])
    BY <1>2, ClaimGoesOn DEF StepHolds
  <1>4. CASE claim = {}
    <2>1. r.step.claims = step.claims
      BY <1>4 DEF Attached
    <2>2. QED
      BY <1>1, <1>3, <2>1 DEF StepHolds
  <1>5. CASE claim # {}
    <2>1. PICK x : r.step.claims = Append(step.claims, x) /\ ClaimHolds(ctx.rec, r.b, x)
      BY <1>5 DEF Attached
    <2>2. IsSeq(step.claims) /\ Len(step.claims) \in Nat
      BY IsSeqMeans DEF StepHolds, IsDraft
    <2>3. /\ Len(r.step.claims) = Len(step.claims) + 1
          /\ \A i \in 1..Len(step.claims) : r.step.claims[i] = step.claims[i]
          /\ r.step.claims[Len(step.claims) + 1] = x
      BY <2>1, <2>2, Appended
    <2>4. ASSUME NEW i \in 1..Len(r.step.claims) PROVE ClaimHolds(ctx.rec, r.b, r.step.claims[i])
      <3>1. i \in 1..Len(step.claims) \/ i = Len(step.claims) + 1
        BY <2>2, <2>3
      <3>2. QED
        BY <1>3, <2>1, <2>3, <3>1
    <2>5. QED
      BY <1>1, <2>4 DEF StepHolds
  <1>6. QED
    BY <1>4, <1>5

\* Attaching a claim adds no refusal that is false.
LEMMA AttachedTrue ==
  ASSUME NEW ctx, NEW was, NEW b, IsBinding(was), IsBinding(b), Extends(ctx, b, was),
         AllTrue(ctx, was, b), NEW step, NEW claim, NEW r, Attached(ctx, b, step, claim, r)
  PROVE  AllTrue(ctx, was, r.b) /\ Extends(ctx, r.b, was)
  <1>1. IsBinding(r.b) /\ Extends(ctx, r.b, b) /\ b.rescues <= r.b.rescues
    BY DEF Attached, Extends
  <1>2. Extends(ctx, r.b, was)
    BY <1>1, ExtendsTwice
  <1>3. \A i \in 1..Len(b.refused) : TrueRefusal(ctx, was, r.b, b.refused[i])
    BY <1>1, RefusalGoesOn DEF AllTrue
  <1>4. CASE r.b.refused = b.refused
    BY <1>2, <1>3, <1>4 DEF AllTrue
  <1>5. CASE r.b.refused # b.refused
    <2>1. PICK y : r.b.refused = Append(b.refused, y) /\ TrueRefusal(ctx, b, r.b, y)
      BY <1>5 DEF Attached
    <2>2. TrueRefusal(ctx, was, r.b, y)
      <3>1. Further(b, was)
        BY DEF Extends
      <3>2. QED
        BY <2>1, <3>1, RefusalOfBefore
    <2>3. IsSeq(b.refused) /\ Len(b.refused) \in Nat
      BY IsSeqMeans DEF IsBinding
    <2>4. /\ Len(r.b.refused) = Len(b.refused) + 1
          /\ \A i \in 1..Len(b.refused) : r.b.refused[i] = b.refused[i]
          /\ r.b.refused[Len(b.refused) + 1] = y
      BY <2>1, <2>3, Appended
    <2>5. ASSUME NEW i \in 1..Len(r.b.refused) PROVE TrueRefusal(ctx, was, r.b, r.b.refused[i])
      <3>1. i \in 1..Len(b.refused) \/ i = Len(b.refused) + 1
        BY <2>3, <2>4
      <3>2. QED
        BY <1>3, <2>2, <2>4, <3>1
    <2>6. QED
      BY <1>2, <2>5 DEF AllTrue
  <1>6. QED
    BY <1>4, <1>5

---------------------------------------------------------------------------
(* Sequences taken apart and put together. *)
\* \o has the elements of both.
LEMMA CatHas ==
  ASSUME NEW s, NEW t, IsSeq(s), IsSeq(t)
  PROVE  ToSet(s \o t) = ToSet(s) \cup ToSet(t)
  <1>1. /\ Len(s) \in Nat /\ ToSet(s) = {s[i] : i \in 1..Len(s)}
        /\ Len(t) \in Nat /\ ToSet(t) = {t[i] : i \in 1..Len(t)}
    BY IsSeqMeans
  <1>2. /\ IsSeq(s \o t) /\ Len(s \o t) = Len(s) + Len(t)
        /\ \A i \in 1..Len(s) : (s \o t)[i] = s[i]
        /\ \A i \in 1..Len(t) : (s \o t)[Len(s) + i] = t[i]
        /\ \A q \in 1..(Len(s) + Len(t)) : q \in 1..Len(s) \/ q - Len(s) \in 1..Len(t)
    BY CatOf
  <1>3. ToSet(s \o t) = {(s \o t)[i] : i \in 1..(Len(s) + Len(t))}
    <2> DEFINE u == s \o t
    <2>1. IsSeq(u) /\ Len(u) = Len(s) + Len(t)
      BY <1>2
    <2> HIDE DEF u
    <2>2. ToSet(u) = {u[i] : i \in 1..Len(u)}
      BY <2>1, IsSeqMeans
    <2>3. QED
      BY <2>1, <2>2 DEF u
  <1>4. ASSUME NEW q \in 1..(Len(s) + Len(t)) PROVE (s \o t)[q] \in ToSet(s) \cup ToSet(t)
    <2>1. CASE q \in 1..Len(s)
      BY <1>1, <1>2, <2>1
    <2>2. CASE q - Len(s) \in 1..Len(t)
      <3>1. Len(s) + (q - Len(s)) = q
        BY <1>1
      <3>2. (s \o t)[q] = t[q - Len(s)]
        BY <1>2, <2>2, <3>1
      <3>3. QED
        BY <1>1, <2>2, <3>2
    <2>3. QED
      BY <1>2, <2>1, <2>2
  <1>5. ASSUME NEW i \in 1..Len(s) PROVE s[i] \in ToSet(s \o t)
    <2>1. i \in 1..(Len(s) + Len(t))
      BY <1>1
    <2>2. QED
      BY <1>2, <1>3, <2>1
  <1>6. ASSUME NEW i \in 1..Len(t) PROVE t[i] \in ToSet(s \o t)
    <2>1. Len(s) + i \in 1..(Len(s) + Len(t))
      BY <1>1
    <2>2. QED
      BY <1>2, <1>3, <2>1
  <1>7. QED
    BY <1>1, <1>3, <1>4, <1>5, <1>6

\* The events that are known are events of the recording.
LEMMA KnownIs ==
  ASSUME NEW rec, NEW ids, IsSeq(ids)
  PROVE  IsSeq(Known(rec, ids)) /\ ToSet(Known(rec, ids)) \subseteq Ids(rec)
  <1> DEFINE t == [i \in DOMAIN ids |-> IF HasEvent(rec, ids[i]) THEN <<ids[i]>> ELSE <<>>]
  <1>1. Known(rec, ids) = FlattenSeq(t)
    BY DEF Known, Those
  <1>2. Len(ids) \in Nat /\ DOMAIN ids = 1..Len(ids)
    BY IsSeqMeans
  <1>3. t = [i \in DOMAIN ids |-> t[i]] /\ \A i \in DOMAIN ids : t[i] = <<ids[i]>> \/ t[i] = <<>>
    OBVIOUS
  <1>4. \A i \in 1..Len(ids) : t[i] = <<ids[i]>> => ids[i] \in Ids(rec)
    <2>1. TAKE i \in 1..Len(ids)
    <2>2. CASE HasEvent(rec, ids[i])
      BY <2>2 DEF HasEvent
    <2>3. CASE ~HasEvent(rec, ids[i])
      <3>1. t[i] = <<>>
        BY <1>2, <2>3
      <3>2. QED
        BY <3>1, One, None
    <2>4. QED
      BY <2>2, <2>3
  <1> HIDE DEF t
  <1>5. /\ IsSeq(FlattenSeq(t))
        /\ \A x : x \in ToSet(FlattenSeq(t)) <=> \E i \in 1..Len(ids) : x = ids[i] /\ t[i] = <<ids[i]>>
    BY <1>2, <1>3, ThoseOf
  <1>6. ToSet(FlattenSeq(t)) \subseteq Ids(rec)
    BY <1>4, <1>5
  <1>7. QED
    BY <1>1, <1>5, <1>6

\* A step that takes up the events of an expected result.
Taken(rec, events, ids) == events \o Those(Known(rec, ids), LAMBDA id : id \notin Range(events))

\* It still names events of the recording only, each of its own before the new ones.
LEMMA MoreEvents ==
  ASSUME NEW rec, NEW events, IsSeq(events), ToSet(events) \subseteq Ids(rec), NEW ids, IsSeq(ids),
         NEW more, more = Taken(rec, events, ids)
  PROVE  IsSeq(more) /\ ToSet(more) \subseteq Ids(rec)
  <1> DEFINE s == Known(rec, ids)
             t == [i \in DOMAIN s |-> IF s[i] \notin Range(events) THEN <<s[i]>> ELSE <<>>]
  <1>1. more = events \o FlattenSeq(t)
    BY DEF Taken, Those
  <1>2. IsSeq(s) /\ ToSet(s) \subseteq Ids(rec)
    BY KnownIs
  <1>3. t = [i \in DOMAIN s |-> t[i]] /\ \A i \in DOMAIN s : t[i] = <<s[i]>> \/ t[i] = <<>>
    OBVIOUS
  <1> HIDE DEF s, t
  <1>4. Len(s) \in Nat /\ DOMAIN s = 1..Len(s) /\ \A i \in 1..Len(s) : s[i] \in Ids(rec)
    BY <1>2, IsSeqMeans
  <1>5. /\ IsSeq(FlattenSeq(t))
        /\ \A x : x \in ToSet(FlattenSeq(t)) <=> \E i \in 1..Len(s) : x = s[i] /\ t[i] = <<s[i]>>
    BY <1>3, <1>4, ThoseOf
  <1>6. ToSet(FlattenSeq(t)) \subseteq Ids(rec)
    BY <1>4, <1>5
  <1>7. IsSeq(events \o FlattenSeq(t))
    BY <1>5, CatOf
  <1>8. ToSet(events \o FlattenSeq(t)) = ToSet(events) \cup ToSet(FlattenSeq(t))
    BY <1>5, CatHas
  <1>9. ToSet(events \o FlattenSeq(t)) \subseteq Ids(rec)
    BY <1>6, <1>8
  <1>10. QED
    BY <1>1, <1>7, <1>9

\* A sequence is its front and its last.
LEMMA FrontIs ==
  ASSUME NEW s, IsSeq(s), s # <<>>
  PROVE  /\ Len(s) \in Nat \ {0} /\ IsSeq(Front(s)) /\ Len(Front(s)) = Len(s) - 1
         /\ \A i \in 1..(Len(s) - 1) : Front(s)[i] = s[i]
         /\ Last(s) = s[Len(s)] /\ s = Append(Front(s), Last(s))
  <1>1. Len(s) \in Nat \ {0}
    BY IsSeqMeans
  <1> DEFINE n == Len(s) - 1
  <1>2. n \in 0..Len(s) /\ 1 \in 1..(Len(s) + 1) /\ 1 <= n + 1 /\ (n - 1) + 1 = n
    BY <1>1
  <1>3. /\ IsSeq(SubSeq(s, 1, n)) /\ Len(SubSeq(s, 1, n)) = (n - 1) + 1
        /\ \A i \in 1..((n - 1) + 1) : SubSeq(s, 1, n)[i] = s[(1 + i) - 1]
    BY <1>2, PartOf
  <1>4. \A i \in 1..n : (1 + i) - 1 = i
    BY <1>1
  <1>5. Front(s) = SubSeq(s, 1, n) /\ Last(s) = s[Len(s)]
    BY DEF Front, Last
  <1>6. IsSeq(Front(s)) /\ Len(Front(s)) = n /\ \A i \in 1..n : Front(s)[i] = s[i]
    BY <1>2, <1>3, <1>4, <1>5
  <1> DEFINE t == Append(Front(s), Last(s))
  <1>7. /\ IsSeq(t) /\ Len(t) = n + 1 /\ \A i \in 1..n : t[i] = Front(s)[i]
        /\ t[n + 1] = Last(s)
    BY <1>6, Appended
  <1> HIDE DEF t
  <1>8. n + 1 = Len(s)
    BY <1>1
  <1>9. \A i \in 1..Len(s) : s[i] = t[i]
    <2>1. TAKE i \in 1..Len(s)
    <2>2. i \in 1..n \/ i = Len(s)
      BY <1>1
    <2>3. QED
      BY <1>5, <1>6, <1>7, <1>8, <2>2
  <1>10. s = t
    BY <1>7, <1>8, <1>9, Alike
  <1>11. QED
    BY <1>1, <1>5, <1>6, <1>10 DEF t

\* Appending to the second appends to both.
LEMMA CatAppend ==
  ASSUME NEW s, NEW t, IsSeq(s), IsSeq(t), NEW e
  PROVE  s \o Append(t, e) = Append(s \o t, e)
  <1> DEFINE u == Append(t, e)
             v == s \o t
             a == s \o u
             w == Append(v, e)
  <1>1. /\ Len(s) \in Nat /\ Len(t) \in Nat
    BY IsSeqMeans
  <1>2. /\ IsSeq(u) /\ Len(u) = Len(t) + 1 /\ \A i \in 1..Len(t) : u[i] = t[i]
        /\ u[Len(t) + 1] = e
    BY Appended
  <1>3. /\ IsSeq(v) /\ Len(v) = Len(s) + Len(t)
        /\ \A i \in 1..Len(s) : v[i] = s[i]
        /\ \A i \in 1..Len(t) : v[Len(s) + i] = t[i]
        /\ \A q \in 1..(Len(s) + Len(t)) : q \in 1..Len(s) \/ q - Len(s) \in 1..Len(t)
    BY CatOf
  <1> HIDE DEF u, v
  <1>4. /\ IsSeq(a) /\ Len(a) = Len(s) + Len(u)
        /\ \A i \in 1..Len(s) : a[i] = s[i]
        /\ \A i \in 1..Len(u) : a[Len(s) + i] = u[i]
    BY <1>2, CatOf
  <1>5. /\ IsSeq(w) /\ Len(w) = Len(v) + 1 /\ \A i \in 1..Len(v) : w[i] = v[i]
        /\ w[Len(v) + 1] = e
    BY <1>3, Appended
  <1> HIDE DEF a, w
  <1>6. Len(a) = (Len(s) + Len(t)) + 1 /\ Len(w) = (Len(s) + Len(t)) + 1
    BY <1>1, <1>2, <1>3, <1>4, <1>5
  <1>7. ASSUME NEW q \in 1..Len(a) PROVE a[q] = w[q]
    <2>1. CASE q \in 1..Len(s)
      <3>1. q \in 1..Len(v)
        BY <1>1, <1>3, <2>1
      <3>2. QED
        BY <1>3, <1>4, <1>5, <2>1, <3>1
    <2>2. CASE q - Len(s) \in 1..Len(t)
      <3>1. q \in 1..Len(v) /\ q - Len(s) \in 1..Len(u) /\ Len(s) + (q - Len(s)) = q
        BY <1>1, <1>2, <1>3, <1>6, <2>2
      <3>2. a[q] = u[q - Len(s)] /\ w[q] = v[q]
        BY <1>4, <1>5, <3>1
      <3>3. u[q - Len(s)] = t[q - Len(s)] /\ v[q] = t[q - Len(s)]
        BY <1>2, <1>3, <2>2, <3>1
      <3>4. QED
        BY <3>2, <3>3
    <2>3. CASE q = (Len(s) + Len(t)) + 1
      <3>1. Len(t) + 1 \in 1..Len(u) /\ Len(s) + (Len(t) + 1) = q
        BY <1>1, <1>2, <2>3
      <3>2. a[q] = e
        BY <1>2, <1>4, <3>1
      <3>3. QED
        BY <1>3, <1>5, <2>3, <3>2
    <2>4. q \in 1..(Len(s) + Len(t)) \/ q = (Len(s) + Len(t)) + 1
      BY <1>1, <1>6
    <2>5. QED
      BY <1>3, <2>1, <2>2, <2>3, <2>4
  <1>8. a = w
    BY <1>4, <1>5, <1>6, <1>7, Alike
  <1>9. QED
    BY <1>8 DEF a, w, u, v

\* What the first k come to depends on them alone.
LEMMA UptoSame ==
  ASSUME NEW ss, NEW tt, SeqOfSeqs(ss), SeqOfSeqs(tt), NEW k \in 0..Len(ss), k \in 0..Len(tt),
         \A i \in 1..k : ss[i] = tt[i]
  PROVE  Upto(ss, k) = Upto(tt, k)
  <1> DEFINE T == {n \in Nat : Upto(ss, n) = Upto(tt, n)}
  <1>1. Len(ss) \in Nat /\ Len(tt) \in Nat /\ k \in Nat
    BY StartsOf
  <1>2. 0 \in T
    BY DEF Upto
  <1>3. ASSUME NEW n \in 0..(k - 1), n \in T PROVE n + 1 \in T
    <2>1. n \in Nat /\ n + 1 \in 1..k /\ n + 1 \in 1..Len(ss) /\ n + 1 \in 1..Len(tt) /\ (n + 1) - 1 = n
      BY <1>1
    <2>2. Upto(ss, n + 1) = Upto(ss, n) \o ss[n + 1]
      BY <2>1, FlatUnfolds
    <2>3. Upto(tt, n + 1) = Upto(tt, n) \o tt[n + 1]
      BY <2>1, FlatUnfolds
    <2>4. Upto(ss, n + 1) = Upto(tt, n + 1)
      BY <1>3, <2>1, <2>2, <2>3
    <2>5. QED
      BY <2>1, <2>4
  <1>4. \A n \in 0..k : n \in T
    <2> HIDE DEF T
    <2> QED BY <1>1, <1>2, <1>3, StepByStep
  <1>5. QED
    BY <1>1, <1>4

\* One sequence more.
LEMMA FlatAppend ==
  ASSUME NEW ss, SeqOfSeqs(ss), NEW e, IsSeq(e)
  PROVE  SeqOfSeqs(Append(ss, e)) /\ FlattenSeq(Append(ss, e)) = FlattenSeq(ss) \o e
  <1> DEFINE tt == Append(ss, e)
  <1>1. IsSeq(ss) /\ Len(ss) \in Nat
    BY IsSeqMeans DEF SeqOfSeqs
  <1>2. /\ IsSeq(tt) /\ Len(tt) = Len(ss) + 1 /\ \A i \in 1..Len(ss) : tt[i] = ss[i]
        /\ tt[Len(ss) + 1] = e
    BY <1>1, Appended
  <1> HIDE DEF tt
  <1>3. SeqOfSeqs(tt)
    <2>1. \A k \in 1..Len(tt) : k \in 1..Len(ss) \/ k = Len(ss) + 1
      BY <1>1, <1>2
    <2>2. QED
      BY <1>2, <2>1 DEF SeqOfSeqs
  <1>4. Len(ss) \in 0..Len(ss) /\ Len(ss) \in 0..Len(tt) /\ Len(tt) \in 1..Len(tt) /\ Len(tt) - 1 = Len(ss)
    BY <1>1, <1>2
  <1>5. Upto(ss, Len(ss)) = Upto(tt, Len(ss))
    BY <1>2, <1>3, <1>4, UptoSame
  <1>6. FlattenSeq(tt) = Upto(tt, Len(tt)) /\ Upto(tt, Len(tt)) = Upto(tt, Len(tt) - 1) \o tt[Len(tt)]
    BY <1>3, <1>4, FlatUnfolds
  <1>7. FlattenSeq(ss) = Upto(ss, Len(ss))
    BY <1>4, FlatUnfolds
  <1>8. FlattenSeq(tt) = FlattenSeq(ss) \o e
    BY <1>2, <1>4, <1>5, <1>6, <1>7
  <1>9. QED
    BY <1>3, <1>8 DEF tt

\* Nothing comes of those that are empty.
LEMMA FlatTail ==
  ASSUME NEW ss, SeqOfSeqs(ss), NEW k \in 0..Len(ss), \A i \in (k + 1)..Len(ss) : ss[i] = <<>>
  PROVE  FlattenSeq(ss) = Upto(ss, k)
  <1> DEFINE T == {n \in Nat : Upto(ss, k + n) = Upto(ss, k)}
             N == Len(ss) - k
  <1>1. Len(ss) \in Nat /\ k \in Nat /\ N \in Nat
    BY StartsOf
  <1>2. 0 \in T
    BY <1>1
  <1>3. ASSUME NEW n \in 0..(N - 1), n \in T PROVE n + 1 \in T
    <2>1. /\ n \in Nat /\ k + (n + 1) \in 1..Len(ss) /\ (k + (n + 1)) - 1 = k + n
          /\ k + (n + 1) \in (k + 1)..Len(ss) /\ k + n \in 0..Len(ss)
      BY <1>1
    <2>2. Upto(ss, k + (n + 1)) = Upto(ss, k + n) \o <<>> /\ IsSeq(Upto(ss, k + n))
      BY <2>1, FlatUnfolds
    <2>3. Upto(ss, k + n) \o <<>> = Upto(ss, k + n)
      BY <2>2, ConcatEmptySeq DEF IsSeq
    <2>4. QED
      BY <1>3, <2>1, <2>2, <2>3
  <1>4. \A n \in 0..N : n \in T
    <2> HIDE DEF T, N
    <2> QED BY <1>1, <1>2, <1>3, StepByStep
  <1>5. N \in 0..N /\ k + N = Len(ss) /\ Len(ss) \in 0..Len(ss)
    BY <1>1
  <1>6. Upto(ss, Len(ss)) = Upto(ss, k)
    BY <1>4, <1>5
  <1>7. QED
    BY <1>5, <1>6, FlatUnfolds

\* A part ends where a later one begins, or before.
LEMMA StartsGrow ==
  ASSUME NEW ss, SeqOfSeqs(ss), NEW k \in 1..Len(ss)
  PROVE  \A m \in 1..(Len(ss) + 1) : k < m => Start(ss, k) + Len(ss[k]) <= Start(ss, m)
  <1>1. Len(ss) \in Nat /\ k \in 0..Len(ss) /\ (k + 1) - 1 = k
    BY StartsOf
  <1>2. Start(ss, k + 1) = Start(ss, k) + Len(ss[k])
    BY StartsOf
  <1>3. SUFFICES ASSUME NEW m \in 1..(Len(ss) + 1), k < m PROVE Start(ss, k + 1) <= Start(ss, m)
    BY <1>2
  <1>4. m - 1 \in 0..Len(ss) /\ k <= m - 1
    BY <1>1, <1>3
  <1>5. Len(Upto(ss, k)) <= Len(Upto(ss, m - 1))
    BY <1>1, <1>4, UptoIsPrefix
  <1>6. QED
    BY <1>1, <1>5 DEF Start

---------------------------------------------------------------------------
(* The lines of the file and their annotations. *)
Aligned(s, lines) == IsSeq(s) /\ Len(s) = Len(lines) /\ \A i \in 1..Len(s) : IsSeq(s[i].events)

\* Every line has an annotation, or one that says nothing.
LEMMA AlignIs ==
  ASSUME NEW lines, IsSeq(lines), NEW annotations, AreAnnotations(annotations)
  PROVE  Align(lines, annotations) = <<>> \/ Aligned(Align(lines, annotations), lines)
  <1> DEFINE r == Align(lines, annotations)
             start == [next |-> 1, out |-> <<>>]
  <1>1. /\ IsSeq(annotations) /\ Len(annotations) \in Nat /\ DOMAIN annotations = 1..Len(annotations)
        /\ \A i \in 1..Len(annotations) : IsSeq(annotations[i].events)
    BY IsSeqMeans DEF AreAnnotations
  <1>2. CASE \E i \in DOMAIN annotations : annotations[i].line # {}
    <2>1. r = MatchLines(annotations, start, lines).out
      BY <1>2 DEF Align
    <2> HIDE DEF start
    <2>2. PICK f : /\ f[0] = start
                   /\ \A k \in 1..Len(lines) : f[k] = Match(annotations, f[k - 1], lines[k])
                   /\ MatchLines(annotations, start, lines) = f[Len(lines)]
      BY MatchFold
    <2> DEFINE Good(so, k) ==
                 /\ so = [next |-> so.next, out |-> so.out] /\ so.next \in Nat \ {0}
                 /\ IsSeq(so.out) /\ Len(so.out) = k
                 /\ \A i \in 1..k : IsSeq(so.out[i].events)
               T == {k \in Nat : Good(f[k], k)}
    <2>3. Len(lines) \in Nat
      BY IsSeqMeans
    <2>4. 0 \in T
      <3>1. f[0] = [next |-> 1, out |-> <<>>]
        BY <2>2 DEF start
      <3>2. Good(f[0], 0)
        BY <3>1, None
      <3>3. QED
        BY <3>2
    <2>5. ASSUME NEW n \in 0..(Len(lines) - 1), n \in T PROVE n + 1 \in T
      <3> DEFINE so == f[n]
                 line == lines[n + 1]
                 hits == {i \in so.next..Len(annotations) : annotations[i].line = line.text}
                 to == f[n + 1]
      <3>1. n \in Nat /\ Good(so, n)
        BY <2>5
      <3>2. to = Match(annotations, so, line)
        <4>1. n + 1 \in 1..Len(lines) /\ (n + 1) - 1 = n
          BY <2>3
        <4>2. QED
          BY <2>2, <4>1
      <3>3. to = IF hits = {} THEN [so EXCEPT !.out = Append(@, Blank)]
                 ELSE [next |-> Min(hits) + 1, out |-> Append(so.out, annotations[Min(hits)])]
        BY <3>2 DEF Match
      <3>4. ASSUME NEW e, IsSeq(e.events), NEW next \in Nat \ {0}, to = [next |-> next, out |-> Append(so.out, e)]
            PROVE  Good(to, n + 1)
        <4> HIDE DEF so, to
        <4>1. /\ IsSeq(Append(so.out, e)) /\ Len(Append(so.out, e)) = n + 1
              /\ \A i \in 1..n : Append(so.out, e)[i] = so.out[i]
              /\ Append(so.out, e)[n + 1] = e
          BY <3>1, Appended
        <4>2. to.next = next /\ to.out = Append(so.out, e) /\ to = [next |-> to.next, out |-> to.out]
          BY <3>4
        <4>3. ASSUME NEW i \in 1..(n + 1) PROVE IsSeq(to.out[i].events)
          <5>1. i \in 1..n \/ i = n + 1
            BY <3>1
          <5>2. QED
            BY <3>1, <3>4, <4>1, <4>2, <5>1
        <4>4. QED
          BY <3>4, <4>1, <4>2, <4>3
      <3>5. ASSUME hits = {} PROVE Good(to, n + 1)
        <4>1. to = [so EXCEPT !.out = Append(@, Blank)]
          BY <3>3, <3>5
        <4>2. so = [next |-> so.next, out |-> so.out] /\ so.next \in Nat \ {0}
          BY <3>1
        <4>3. Blank.events = <<>>
          BY DEF Blank
        <4> HIDE DEF so, to, Good
        <4>4. to = [next |-> so.next, out |-> Append(so.out, Blank)]
          BY <4>1, <4>2
        <4>5. QED
          BY <3>4, <4>2, <4>3, <4>4, None
      <3>6. ASSUME hits # {} PROVE Good(to, n + 1)
        <4>1. so.next \in Nat \ {0}
          BY <3>1
        <4>2. hits \in SUBSET Nat
          BY <4>1, <1>1
        <4> HIDE DEF so, to, Good
        <4>3. Min(hits) \in hits
          <5>1. PICK m \in hits : \A y \in hits : m <= y
            <6> HIDE DEF hits
            <6> QED BY <3>6, <4>2, LeastOf
          <5>2. \E x \in hits : \A y \in hits : x <= y
            BY <5>1
          <5> HIDE DEF hits
          <5>3. QED
            BY <5>2 DEF Min
        <4>4. Min(hits) \in 1..Len(annotations) /\ Min(hits) + 1 \in Nat \ {0}
          BY <1>1, <4>1, <4>3
        <4>5. IsSeq(annotations[Min(hits)].events)
          BY <1>1, <4>4
        <4>6. to = [next |-> Min(hits) + 1, out |-> Append(so.out, annotations[Min(hits)])]
          BY <3>3, <3>6
        <4>7. QED
          BY <3>4, <4>4, <4>5, <4>6
      <3>7. Good(to, n + 1) /\ n + 1 \in Nat
        BY <3>1, <3>5, <3>6
      <3>8. QED
        BY <3>7
    <2>6. \A k \in 0..Len(lines) : k \in T
      <3> HIDE DEF T
      <3> QED BY <2>3, <2>4, <2>5, StepByStep
    <2>7. Good(f[Len(lines)], Len(lines))
      BY <2>3, <2>6
    <2>8. r = f[Len(lines)].out
      BY <2>1, <2>2
    <2> HIDE DEF r
    <2>9. Aligned(r, lines)
      BY <2>7, <2>8 DEF Aligned
    <2>10. QED
      BY <2>9 DEF r
  <1>3. CASE ~\E i \in DOMAIN annotations : annotations[i].line # {}
    <2>1. r = IF Len(annotations) = Len(lines) THEN annotations ELSE <<>>
      BY <1>3 DEF Align
    <2>2. QED
      BY <1>1, <2>1 DEF Aligned
  <1>4. QED
    BY <1>2, <1>3

\* The scenarios of an answer, each of lines with a text.
LEMMA ScenariosAre ==
  ASSUME NEW answer, IsAnswer(answer)
  PROVE  /\ SeqOfSeqs(Scenarios(answer)) /\ Len(Scenarios(answer)) = Len(answer.lines)
         /\ DOMAIN Scenarios(answer) = 1..Len(answer.lines) /\ Len(answer.lines) \in Nat
         /\ \A n \in 1..Len(answer.lines) : AreLines(Scenarios(answer)[n])
  <1> DEFINE s == Scenarios(answer)
  <1>1. /\ IsSeq(answer.lines) /\ AreLines(answer.background)
        /\ \A n \in DOMAIN answer.lines : AreLines(answer.lines[n])
    BY DEF IsAnswer, AreLists
  <1>2. Len(answer.lines) \in Nat /\ DOMAIN answer.lines = 1..Len(answer.lines)
    BY <1>1, IsSeqMeans
  <1>3. \A n \in DOMAIN answer.lines :
          s[n] = IF n = 1 THEN answer.background \o answer.lines[1] ELSE answer.lines[n]
    BY DEF Scenarios
  <1>4. s = [n \in DOMAIN answer.lines |-> s[n]]
    BY DEF Scenarios
  <1> HIDE DEF s
  <1>5. IsSeq(s) /\ Len(s) = Len(answer.lines) /\ DOMAIN s = 1..Len(answer.lines)
    BY <1>2, <1>4, Mapped
  <1>6. ASSUME NEW n \in 1..Len(answer.lines) PROVE AreLines(s[n])
    <2>1. CASE n # 1
      BY <1>1, <1>2, <1>3, <2>1
    <2>2. CASE n = 1
      <3> DEFINE u == answer.background
                 v == answer.lines[1]
      <3>1. AreLines(u) /\ AreLines(v)
        BY <1>1, <1>2, <2>2
      <3>2. s[n] = u \o v
        BY <1>2, <1>3, <2>2
      <3> HIDE DEF u, v
      <3>3. /\ IsSeq(u) /\ IsSeq(v) /\ Len(u) \in Nat /\ Len(v) \in Nat
            /\ \A k \in 1..Len(u) : u[k].text # {}
            /\ \A k \in 1..Len(v) : v[k].text # {}
        BY <3>1, IsSeqMeans DEF AreLines
      <3>4. /\ IsSeq(u \o v) /\ Len(u \o v) = Len(u) + Len(v)
            /\ \A i \in 1..Len(u) : (u \o v)[i] = u[i]
            /\ \A i \in 1..Len(v) : (u \o v)[Len(u) + i] = v[i]
            /\ \A q \in 1..(Len(u) + Len(v)) : q \in 1..Len(u) \/ q - Len(u) \in 1..Len(v)
        BY <3>3, CatOf
      <3>5. ASSUME NEW q \in 1..(Len(u) + Len(v)) PROVE (u \o v)[q].text # {}
        <4>1. CASE q \in 1..Len(u)
          BY <3>3, <3>4, <4>1
        <4>2. CASE q - Len(u) \in 1..Len(v)
          <5>1. Len(u) + (q - Len(u)) = q
            BY <3>3
          <5>2. (u \o v)[q] = v[q - Len(u)]
            BY <3>4, <4>2, <5>1
          <5>3. QED
            BY <3>3, <4>2, <5>2
        <4>3. QED
          BY <3>4, <4>1, <4>2
      <3>6. DOMAIN (u \o v) = 1..(Len(u) + Len(v))
        BY <3>4, IsSeqMeans
      <3>7. QED
        BY <3>2, <3>4, <3>5, <3>6 DEF AreLines
    <2>3. QED
      BY <2>1, <2>2
  <1>7. SeqOfSeqs(s)
    BY <1>5, <1>6 DEF SeqOfSeqs, AreLines
  <1>8. QED
    BY <1>2, <1>5, <1>6, <1>7 DEF s

\* How many lines come before a scenario.
LEMMA OffsetIs ==
  ASSUME NEW ss, SeqOfSeqs(ss), NEW n \in 1..Len(ss)
  PROVE  Len(FlattenSeq(SubSeq(ss, 1, n - 1))) = Start(ss, n)
  <1> DEFINE m == n - 1
             tt == SubSeq(ss, 1, m)
  <1>1. IsSeq(ss) /\ Len(ss) \in Nat /\ \A k \in 1..Len(ss) : IsSeq(ss[k])
    BY IsSeqMeans DEF SeqOfSeqs
  <1>2. m \in 0..Len(ss) /\ 1 \in 1..(Len(ss) + 1) /\ 1 <= m + 1 /\ (m - 1) + 1 = m /\ m \in Nat
    BY <1>1
  <1>3. /\ IsSeq(tt) /\ Len(tt) = (m - 1) + 1
        /\ \A i \in 1..((m - 1) + 1) : tt[i] = ss[(1 + i) - 1]
    BY <1>1, <1>2, PartOf
  <1> HIDE DEF tt
  <1>4. Len(tt) = m /\ \A i \in 1..m : tt[i] = ss[i] /\ i \in 1..Len(ss)
    BY <1>1, <1>2, <1>3
  <1>5. SeqOfSeqs(tt)
    BY <1>1, <1>3, <1>4 DEF SeqOfSeqs
  <1>6. m \in 0..Len(tt)
    BY <1>2, <1>4
  <1>7. Upto(ss, m) = Upto(tt, m)
    BY <1>2, <1>4, <1>5, <1>6, UptoSame
  <1>8. FlattenSeq(tt) = Upto(tt, m)
    BY <1>4, <1>5, FlatUnfolds
  <1>9. Len(FlattenSeq(tt)) = Start(ss, n)
    BY <1>7, <1>8 DEF Start
  <1>10. QED
    BY <1>9 DEF tt

\* The lines as they are read: each with its text, its annotation and its scenario,
\* one scenario after the other.
LEMMA AnnotatedIs ==
  ASSUME NEW scenarios, SeqOfSeqs(scenarios), DOMAIN scenarios = 1..Len(scenarios),
         NEW aligned, Aligned(aligned, FlattenSeq(scenarios)),
         NEW lines, lines = Annotated(scenarios, aligned)
  PROVE  /\ IsSeq(lines) /\ Len(lines) = Len(FlattenSeq(scenarios))
         /\ \A j \in 1..Len(lines) :
              /\ lines[j].at \in 1..Len(scenarios)
              /\ lines[j].text = FlattenSeq(scenarios)[j].text
              /\ IsSeq(lines[j].annotation.events)
         /\ \A j, k \in 1..Len(lines) : j <= k => lines[j].at <= lines[k].at
  <1> DEFINE Offset(n) == Len(FlattenSeq(SubSeq(scenarios, 1, n - 1)))
             tt == [n \in DOMAIN scenarios |-> [k \in DOMAIN scenarios[n] |->
                      [keyword |-> scenarios[n][k].keyword, text |-> scenarios[n][k].text,
                       at |-> n, first |-> k = 1, annotation |-> aligned[Offset(n) + k]]]]
  <1>1. lines = FlattenSeq(tt)
    BY DEF Annotated
  <1>2. /\ Len(scenarios) \in Nat /\ DOMAIN scenarios = 1..Len(scenarios)
        /\ \A n \in 1..Len(scenarios) :
             /\ Len(scenarios[n]) \in Nat /\ DOMAIN scenarios[n] = 1..Len(scenarios[n])
    BY IsSeqMeans DEF SeqOfSeqs
  <1>3. /\ tt = [n \in DOMAIN scenarios |-> tt[n]]
        /\ \A n \in DOMAIN scenarios : tt[n] = [k \in DOMAIN scenarios[n] |-> tt[n][k]]
        /\ \A n \in DOMAIN scenarios : \A k \in DOMAIN scenarios[n] :
             /\ tt[n][k].text = scenarios[n][k].text /\ tt[n][k].at = n
             /\ tt[n][k].annotation = aligned[Offset(n) + k]
    OBVIOUS
  <1> HIDE DEF tt
  <1>4. IsSeq(tt) /\ Len(tt) = Len(scenarios)
    BY <1>2, <1>3, Mapped
  <1>5. ASSUME NEW n \in 1..Len(scenarios) PROVE IsSeq(tt[n]) /\ Len(tt[n]) = Len(scenarios[n])
    <2> DEFINE s == scenarios[n]
               t == tt[n]
    <2>1. Len(s) \in Nat /\ DOMAIN s = 1..Len(s) /\ t = [k \in DOMAIN s |-> t[k]]
      BY <1>2, <1>3
    <2> HIDE DEF s, t
    <2>2. IsSeq(t) /\ Len(t) = Len(s)
      BY <2>1, Mapped
    <2>3. QED
      BY <2>2 DEF s, t
  <1>6. SeqOfSeqs(tt)
    BY <1>4, <1>5 DEF SeqOfSeqs
  <1>7. /\ \A k \in 1..(Len(tt) + 1) : Start(tt, k) = Start(scenarios, k)
        /\ Len(FlattenSeq(tt)) = Len(FlattenSeq(scenarios))
    BY <1>4, <1>5, <1>6, FlatAlike
  <1>8. IsSeq(lines) /\ Len(lines) = Len(FlattenSeq(scenarios))
    BY <1>1, <1>6, <1>7, StartsOf
  <1>9. ASSUME NEW j \in 1..Len(lines)
        PROVE  \E n \in 1..Len(scenarios) : \E k \in 1..Len(scenarios[n]) :
                  j = Start(scenarios, n) + k /\ lines[j] = tt[n][k]
    <2>1. j \in 1..Len(FlattenSeq(tt))
      BY <1>1
    <2>2. PICK n \in 1..Len(tt) : \E k \in 1..Len(tt[n]) : j = Start(tt, n) + k
      BY <1>6, <2>1, FlatFrom
    <2>3. PICK k \in 1..Len(tt[n]) : j = Start(tt, n) + k
      BY <2>2
    <2>4. FlattenSeq(tt)[Start(tt, n) + k] = tt[n][k]
      BY <1>6, FlatPlaces
    <2>5. n \in 1..Len(scenarios) /\ n \in 1..(Len(tt) + 1)
      BY <1>2, <1>4
    <2>6. k \in 1..Len(scenarios[n]) /\ Start(tt, n) = Start(scenarios, n)
      BY <1>5, <1>7, <2>5
    <2>7. QED
      BY <1>1, <2>3, <2>4, <2>5, <2>6
  <1>10. ASSUME NEW j \in 1..Len(lines)
         PROVE  /\ lines[j].at \in 1..Len(scenarios)
                /\ lines[j].text = FlattenSeq(scenarios)[j].text
                /\ IsSeq(lines[j].annotation.events)
    <2>1. PICK n \in 1..Len(scenarios) : \E k \in 1..Len(scenarios[n]) :
                  j = Start(scenarios, n) + k /\ lines[j] = tt[n][k]
      BY <1>9
    <2>2. PICK k \in 1..Len(scenarios[n]) : j = Start(scenarios, n) + k /\ lines[j] = tt[n][k]
      BY <2>1
    <2>3. /\ tt[n][k].text = scenarios[n][k].text /\ tt[n][k].at = n
          /\ tt[n][k].annotation = aligned[Offset(n) + k]
      BY <1>2, <1>3
    <2>4. FlattenSeq(scenarios)[j] = scenarios[n][k] /\ j \in 1..Len(FlattenSeq(scenarios))
      BY <2>2, FlatPlaces
    <2>5. Offset(n) = Start(scenarios, n)
      BY OffsetIs
    <2> HIDE DEF Offset
    <2>6. tt[n][k].annotation = aligned[j]
      BY <2>2, <2>3, <2>5
    <2>7. IsSeq(aligned[j].events)
      BY <2>4 DEF Aligned
    <2>8. QED
      BY <2>2, <2>3, <2>4, <2>6, <2>7
  <1>11. ASSUME NEW i \in 1..Len(lines), NEW j \in 1..Len(lines), i <= j
         PROVE  lines[i].at <= lines[j].at
    <2>1. PICK n \in 1..Len(scenarios) : \E k \in 1..Len(scenarios[n]) :
                  i = Start(scenarios, n) + k /\ lines[i] = tt[n][k]
      BY <1>9
    <2>2. PICK k \in 1..Len(scenarios[n]) : i = Start(scenarios, n) + k /\ lines[i] = tt[n][k]
      BY <2>1
    <2>3. PICK m \in 1..Len(scenarios) : \E k2 \in 1..Len(scenarios[m]) :
                  j = Start(scenarios, m) + k2 /\ lines[j] = tt[m][k2]
      BY <1>9
    <2>4. PICK l \in 1..Len(scenarios[m]) : j = Start(scenarios, m) + l /\ lines[j] = tt[m][l]
      BY <2>3
    <2>5. lines[i].at = n /\ lines[j].at = m
      <3>1. n \in DOMAIN scenarios /\ k \in DOMAIN scenarios[n] /\ m \in DOMAIN scenarios /\ l \in DOMAIN scenarios[m]
        BY <1>2
      <3>2. tt[n][k].at = n /\ tt[m][l].at = m
        BY <1>3, <3>1
      <3>3. QED
        BY <2>2, <2>4, <3>2
    <2>6. SUFFICES ASSUME m < n PROVE FALSE
      BY <1>2, <2>5
    <2>7. Start(scenarios, m) + Len(scenarios[m]) <= Start(scenarios, n)
      <3>1. n \in 1..(Len(scenarios) + 1)
        BY <1>2
      <3>2. QED
        BY <2>6, <3>1, StartsGrow
    <2>8. Start(scenarios, m) \in Nat /\ Start(scenarios, n) \in Nat
      <3>1. n \in 1..(Len(scenarios) + 1) /\ m \in 1..(Len(scenarios) + 1)
        BY <1>2
      <3>2. QED
        BY <3>1, StartsOf
    <2> DEFINE p == Start(scenarios, m)
               q == Start(scenarios, n)
               len == Len(scenarios[m])
    <2>9. p \in Nat /\ q \in Nat /\ len \in Nat /\ k \in Nat /\ l \in 1..len /\ k >= 1
          /\ p + len <= q /\ i = q + k /\ j = p + l /\ i <= j
      BY <1>2, <1>11, <2>2, <2>4, <2>7, <2>8
    <2> HIDE DEF p, q, len
    <2>10. QED
      BY <2>9
  <1>12. QED
    BY <1>8, <1>10, <1>11

---------------------------------------------------------------------------
(* Reading the file. *)
StepsHold(rec, b, steps) == IsSeq(steps) /\ \A i \in 1..Len(steps) : StepHolds(rec, b, steps[i])

Reading(ctx, was, so, N) ==
    /\ so = [failed |-> so.failed, b |-> so.b, opener |-> so.opener, done |-> so.done]
    /\ IsBinding(so.b) /\ Extends(ctx, so.b, was) /\ AllTrue(ctx, was, so.b)
    /\ IsSeq(so.done) /\ Len(so.done) = N
    /\ \A n \in 1..N : StepsHold(ctx.rec, so.b, so.done[n])

\* A line makes a step, or puts a claim on the last one of its scenario.
NewStepRead(so, line, to) ==
    \E step : /\ step.claims = <<>> /\ step.text = line.text /\ to.b = so.b
              /\ to.done = [so.done EXCEPT ![line.at] = Append(so.done[line.at], step)]

ClaimRead(ctx, so, line, to) ==
    LET last == Last(so.done[line.at])
    IN /\ so.done[line.at] # <<>>
       /\ \E above, step :
            /\ above.claims = last.claims /\ above.text = last.text
            /\ Attached(ctx, so.b, above, line.text, [b |-> to.b, step |-> step])
            /\ to.done = [so.done EXCEPT ![line.at] = Append(Front(so.done[line.at]), step)]

\* The steps that hold of a log hold of every log that goes on from it.
LEMMA StepsGoOn ==
  ASSUME NEW ctx, NEW b, NEW c, IsBinding(b), IsBinding(c), Extends(ctx, c, b),
         NEW rec, NEW steps, StepsHold(rec, b, steps)
  PROVE  StepsHold(rec, c, steps)
  <1>1. IsLog(b.calls, b.cited) /\ IsLog(c.calls, c.cited) /\ Further(c, b)
    BY DEF IsBinding, Extends
  <1>2. \A i \in 1..Len(steps) : StepHolds(rec, c, steps[i])
    BY <1>1, StepGoesOn DEF StepsHold
  <1>3. QED
    BY <1>2 DEF StepsHold

\* A step more, or another last one.
LEMMA StepPut ==
  ASSUME NEW rec, NEW b, NEW steps, StepsHold(rec, b, steps), NEW step, StepHolds(rec, b, step)
  PROVE  /\ StepsHold(rec, b, Append(steps, step))
         /\ steps # <<>> => /\ StepsHold(rec, b, Append(Front(steps), step))
                            /\ StepHolds(rec, b, Last(steps))
  <1>1. ASSUME NEW s, StepsHold(rec, b, s) PROVE StepsHold(rec, b, Append(s, step))
    <2>1. IsSeq(s) /\ Len(s) \in Nat
      BY <1>1, IsSeqMeans DEF StepsHold
    <2>2. /\ IsSeq(Append(s, step)) /\ Len(Append(s, step)) = Len(s) + 1
          /\ \A i \in 1..Len(s) : Append(s, step)[i] = s[i]
          /\ Append(s, step)[Len(s) + 1] = step
      BY <2>1, Appended
    <2>3. ASSUME NEW i \in 1..(Len(s) + 1) PROVE StepHolds(rec, b, Append(s, step)[i])
      <3>1. i \in 1..Len(s) \/ i = Len(s) + 1
        BY <2>1
      <3>2. QED
        BY <1>1, <2>2, <3>1 DEF StepsHold
    <2>4. QED
      BY <2>2, <2>3 DEF StepsHold
  <1>2. ASSUME steps # <<>> PROVE StepsHold(rec, b, Front(steps)) /\ StepHolds(rec, b, Last(steps))
    <2>1. IsSeq(steps)
      BY DEF StepsHold
    <2>2. /\ Len(steps) \in Nat \ {0} /\ IsSeq(Front(steps)) /\ Len(Front(steps)) = Len(steps) - 1
          /\ \A i \in 1..(Len(steps) - 1) : Front(steps)[i] = steps[i]
          /\ Last(steps) = steps[Len(steps)]
      BY <1>2, <2>1, FrontIs
    <2>3. Len(steps) \in 1..Len(steps) /\ \A i \in 1..(Len(steps) - 1) : i \in 1..Len(steps)
      BY <2>2
    <2>4. QED
      BY <2>2, <2>3 DEF StepsHold
  <1>3. QED
    BY <1>1, <1>2

\* A step with other events.
LEMMA StepOver ==
  ASSUME NEW rec, NEW b, NEW step, StepHolds(rec, b, step), NEW events, IsSeq(events),
         ToSet(events) \subseteq Ids(rec), NEW s, s = [step EXCEPT !.events = events]
  PROVE  StepHolds(rec, b, s) /\ s.claims = step.claims /\ s.text = step.text /\ s.id = step.id
  <1>1. step = [id |-> step.id, keyword |-> step.keyword, role |-> step.role, text |-> step.text,
                events |-> step.events, claims |-> step.claims, whyNot |-> step.whyNot,
                bug |-> step.bug, low |-> step.low]
    BY DEF StepHolds, IsDraft
  <1>2. /\ s = [id |-> step.id, keyword |-> step.keyword, role |-> step.role, text |-> step.text,
                events |-> events, claims |-> step.claims, whyNot |-> step.whyNot,
                bug |-> step.bug, low |-> step.low]
    BY <1>1
  <1>3. /\ s.id = step.id /\ s.keyword = step.keyword /\ s.role = step.role /\ s.text = step.text
        /\ s.events = events /\ s.claims = step.claims /\ s.whyNot = step.whyNot
        /\ s.bug = step.bug /\ s.low = step.low
    BY <1>2
  <1>4. QED
    BY <1>2, <1>3 DEF StepHolds, IsDraft

\* A step as it begins.
Begun(rec, b, step, text) == StepHolds(rec, b, step) /\ step.claims = <<>> /\ step.text = text

\* What NewStep makes is one.
LEMMA NewStepIs ==
  ASSUME NEW ctx, NEW b, NEW id, NEW keyword, NEW text, NEW raw, IsSeq(raw.events),
         NEW step, NewStep(ctx, id, keyword, text, raw) = step
  PROVE  Begun(ctx.rec, b, step, text)
  <1> DEFINE events == Known(ctx.rec, raw.events)
  <1>1. step = [id |-> id, keyword |-> keyword, role |-> raw.role, text |-> text, events |-> events,
                claims |-> <<>>, whyNot |-> raw.whyNot, bug |-> raw.bug, low |-> FALSE]
    BY DEF NewStep
  <1>2. IsSeq(events) /\ ToSet(events) \subseteq Ids(ctx.rec)
    BY KnownIs
  <1> HIDE DEF events
  <1>3. /\ step.id = id /\ step.keyword = keyword /\ step.role = raw.role /\ step.text = text
        /\ step.events = events /\ step.claims = <<>> /\ step.whyNot = raw.whyNot
        /\ step.bug = raw.bug /\ step.low = FALSE
    BY <1>1
  <1>4. IsDraft(ctx.rec, step)
    BY <1>1, <1>2, <1>3, None DEF IsDraft
  <1>5. QED
    BY <1>3, <1>4, None DEF StepHolds, Begun

\* One line read (_from_feature): a new step, or one more claim of the step before it.
LEMMA ReadLineIs ==
  ASSUME NEW ctx, ctx.rec \in Recordings, NEW was, IsBinding(was), NEW N \in Nat, NEW so,
         Reading(ctx, was, so, N),
         NEW line, line.at \in 1..N, IsSeq(line.annotation.events),
         NEW to, to = ReadLine(ctx, so, line)
  PROVE  /\ Reading(ctx, was, to, N)
         /\ to.failed \/ (~so.failed /\ (NewStepRead(so, line, to) \/ ClaimRead(ctx, so, line, to)))
  <1> DEFINE at == line.at
             steps == so.done[at]
             raw == line.annotation
             opener == IF line.keyword \in Openers THEN line.keyword
                       ELSE IF line.first THEN "" ELSE so.opener
             last == Last(steps)
             events == Taken(ctx.rec, last.events, raw.events)
             above == [last EXCEPT !.events = events]
             id1 == IF raw.id = <<>> THEN <<"step", Len(FlattenSeq(so.done)) + 1>> ELSE raw.id
             step == NewStep(ctx, id1, line.keyword, line.text, raw)
             bound == AttachClaim(ctx, so.b, above, line.text, raw)
             grown == Append(steps, step)
             put == Append(Front(steps), bound.step)
             verdict == IsVerdict(line.keyword, opener, raw.kind)
  <1>1. to = IF so.failed THEN so
             ELSE IF ~verdict
             THEN [so EXCEPT !.opener = opener, !.done = [so.done EXCEPT ![at] = grown]]
             ELSE IF steps = <<>> THEN [so EXCEPT !.failed = TRUE]
             ELSE [so EXCEPT !.opener = opener, !.b = bound.b, !.done = [so.done EXCEPT ![at] = put]]
    BY DEF ReadLine, PutClaim, Taken
  <1>2. /\ so = [failed |-> so.failed, b |-> so.b, opener |-> so.opener, done |-> so.done]
        /\ IsBinding(so.b) /\ Extends(ctx, so.b, was) /\ AllTrue(ctx, was, so.b)
        /\ IsSeq(so.done) /\ Len(so.done) = N
        /\ \A n \in 1..N : StepsHold(ctx.rec, so.b, so.done[n])
    BY DEF Reading
  <1>3. StepsHold(ctx.rec, so.b, steps)
    BY <1>2
  <1>6. line.at = at /\ so.done[at] = steps /\ at \in 1..Len(so.done)
    BY <1>2
  <1>7. last = Last(steps) /\ grown = Append(steps, step) /\ put = Append(Front(steps), bound.step)
    OBVIOUS
  <1>8. bound = AttachClaim(ctx, so.b, above, line.text, raw)
    OBVIOUS
  <1>14. step = NewStep(ctx, id1, line.keyword, line.text, raw) /\ IsSeq(raw.events)
    OBVIOUS
  <1>15. events = Taken(ctx.rec, last.events, raw.events) /\ above = [last EXCEPT !.events = events]
    OBVIOUS
  <1> HIDE DEF at, steps, raw, opener, last, events, above, id1, step, bound, grown, put, verdict
  <1>4. StepHolds(ctx.rec, so.b, step) /\ step.claims = <<>> /\ step.text = line.text
    <2> DEFINE b == so.b
               keyword == line.keyword
               text == line.text
    <2>1. NewStep(ctx, id1, keyword, text, raw) = step
      BY <1>14
    <2> HIDE DEF b, keyword, text
    <2>2. Begun(ctx.rec, b, step, text)
      BY <1>14, <2>1, NewStepIs, Zenon
    <2>3. QED
      BY <2>2 DEF b, text, Begun
  <1>5. steps # <<>> =>
          /\ StepHolds(ctx.rec, so.b, above) /\ above.claims = last.claims /\ above.text = last.text
    <2>1. SUFFICES ASSUME steps # <<>>
          PROVE StepHolds(ctx.rec, so.b, above) /\ above.claims = last.claims /\ above.text = last.text
      OBVIOUS
    <2>2. StepHolds(ctx.rec, so.b, last)
      BY <1>3, <1>4, <1>7, <2>1, StepPut
    <2>3. IsSeq(last.events) /\ ToSet(last.events) \subseteq Ids(ctx.rec)
      BY <2>2 DEF StepHolds, IsDraft
    <2>4. IsSeq(events) /\ ToSet(events) \subseteq Ids(ctx.rec)
      BY <2>3, <1>14, <1>15, MoreEvents
    <2>5. QED
      BY <2>2, <2>4, <1>15, StepOver
  <1>9. CASE so.failed
    BY <1>1, <1>9
  <1>10. CASE ~so.failed /\ ~verdict
    <2> DEFINE done == [so.done EXCEPT ![at] = grown]
    <2>1. to = [so EXCEPT !.opener = opener, !.done = done]
      BY <1>1, <1>10
    <2>2. /\ IsSeq(done) /\ Len(done) = Len(so.done) /\ done[at] = grown
          /\ \A j \in 1..Len(so.done) : j # at => done[j] = so.done[j]
      BY <1>2, <1>6, ReplacedAt
    <2>3. StepsHold(ctx.rec, so.b, grown)
      BY <1>3, <1>4, <1>7, StepPut
    <2>9. done = [so.done EXCEPT ![line.at] = Append(so.done[line.at], step)]
      BY <1>6, <1>7
    <2> HIDE DEF done
    <2>4. /\ to.failed = so.failed /\ to.b = so.b /\ to.done = done
          /\ to = [failed |-> to.failed, b |-> to.b, opener |-> to.opener, done |-> to.done]
      BY <1>2, <2>1
    <2>5. \A n \in 1..N : StepsHold(ctx.rec, so.b, done[n])
      BY <1>2, <1>6, <2>2, <2>3
    <2>6. Reading(ctx, was, to, N)
      BY <1>2, <2>2, <2>4, <2>5 DEF Reading
    <2>7. NewStepRead(so, line, to)
      BY <1>4, <2>4, <2>9 DEF NewStepRead
    <2>8. QED
      BY <1>10, <2>6, <2>7
  <1>11. CASE ~so.failed /\ verdict /\ steps = <<>>
    <2>1. to = [so EXCEPT !.failed = TRUE]
      BY <1>1, <1>11
    <2>2. /\ to.failed /\ to.b = so.b /\ to.done = so.done
          /\ to = [failed |-> to.failed, b |-> to.b, opener |-> to.opener, done |-> to.done]
      BY <1>2, <2>1
    <2>3. QED
      BY <1>2, <2>2 DEF Reading
  <1>12. CASE ~so.failed /\ verdict /\ steps # <<>>
    <2> DEFINE done == [so.done EXCEPT ![at] = put]
               pair == [b |-> bound.b, step |-> bound.step]
    <2>1. to = [so EXCEPT !.opener = opener, !.b = bound.b, !.done = done]
      BY <1>1, <1>12
    <2>2. /\ IsSeq(done) /\ Len(done) = Len(so.done) /\ done[at] = put
          /\ \A j \in 1..Len(so.done) : j # at => done[j] = so.done[j]
      BY <1>2, <1>6, ReplacedAt
    <2>3. StepHolds(ctx.rec, so.b, above) /\ IsDraft(ctx.rec, above)
      BY <1>5, <1>12 DEF StepHolds
    <2>4. Attached(ctx, so.b, above, line.text, bound)
      BY <1>2, <1>8, <2>3, AttachedIs
    <2>5. StepHolds(ctx.rec, bound.b, bound.step)
      BY <1>2, <2>3, <2>4, AttachedHolds
    <2>6. AllTrue(ctx, was, bound.b) /\ Extends(ctx, bound.b, was)
      BY <1>2, <2>4, AttachedTrue
    <2>7. IsBinding(bound.b) /\ Extends(ctx, bound.b, so.b) /\ bound = pair
      BY <2>4 DEF Attached
    <2>8. \A n \in 1..N : StepsHold(ctx.rec, bound.b, so.done[n])
      BY <1>2, <2>7, StepsGoOn
    <2>9. StepsHold(ctx.rec, bound.b, put)
      <3>1. StepsHold(ctx.rec, bound.b, steps)
        BY <1>6, <1>2, <2>8
      <3>2. QED
        BY <1>7, <1>12, <2>5, <3>1, StepPut
    <2>10. done = [so.done EXCEPT ![line.at] = Append(Front(so.done[line.at]), bound.step)]
      BY <1>6, <1>7
    <2> HIDE DEF done
    <2>11. /\ to.failed = so.failed /\ to.b = bound.b /\ to.done = done
           /\ to = [failed |-> to.failed, b |-> to.b, opener |-> to.opener, done |-> to.done]
      BY <1>2, <2>1
    <2>12. \A n \in 1..N : StepsHold(ctx.rec, bound.b, done[n])
      BY <1>2, <1>6, <2>2, <2>8, <2>9
    <2>13. Reading(ctx, was, to, N)
      BY <1>2, <2>2, <2>6, <2>7, <2>11, <2>12 DEF Reading
    <2>14. Attached(ctx, so.b, above, line.text, [b |-> to.b, step |-> bound.step])
      BY <2>4, <2>7, <2>11
    <2>15. ClaimRead(ctx, so, line, to)
      <3>1. above.claims = Last(so.done[line.at]).claims /\ above.text = Last(so.done[line.at]).text
        BY <1>5, <1>6, <1>7, <1>12
      <3>2. so.done[line.at] # <<>>
        BY <1>6, <1>12
      <3>3. to.done = [so.done EXCEPT ![line.at] = Append(Front(so.done[line.at]), bound.step)]
        BY <2>10, <2>11
      <3>4. QED
        BY <3>1, <3>2, <3>3, <2>14 DEF ClaimRead
    <2>16. QED
      BY <1>12, <2>13, <2>15
  <1>13. QED
    BY <1>9, <1>10, <1>11, <1>12

\* Nothing has been read yet.
LEMMA BeganIs ==
  ASSUME NEW ctx, NEW was, IsBinding(was), was.refused = <<>>, NEW N \in Nat,
         NEW so, so = [failed |-> so.failed, b |-> so.b, opener |-> so.opener, done |-> so.done],
         so.b = was, so.done = [n \in 1..N |-> <<>>]
  PROVE  Reading(ctx, was, so, N)
  <1> DEFINE done == so.done
  <1>1. done = [n \in 1..N |-> <<>>]
    OBVIOUS
  <1> HIDE DEF done
  <1>2. IsSeq(done) /\ Len(done) = N
    <2>1. DOMAIN done = 1..N /\ done = [n \in 1..N |-> done[n]]
      BY <1>1
    <2>2. QED
      BY <2>1, Made
  <1>7. \A i \in 1..Len(<<>>) : FALSE
    BY None
  <1>3. \A n \in 1..N : StepsHold(ctx.rec, was, done[n])
    <2>1. StepsHold(ctx.rec, was, <<>>)
      BY <1>7, None DEF StepsHold
    <2>2. \A n \in 1..N : done[n] = <<>>
      BY <1>1
    <2>3. QED
      BY <2>1, <2>2
  <1>4. AllTrue(ctx, was, was)
    BY <1>7 DEF AllTrue
  <1>5. Extends(ctx, was, was)
    BY ExtendsSelf
  <1>6. QED
    BY <1>2, <1>3, <1>4, <1>5 DEF Reading, done

\* The reading is given up.
LEMMA GivenUp ==
  ASSUME NEW so, so = [failed |-> so.failed, b |-> so.b, opener |-> so.opener, done |-> so.done],
         NEW to, to = [so EXCEPT !.failed = TRUE]
  PROVE  /\ to.failed /\ to.b = so.b /\ to.done = so.done
         /\ to = [failed |-> to.failed, b |-> to.b, opener |-> to.opener, done |-> to.done]
  OBVIOUS

\* What is read stays well, line after line.
LEMMA LinesRead ==
  ASSUME NEW ctx, ctx.rec \in Recordings, NEW was, IsBinding(was), NEW N \in Nat,
         NEW lines, IsSeq(lines),
         \A k \in 1..Len(lines) : lines[k].at \in 1..N /\ IsSeq(lines[k].annotation.events),
         NEW f, Reading(ctx, was, f[0], N),
         \A k \in 1..Len(lines) : f[k] = ReadLine(ctx, f[k - 1], lines[k])
  PROVE  \A k \in 0..Len(lines) : Reading(ctx, was, f[k], N)
  <1> DEFINE M == Len(lines)
             T == {k \in 0..M : Reading(ctx, was, f[k], N)}
  <1>1. M \in Nat
    BY IsSeqMeans
  <1>2. 0 \in T
    BY <1>1
  <1>3. ASSUME NEW k \in 0..(M - 1), k \in T PROVE k + 1 \in T
    <2>1. k + 1 \in 1..M /\ (k + 1) - 1 = k /\ k + 1 \in 0..M
      BY <1>1
    <2>2. f[k + 1] = ReadLine(ctx, f[k], lines[k + 1])
      BY <2>1
    <2>3. Reading(ctx, was, f[k], N)
      BY <1>3
    <2>4. lines[k + 1].at \in 1..N /\ IsSeq(lines[k + 1].annotation.events)
      BY <2>1
    <2>5. Reading(ctx, was, f[k + 1], N)
      BY <2>2, <2>3, <2>4, ReadLineIs
    <2>6. QED
      BY <2>1, <2>5
  <1> HIDE DEF M, T
  <1>4. \A k \in 0..M : k \in T
    BY <1>1, <1>2, <1>3, StepByStep
  <1>5. QED
    BY <1>4 DEF M, T

\* How a file is read: its lines one after the other, from nothing.
ReadBy(ctx, was, answer, file, lines, f) ==
    /\ IsSeq(lines) /\ Len(lines) = Len(FlattenSeq(Scenarios(answer)))
    /\ \A j \in 1..Len(lines) :
         /\ lines[j].at \in 1..Len(answer.lines)
         /\ lines[j].text = FlattenSeq(Scenarios(answer))[j].text /\ lines[j].text # {}
         /\ IsSeq(lines[j].annotation.events)
    /\ \A j, k \in 1..Len(lines) : j <= k => lines[j].at <= lines[k].at
    /\ f[0].b = was /\ \A n \in 1..Len(answer.lines) : f[0].done[n] = <<>>
    /\ \A k \in 0..Len(lines) : Reading(ctx, was, f[k], Len(answer.lines))
    /\ \A k \in 1..Len(lines) : f[k] = ReadLine(ctx, f[k - 1], lines[k])
    /\ file = f[Len(lines)]

\* The whole file read, one line after the other, unless it fails.
LEMMA FileIs ==
  ASSUME NEW ctx, ctx.rec \in Recordings, NEW was, IsBinding(was), was.refused = <<>>,
         NEW answer, IsAnswer(answer), NEW file, file = FromFeature(ctx, was, answer)
  PROVE  /\ Reading(ctx, was, file, Len(answer.lines))
         /\ file.failed \/ \E lines, f : ReadBy(ctx, was, answer, file, lines, f)
  <1> DEFINE scenarios == Scenarios(answer)
             N == Len(answer.lines)
             written == FlattenSeq(scenarios)
             aligned == Align(written, answer.annotations)
             done == [n \in DOMAIN scenarios |-> <<>>]
             start == [failed |-> FALSE, b |-> was, opener |-> "", done |-> done]
             lines == Annotated(scenarios, aligned)
  <1>1. file = IF aligned = <<>> THEN [start EXCEPT !.failed = TRUE] ELSE ReadLines(ctx, start, lines)
    BY DEF FromFeature
  <1>2. /\ SeqOfSeqs(scenarios) /\ Len(scenarios) = N /\ DOMAIN scenarios = 1..N /\ N \in Nat
        /\ \A n \in 1..N : AreLines(scenarios[n])
    BY ScenariosAre
  <1>3. IsSeq(written)
    BY <1>2, StartsOf
  <1>4. aligned = <<>> \/ Aligned(aligned, written)
    <2>1. AreAnnotations(answer.annotations)
      BY DEF IsAnswer
    <2> HIDE DEF written
    <2>2. QED
      BY <1>3, <2>1, AlignIs
  <1>5. done = [n \in 1..N |-> <<>>] /\ \A n \in 1..N : done[n] = <<>>
    BY <1>2
  <1>11. start = [failed |-> FALSE, b |-> was, opener |-> "", done |-> done]
    OBVIOUS
  <1> DEFINE over == [start EXCEPT !.failed = TRUE]
  <1> HIDE DEF done, start
  <1>14. over = [start EXCEPT !.failed = TRUE]
    OBVIOUS
  <1> HIDE DEF over
  <1>7. /\ start.b = was /\ start.done = done
        /\ start = [failed |-> start.failed, b |-> start.b, opener |-> start.opener, done |-> start.done]
    BY <1>11
  <1>6. /\ over.failed /\ over.b = was /\ over.done = done
        /\ over = [failed |-> over.failed, b |-> over.b, opener |-> over.opener, done |-> over.done]
    BY <1>7, <1>14, GivenUp
  <1>12. aligned = <<>> => file = over
    BY <1>1, <1>14
  <1>13. Reading(ctx, was, start, N) /\ Reading(ctx, was, over, N)
    <2> HIDE DEF N
    <2>1. Reading(ctx, was, start, N)
      BY <1>2, <1>5, <1>7, BeganIs
    <2>2. Reading(ctx, was, over, N)
      BY <1>2, <1>5, <1>6, BeganIs
    <2>3. QED
      BY <2>1, <2>2
  <1>8. CASE aligned = <<>>
    BY <1>6, <1>8, <1>12, <1>13
  <1>9. CASE aligned # <<>>
    <2>1. Aligned(aligned, written)
      BY <1>4, <1>9
    <2>2. /\ IsSeq(lines) /\ Len(lines) = Len(written)
          /\ \A j \in 1..Len(lines) :
               /\ lines[j].at \in 1..N
               /\ lines[j].text = written[j].text
               /\ IsSeq(lines[j].annotation.events)
          /\ \A j, k \in 1..Len(lines) : j <= k => lines[j].at <= lines[k].at
      <3>1. lines = Annotated(scenarios, aligned) /\ Aligned(aligned, FlattenSeq(scenarios))
            /\ DOMAIN scenarios = 1..Len(scenarios) /\ written = FlattenSeq(scenarios)
        BY <1>2, <2>1
      <3> HIDE DEF lines, scenarios, aligned, written
      <3>2. QED
        BY <1>2, <3>1, AnnotatedIs
    <2>3. \A j \in 1..Len(written) : written[j].text # {}
      <3>1. SUFFICES ASSUME NEW j \in 1..Len(written) PROVE written[j].text # {}
        OBVIOUS
      <3>2. PICK n \in 1..Len(scenarios) : \E k \in 1..Len(scenarios[n]) : j = Start(scenarios, n) + k
        BY <1>2, FlatFrom
      <3>3. PICK k \in 1..Len(scenarios[n]) : j = Start(scenarios, n) + k
        BY <3>2
      <3>4. written[j] = scenarios[n][k]
        BY <1>2, <3>3, FlatPlaces
      <3>5. AreLines(scenarios[n])
        BY <1>2
      <3>6. scenarios[n][k].text # {}
        BY <3>5, IsSeqMeans DEF AreLines
      <3>7. QED
        BY <3>4, <3>6
    <2>4. file = ReadLines(ctx, start, lines)
      BY <1>1, <1>9
    <2> HIDE DEF lines, aligned, written, scenarios, N
    <2>5. PICK f : /\ f[0] = start
                   /\ \A k \in 1..Len(lines) : f[k] = ReadLine(ctx, f[k - 1], lines[k])
                   /\ ReadLines(ctx, start, lines) = f[Len(lines)]
      BY <2>2, LinesFold
    <2>6. Reading(ctx, was, f[0], N) /\ f[0].b = was /\ f[0].done = done
      BY <1>7, <1>13, <2>5 DEF N
    <2>7. \A k \in 0..Len(lines) : Reading(ctx, was, f[k], N)
      BY <1>2, <2>2, <2>5, <2>6, LinesRead
    <2>8. Len(lines) \in 0..Len(lines)
      BY <2>2, IsSeqMeans
    <2>9. Reading(ctx, was, file, N)
      BY <2>4, <2>5, <2>7, <2>8
    <2>10. ReadBy(ctx, was, answer, file, lines, f)
      BY <1>5, <2>2, <2>3, <2>4, <2>5, <2>6, <2>7 DEF ReadBy, written, scenarios, N
    <2>11. QED
      BY <2>9, <2>10 DEF N
  <1>10. QED
    BY <1>8, <1>9

---------------------------------------------------------------------------
(* Reading the steps. *)
RawReading(ctx, was, so) ==
    /\ so = [b |-> so.b, steps |-> so.steps]
    /\ IsBinding(so.b) /\ Extends(ctx, so.b, was) /\ AllTrue(ctx, was, so.b)
    /\ StepsHold(ctx.rec, so.b, so.steps)

\* A step in the place of another.
LEMMA StepReplaced ==
  ASSUME NEW rec, NEW b, NEW steps, StepsHold(rec, b, steps), NEW step, StepHolds(rec, b, step),
         NEW i \in 1..Len(steps)
  PROVE  StepsHold(rec, b, ReplaceAt(steps, i, step))
  <1>1. IsSeq(steps)
    BY DEF StepsHold
  <1>2. /\ IsSeq([steps EXCEPT ![i] = step]) /\ Len([steps EXCEPT ![i] = step]) = Len(steps)
        /\ [steps EXCEPT ![i] = step][i] = step
        /\ \A j \in 1..Len(steps) : j # i => [steps EXCEPT ![i] = step][j] = steps[j]
    BY <1>1, ReplacedAt
  <1>3. \A j \in 1..Len(steps) : StepHolds(rec, b, [steps EXCEPT ![i] = step][j])
    BY <1>2 DEF StepsHold
  <1>4. StepsHold(rec, b, [steps EXCEPT ![i] = step])
    BY <1>2, <1>3 DEF StepsHold
  <1>5. QED
    BY <1>4 DEF ReplaceAt

\* The smallest of some places.
LEMMA MinOf ==
  ASSUME NEW S \in SUBSET Nat, S # {}
  PROVE  Min(S) \in S
  <1>1. PICK n \in S : \A m \in S : n <= m
    BY LeastOf
  <1>2. QED
    BY <1>1 DEF Min

\* What one raw step makes of the others.
LEMMA ReadStepIs ==
  ASSUME NEW ctx, ctx.rec \in Recordings, NEW was, IsBinding(was), NEW so, RawReading(ctx, was, so),
         NEW raw, IsSeq(raw.events), NEW index, NEW to, to = ReadStep(ctx, so, raw, index)
  PROVE  RawReading(ctx, was, to)
  <1> DEFINE id == IF raw.id = <<>> THEN <<"step", index>> ELSE raw.id
             text == raw.line
             step == NewStep(ctx, id, "When", text, raw)
             expected == raw.expected
             bound == AttachClaim(ctx, so.b, step, expected, raw)
             same == {i \in DOMAIN so.steps : so.steps[i].id = bound.step.id}
             steps == IF same = {} THEN Append(so.steps, bound.step)
                      ELSE ReplaceAt(so.steps, Min(same), bound.step)
  <1>1. to = IF raw.line = {} THEN so ELSE [b |-> bound.b, steps |-> steps]
    BY DEF ReadStep, PutStep
  <1>2. NewStep(ctx, id, "When", text, raw) = step
    OBVIOUS
  <1>3. bound = AttachClaim(ctx, so.b, step, expected, raw)
    OBVIOUS
  <1>4. /\ so = [b |-> so.b, steps |-> so.steps]
        /\ IsBinding(so.b) /\ Extends(ctx, so.b, was) /\ AllTrue(ctx, was, so.b)
        /\ StepsHold(ctx.rec, so.b, so.steps)
    BY DEF RawReading
  <1> HIDE DEF id, text, step, expected, bound, steps
  <1>5. Begun(ctx.rec, so.b, step, text)
    <2> DEFINE b == so.b
    <2> HIDE DEF b
    <2>1. Begun(ctx.rec, b, step, text)
      BY <1>2, NewStepIs, Zenon
    <2>2. QED
      BY <2>1 DEF b
  <1>6. StepHolds(ctx.rec, so.b, step) /\ IsDraft(ctx.rec, step)
    BY <1>5 DEF Begun, StepHolds
  <1>7. Attached(ctx, so.b, step, expected, bound)
    BY <1>3, <1>4, <1>6, AttachedIs
  <1>8. StepHolds(ctx.rec, bound.b, bound.step)
    BY <1>4, <1>6, <1>7, AttachedHolds
  <1>9. AllTrue(ctx, was, bound.b) /\ Extends(ctx, bound.b, was)
    BY <1>4, <1>7, AttachedTrue
  <1>10. IsBinding(bound.b) /\ Extends(ctx, bound.b, so.b)
    BY <1>7 DEF Attached
  <1>11. StepsHold(ctx.rec, bound.b, so.steps)
    BY <1>4, <1>10, StepsGoOn
  <1>12. StepsHold(ctx.rec, bound.b, steps)
    <2>1. CASE same = {}
      <3>1. steps = Append(so.steps, bound.step)
        BY <2>1 DEF steps
      <3>2. QED
        BY <1>8, <1>11, <3>1, StepPut
    <2>2. CASE same # {}
      <3>1. steps = ReplaceAt(so.steps, Min(same), bound.step)
        BY <2>2 DEF steps
      <3>2. IsSeq(so.steps)
        BY <1>4 DEF StepsHold
      <3>3. DOMAIN so.steps = 1..Len(so.steps) /\ Len(so.steps) \in Nat
        BY <3>2, IsSeqMeans
      <3>4. same \in SUBSET (1..Len(so.steps)) /\ same \in SUBSET Nat
        BY <3>3
      <3>5. Min(same) \in 1..Len(so.steps)
        BY <2>2, <3>4, MinOf
      <3>6. QED
        BY <1>8, <1>11, <3>1, <3>5, StepReplaced
    <2>3. QED
      BY <2>1, <2>2
  <1>13. CASE raw.line = {}
    BY <1>1, <1>13
  <1>14. CASE raw.line # {}
    <2>1. to = [b |-> bound.b, steps |-> steps]
      BY <1>1, <1>14
    <2>2. to.b = bound.b /\ to.steps = steps /\ to = [b |-> to.b, steps |-> to.steps]
      BY <2>1
    <2>3. QED
      BY <1>9, <1>10, <1>12, <2>2 DEF RawReading
  <1>15. QED
    BY <1>13, <1>14

\* Whatever the steps are, what is read of them is well.
LEMMA StepsRead ==
  ASSUME NEW ctx, ctx.rec \in Recordings, NEW was, IsBinding(was), was.refused = <<>>,
         NEW answer, IsAnswer(answer), NEW to, to = ReadSteps(ctx, was, answer)
  PROVE  RawReading(ctx, was, to)
  <1> DEFINE raws == answer.steps
             places == [i \in DOMAIN answer.steps |-> i]
             start == [b |-> was, steps |-> <<>>]
             M == Len(places)
  <1>1. to = ReadRaws(ctx, raws, start, places)
    BY DEF ReadSteps
  <1>2. /\ IsSeq(raws) /\ \A k \in DOMAIN raws : IsSeq(raws[k].events)
    BY DEF IsAnswer, AreAnnotations
  <1>3. Len(raws) \in Nat /\ DOMAIN raws = 1..Len(raws)
    BY <1>2, IsSeqMeans
  <1>4. places = [i \in DOMAIN raws |-> places[i]] /\ \A i \in DOMAIN raws : places[i] = i
    OBVIOUS
  <1>5. start.b = was /\ start.steps = <<>> /\ start = [b |-> start.b, steps |-> start.steps]
    OBVIOUS
  <1> HIDE DEF raws, places, start
  <1>6. IsSeq(places) /\ Len(places) = Len(raws) /\ DOMAIN places = 1..Len(raws)
    BY <1>3, <1>4, Mapped
  <1>7. PICK f : /\ f[0] = start
                 /\ \A k \in 1..Len(places) : f[k] = ReadStep(ctx, f[k - 1], raws[places[k]], places[k])
                 /\ ReadRaws(ctx, raws, start, places) = f[Len(places)]
    BY <1>6, RawsFold
  <1>8. RawReading(ctx, was, start)
    <2>1. \A i \in 1..Len(<<>>) : FALSE
      BY None
    <2>2. AllTrue(ctx, was, was)
      BY <2>1 DEF AllTrue
    <2>3. Extends(ctx, was, was)
      BY ExtendsSelf
    <2>4. StepsHold(ctx.rec, was, <<>>)
      BY <2>1, None DEF StepsHold
    <2>5. QED
      BY <1>5, <2>2, <2>3, <2>4 DEF RawReading
  <1> DEFINE T == {k \in 0..M : RawReading(ctx, was, f[k])}
  <1>9. M \in Nat
    BY <1>6, IsSeqMeans
  <1>10. 0 \in T
    BY <1>7, <1>8, <1>9
  <1>11. ASSUME NEW k \in 0..(M - 1), k \in T PROVE k + 1 \in T
    <2>1. k + 1 \in 1..M /\ (k + 1) - 1 = k /\ k + 1 \in 0..M
      BY <1>9
    <2>2. f[k + 1] = ReadStep(ctx, f[k], raws[places[k + 1]], places[k + 1])
      BY <1>7, <2>1
    <2>3. RawReading(ctx, was, f[k])
      BY <1>11
    <2>4. IsSeq(raws[places[k + 1]].events)
      BY <1>2, <1>3, <1>4, <1>6, <2>1
    <2>5. RawReading(ctx, was, f[k + 1])
      BY <2>2, <2>3, <2>4, ReadStepIs
    <2>6. QED
      BY <2>1, <2>5
  <1> HIDE DEF T, M
  <1>12. \A k \in 0..M : k \in T
    BY <1>9, <1>10, <1>11, StepByStep
  <1>13. M \in 0..M
    BY <1>9
  <1>14. RawReading(ctx, was, f[M])
    BY <1>12, <1>13 DEF T
  <1>15. QED
    BY <1>1, <1>7, <1>14 DEF M

---------------------------------------------------------------------------
(* The scenarios. *)
ScenariosHold(rec, b, scenarios) ==
    IsSeq(scenarios) /\ \A n \in 1..Len(scenarios) : StepsHold(rec, b, scenarios[n])

\* One scenario more, or another last one.
LEMMA ScenarioPut ==
  ASSUME NEW rec, NEW b, NEW scenarios, ScenariosHold(rec, b, scenarios),
         NEW steps, StepsHold(rec, b, steps)
  PROVE  /\ ScenariosHold(rec, b, Append(scenarios, steps))
         /\ scenarios # <<>> => /\ ScenariosHold(rec, b, Append(Front(scenarios), steps))
                                /\ StepsHold(rec, b, Last(scenarios))
  <1>1. ASSUME NEW s, ScenariosHold(rec, b, s) PROVE ScenariosHold(rec, b, Append(s, steps))
    <2>1. IsSeq(s) /\ Len(s) \in Nat
      BY <1>1, IsSeqMeans DEF ScenariosHold
    <2>2. /\ IsSeq(Append(s, steps)) /\ Len(Append(s, steps)) = Len(s) + 1
          /\ \A i \in 1..Len(s) : Append(s, steps)[i] = s[i]
          /\ Append(s, steps)[Len(s) + 1] = steps
      BY <2>1, Appended
    <2>3. ASSUME NEW i \in 1..(Len(s) + 1) PROVE StepsHold(rec, b, Append(s, steps)[i])
      <3>1. i \in 1..Len(s) \/ i = Len(s) + 1
        BY <2>1
      <3>2. QED
        BY <1>1, <2>2, <3>1 DEF ScenariosHold
    <2>4. QED
      BY <2>2, <2>3 DEF ScenariosHold
  <1>2. ASSUME scenarios # <<>>
        PROVE  ScenariosHold(rec, b, Front(scenarios)) /\ StepsHold(rec, b, Last(scenarios))
    <2>1. IsSeq(scenarios)
      BY DEF ScenariosHold
    <2>2. /\ Len(scenarios) \in Nat \ {0} /\ IsSeq(Front(scenarios))
          /\ Len(Front(scenarios)) = Len(scenarios) - 1
          /\ \A i \in 1..(Len(scenarios) - 1) : Front(scenarios)[i] = scenarios[i]
          /\ Last(scenarios) = scenarios[Len(scenarios)]
      BY <1>2, <2>1, FrontIs
    <2>3. Len(scenarios) \in 1..Len(scenarios) /\ \A i \in 1..(Len(scenarios) - 1) : i \in 1..Len(scenarios)
      BY <2>2
    <2>4. QED
      BY <2>2, <2>3 DEF ScenariosHold
  <1>3. QED
    BY <1>1, <1>2

\* Two sequences of steps in one.
LEMMA StepsJoined ==
  ASSUME NEW rec, NEW b, NEW s, StepsHold(rec, b, s), NEW t, StepsHold(rec, b, t)
  PROVE  StepsHold(rec, b, s \o t)
  <1>1. IsSeq(s) /\ IsSeq(t)
    BY DEF StepsHold
  <1>2. IsSeq(s \o t) /\ ToSet(s \o t) = ToSet(s) \cup ToSet(t)
    BY <1>1, CatOf, CatHas
  <1>3. /\ ToSet(s) = {s[i] : i \in 1..Len(s)} /\ ToSet(t) = {t[i] : i \in 1..Len(t)}
        /\ ToSet(s \o t) = {(s \o t)[i] : i \in 1..Len(s \o t)}
    BY <1>1, <1>2, IsSeqMeans
  <1>4. \A x \in ToSet(s \o t) : StepHolds(rec, b, x)
    BY <1>2, <1>3 DEF StepsHold
  <1>5. QED
    BY <1>2, <1>3, <1>4 DEF StepsHold

\* Some of the steps, by their ids.
Fresh(steps, used, ids) ==
    Those(ids, LAMBDA id : id \notin used /\ \E i \in DOMAIN steps : steps[i].id = id)
ByIds(steps, ids) ==
    [k \in DOMAIN ids |-> steps[CHOOSE i \in DOMAIN steps : steps[i].id = ids[k]]]

\* The steps a scenario names and no earlier one has taken.
LEMMA FreshIs ==
  ASSUME NEW rec, NEW b, NEW steps, StepsHold(rec, b, steps), NEW used, NEW ids, IsSeq(ids)
  PROVE  StepsHold(rec, b, ByIds(steps, Fresh(steps, used, ids)))
  <1> DEFINE fresh == Fresh(steps, used, ids)
             out == ByIds(steps, fresh)
             t == [j \in DOMAIN ids |->
                     IF ids[j] \notin used /\ \E i \in DOMAIN steps : steps[i].id = ids[j]
                     THEN <<ids[j]>> ELSE <<>>]
  <1>1. fresh = FlattenSeq(t)
    BY DEF Fresh, Those
  <1>12. out = [k \in DOMAIN fresh |-> steps[CHOOSE i \in DOMAIN steps : steps[i].id = fresh[k]]]
    BY DEF ByIds
  <1>2. /\ t = [j \in DOMAIN ids |-> t[j]] /\ \A j \in DOMAIN ids : t[j] = <<ids[j]>> \/ t[j] = <<>>
        /\ \A j \in DOMAIN ids : t[j] # <<>> => \E i \in DOMAIN steps : steps[i].id = ids[j]
    OBVIOUS
  <1> HIDE DEF t, fresh, out
  <1>3. Len(ids) \in Nat /\ DOMAIN ids = 1..Len(ids)
    BY IsSeqMeans
  <1>4. /\ IsSeq(fresh)
        /\ \A x : x \in ToSet(fresh) <=> \E j \in 1..Len(ids) : x = ids[j] /\ t[j] = <<ids[j]>>
    <2>1. t = [j \in DOMAIN ids |-> t[j]] /\ \A j \in DOMAIN ids : t[j] = <<ids[j]>> \/ t[j] = <<>>
      BY <1>2
    <2>2. /\ IsSeq(FlattenSeq(t))
          /\ \A x : x \in ToSet(FlattenSeq(t)) <=> \E j \in 1..Len(ids) : x = ids[j] /\ t[j] = <<ids[j]>>
      BY <2>1, <1>3, ThoseOf
    <2>3. QED
      BY <1>1, <2>2
  <1>5. Len(fresh) \in Nat /\ DOMAIN fresh = 1..Len(fresh) /\ ToSet(fresh) = {fresh[k] : k \in 1..Len(fresh)}
    BY <1>4, IsSeqMeans
  <1>6. \A x : <<x>> # <<>>
    BY One, None
  <1>7. \A k \in 1..Len(fresh) : \E i \in DOMAIN steps : steps[i].id = fresh[k]
    <2>1. SUFFICES ASSUME NEW k \in 1..Len(fresh) PROVE \E i \in DOMAIN steps : steps[i].id = fresh[k]
      OBVIOUS
    <2>2. fresh[k] \in ToSet(fresh)
      BY <1>5
    <2>3. PICK j \in 1..Len(ids) : fresh[k] = ids[j] /\ t[j] = <<ids[j]>>
      BY <1>4, <2>2
    <2>4. QED
      BY <1>2, <1>3, <1>6, <2>3
  <1>8. IsSeq(out) /\ Len(out) = Len(fresh)
    <2>1. out = [k \in DOMAIN fresh |-> out[k]]
      BY <1>12
    <2>2. QED
      BY <1>5, <2>1, Mapped
  <1>9. IsSeq(steps) /\ DOMAIN steps = 1..Len(steps)
    BY IsSeqMeans DEF StepsHold
  <1>10. ASSUME NEW k \in 1..Len(fresh) PROVE StepHolds(rec, b, out[k])
    <2>1. (CHOOSE i \in DOMAIN steps : steps[i].id = fresh[k]) \in DOMAIN steps
      BY <1>7
    <2>2. out[k] = steps[CHOOSE i \in DOMAIN steps : steps[i].id = fresh[k]]
      BY <1>5, <1>12
    <2> DEFINE i == CHOOSE i \in DOMAIN steps : steps[i].id = fresh[k]
    <2>3. i \in 1..Len(steps) /\ out[k] = steps[i]
      BY <1>9, <2>1, <2>2
    <2> HIDE DEF i
    <2>4. QED
      BY <2>3 DEF StepsHold
  <1>11. QED
    BY <1>8, <1>10 DEF StepsHold, fresh, out

Picked(rec, b, so) == so = [used |-> so.used, out |-> so.out] /\ ScenariosHold(rec, b, so.out)

\* One scenario of a grouping picks steps that hold.
LEMMA PickIs ==
  ASSUME NEW rec, NEW b, NEW steps, StepsHold(rec, b, steps), NEW so, Picked(rec, b, so),
         NEW ids, IsSeq(ids), NEW to, to = Pick(steps, so, ids)
  PROVE  Picked(rec, b, to)
  <1> DEFINE used == so.used
             fresh == Fresh(steps, used, ids)
             out == ByIds(steps, fresh)
             more == Append(so.out, out)
             grown == used \cup Range(fresh)
  <1>1. to = IF fresh = <<>> THEN so ELSE [used |-> grown, out |-> more]
    BY DEF Pick, Fresh, ByIds
  <1>2. StepsHold(rec, b, out)
    BY FreshIs
  <1> HIDE DEF out, fresh, grown, more
  <1>3. ScenariosHold(rec, b, more)
    BY <1>2, ScenarioPut DEF Picked, more
  <1>4. CASE fresh = <<>>
    BY <1>1, <1>4
  <1>5. CASE fresh # <<>>
    <2>1. to = [used |-> grown, out |-> more]
      BY <1>1, <1>5
    <2>2. QED
      BY <1>3, <2>1 DEF Picked
  <1>6. QED
    BY <1>4, <1>5

\* Every step of the scenarios is one of the steps.
LEMMA GroupedIs ==
  ASSUME NEW rec, NEW b, NEW steps, StepsHold(rec, b, steps),
         NEW named, IsSeq(named), \A n \in DOMAIN named : IsSeq(named[n])
  PROVE  ScenariosHold(rec, b, Grouped(steps, named))
  <1> DEFINE start == [used |-> {}, out |-> <<>>]
             picked == PickSteps(steps, start, named)
             orphans == Those(steps, LAMBDA step : step.id \notin picked.used)
             M == Len(named)
             ends == Append(Front(picked.out), Last(picked.out) \o orphans)
  <1>1. Grouped(steps, named) = IF picked.out = <<>> THEN <<steps>>
                                ELSE IF orphans = <<>> THEN picked.out ELSE ends
    BY DEF Grouped
  <1>2. M \in Nat /\ DOMAIN named = 1..M
    BY IsSeqMeans
  <1>3. Picked(rec, b, start)
    <2>1. \A i \in 1..Len(<<>>) : FALSE
      BY None
    <2>2. ScenariosHold(rec, b, <<>>)
      BY <2>1, None DEF ScenariosHold
    <2>3. QED
      BY <2>2 DEF Picked
  <1>4. picked = PickSteps(steps, start, named)
    OBVIOUS
  <1> HIDE DEF start, picked
  <1>5. PICK f : /\ f[0] = start
                 /\ \A k \in 1..Len(named) : f[k] = Pick(steps, f[k - 1], named[k])
                 /\ PickSteps(steps, start, named) = f[Len(named)]
    BY PickFold
  <1> DEFINE T == {k \in 0..M : Picked(rec, b, f[k])}
  <1>6. 0 \in T
    BY <1>2, <1>3, <1>5
  <1>7. ASSUME NEW k \in 0..(M - 1), k \in T PROVE k + 1 \in T
    <2>1. k + 1 \in 1..M /\ (k + 1) - 1 = k /\ k + 1 \in 0..M
      BY <1>2
    <2>2. f[k + 1] = Pick(steps, f[k], named[k + 1]) /\ IsSeq(named[k + 1])
      BY <1>2, <1>5, <2>1
    <2>3. Picked(rec, b, f[k])
      BY <1>7
    <2>4. Picked(rec, b, f[k + 1])
      BY <2>2, <2>3, PickIs
    <2>5. QED
      BY <2>1, <2>4
  <1> HIDE DEF T, M
  <1>8. \A k \in 0..M : k \in T
    BY <1>2, <1>6, <1>7, StepByStep
  <1>9. ScenariosHold(rec, b, picked.out)
    <2>1. M \in 0..M
      BY <1>2
    <2>2. Picked(rec, b, f[M])
      BY <1>8, <2>1 DEF T
    <2>3. QED
      BY <1>4, <1>5, <2>2 DEF Picked, M
  <1>10. StepsHold(rec, b, orphans)
    <2> DEFINE used == picked.used
               t == [i \in DOMAIN steps |-> IF steps[i].id \notin used THEN <<steps[i]>> ELSE <<>>]
    <2>1. orphans = FlattenSeq(t)
      BY DEF Those
    <2>2. t = [i \in DOMAIN steps |-> t[i]] /\ \A i \in DOMAIN steps : t[i] = <<steps[i]>> \/ t[i] = <<>>
      OBVIOUS
    <2> HIDE DEF t, used, orphans
    <2>3. Len(steps) \in Nat /\ DOMAIN steps = 1..Len(steps)
      BY IsSeqMeans DEF StepsHold
    <2>4. /\ IsSeq(FlattenSeq(t))
          /\ \A x : x \in ToSet(FlattenSeq(t)) <=> \E i \in 1..Len(steps) : x = steps[i] /\ t[i] = <<steps[i]>>
      BY <2>2, <2>3, ThoseOf
    <2>5. IsSeq(orphans) /\ \A x \in ToSet(orphans) : \E i \in 1..Len(steps) : x = steps[i]
      BY <2>1, <2>4
    <2>6. ToSet(orphans) = {orphans[i] : i \in 1..Len(orphans)}
      BY <2>5, IsSeqMeans
    <2>7. \A i \in 1..Len(orphans) : StepHolds(rec, b, orphans[i])
      BY <2>5, <2>6 DEF StepsHold
    <2>8. QED
      BY <2>5, <2>7 DEF StepsHold
  <1> HIDE DEF orphans
  <1>11. CASE picked.out = <<>>
    <2>1. Grouped(steps, named) = <<steps>>
      BY <1>1, <1>11
    <2>2. \A i \in 1..Len(<<steps>>) : <<steps>>[i] = steps
      BY One
    <2>3. QED
      BY <2>1, <2>2, One DEF ScenariosHold
  <1>12. CASE picked.out # <<>> /\ orphans = <<>>
    BY <1>1, <1>9, <1>12
  <1>13. CASE picked.out # <<>> /\ orphans # <<>>
    <2>1. StepsHold(rec, b, Last(picked.out))
      BY <1>9, <1>10, <1>13, ScenarioPut
    <2>2. StepsHold(rec, b, Last(picked.out) \o orphans)
      BY <1>10, <2>1, StepsJoined
    <2>3. ScenariosHold(rec, b, ends)
      BY <1>9, <1>13, <2>2, ScenarioPut
    <2>4. QED
      BY <1>1, <1>13, <2>3
  <1>14. QED
    BY <1>11, <1>12, <1>13

---------------------------------------------------------------------------
(* What the tester said, on the steps. *)
\* The same steps with the same claims, and with one of these texts or their own.
Altered(rec, ss, tt, texts) ==
    /\ tt = [n \in DOMAIN ss |-> tt[n]]
    /\ \A n \in DOMAIN ss :
         /\ tt[n] = [i \in DOMAIN ss[n] |-> tt[n][i]]
         /\ \A i \in DOMAIN ss[n] :
              /\ IsDraft(rec, tt[n][i]) /\ tt[n][i].claims = ss[n][i].claims
              /\ tt[n][i].text \in {ss[n][i].text} \cup texts

\* Steps that are altered hold.
LEMMA AlteredHold ==
  ASSUME NEW rec, NEW b, NEW ss, ScenariosHold(rec, b, ss), NEW texts,
         NEW tt, Altered(rec, ss, tt, texts)
  PROVE  /\ ScenariosHold(rec, b, tt) /\ Len(tt) = Len(ss)
         /\ \A n \in 1..Len(ss) : Len(tt[n]) = Len(ss[n])
  <1>1. Len(ss) \in Nat /\ DOMAIN ss = 1..Len(ss)
    BY IsSeqMeans DEF ScenariosHold
  <1>2. IsSeq(tt) /\ Len(tt) = Len(ss)
    BY <1>1, Mapped DEF Altered
  <1>3. ASSUME NEW n \in 1..Len(ss) PROVE StepsHold(rec, b, tt[n]) /\ Len(tt[n]) = Len(ss[n])
    <2> DEFINE s == ss[n]
               t == tt[n]
    <2>1. StepsHold(rec, b, s)
      BY DEF ScenariosHold
    <2>2. /\ t = [i \in DOMAIN s |-> t[i]]
          /\ \A i \in DOMAIN s : IsDraft(rec, t[i]) /\ t[i].claims = s[i].claims
      BY <1>1 DEF Altered
    <2> HIDE DEF s, t
    <2>3. Len(s) \in Nat /\ DOMAIN s = 1..Len(s)
      BY <2>1, IsSeqMeans DEF StepsHold
    <2>4. IsSeq(t) /\ Len(t) = Len(s)
      BY <2>2, <2>3, Mapped
    <2>5. ASSUME NEW i \in 1..Len(s) PROVE StepHolds(rec, b, t[i])
      <3>1. StepHolds(rec, b, s[i]) /\ IsDraft(rec, t[i]) /\ t[i].claims = s[i].claims
        BY <2>1, <2>2, <2>3 DEF StepsHold
      <3>2. QED
        BY <3>1 DEF StepHolds
    <2>6. StepsHold(rec, b, t)
      BY <2>4, <2>5 DEF StepsHold
    <2>7. QED
      BY <2>4, <2>6 DEF s, t
  <1>4. QED
    BY <1>2, <1>3 DEF ScenariosHold

\* A step with another mark, or another text.
LEMMA MarkedIs ==
  ASSUME NEW rec, NEW step, IsDraft(rec, step), NEW bug, NEW s, s = [step EXCEPT !.bug = bug]
  PROVE  IsDraft(rec, s) /\ s.claims = step.claims /\ s.text = step.text /\ s.events = step.events
  <1>1. s = [id |-> step.id, keyword |-> step.keyword, role |-> step.role, text |-> step.text,
             events |-> step.events, claims |-> step.claims, whyNot |-> step.whyNot,
             bug |-> bug, low |-> step.low]
    BY DEF IsDraft
  <1>2. /\ s.id = step.id /\ s.keyword = step.keyword /\ s.role = step.role /\ s.text = step.text
        /\ s.events = step.events /\ s.claims = step.claims /\ s.whyNot = step.whyNot
        /\ s.bug = bug /\ s.low = step.low
    BY <1>1
  <1>3. QED
    BY <1>1, <1>2 DEF IsDraft

\* Rewording a step leaves its claims and events alone.
LEMMA WordedIs ==
  ASSUME NEW rec, NEW step, IsDraft(rec, step), NEW text, NEW s, s = [step EXCEPT !.text = text]
  PROVE  IsDraft(rec, s) /\ s.claims = step.claims /\ s.text = text /\ s.events = step.events
  <1>1. s = [id |-> step.id, keyword |-> step.keyword, role |-> step.role, text |-> text,
             events |-> step.events, claims |-> step.claims, whyNot |-> step.whyNot,
             bug |-> step.bug, low |-> step.low]
    BY DEF IsDraft
  <1>2. /\ s.id = step.id /\ s.keyword = step.keyword /\ s.role = step.role /\ s.text = text
        /\ s.events = step.events /\ s.claims = step.claims /\ s.whyNot = step.whyNot
        /\ s.bug = step.bug /\ s.low = step.low
    BY <1>1
  <1>3. QED
    BY <1>1, <1>2 DEF IsDraft

\* What was rejected leaves its mark, and no more.
LEMMA RejectionsAlter ==
  ASSUME NEW rec, NEW b, NEW ss, ScenariosHold(rec, b, ss), NEW said
  PROVE  Altered(rec, ss, ApplyRejections(ss, said), {})
  <1> DEFINE Bug(step) == step.bug \/ Range(step.events) \cap Rejected(said) # {}
             tt == [n \in DOMAIN ss |-> [i \in DOMAIN ss[n] |-> [ss[n][i] EXCEPT !.bug = Bug(ss[n][i])]]]
  <1>1. ApplyRejections(ss, said) = tt
    BY DEF ApplyRejections
  <1>2. /\ tt = [n \in DOMAIN ss |-> tt[n]]
        /\ \A n \in DOMAIN ss :
             /\ tt[n] = [i \in DOMAIN ss[n] |-> tt[n][i]]
             /\ \A i \in DOMAIN ss[n] : tt[n][i] = [ss[n][i] EXCEPT !.bug = Bug(ss[n][i])]
    OBVIOUS
  <1> HIDE DEF tt, Bug
  <1>3. ASSUME NEW n \in DOMAIN ss, NEW i \in DOMAIN ss[n]
        PROVE  /\ IsDraft(rec, tt[n][i]) /\ tt[n][i].claims = ss[n][i].claims
               /\ tt[n][i].text \in {ss[n][i].text} \cup {}
    <2>1. DOMAIN ss = 1..Len(ss)
      BY IsSeqMeans DEF ScenariosHold
    <2>2. StepsHold(rec, b, ss[n])
      BY <2>1 DEF ScenariosHold
    <2>3. DOMAIN ss[n] = 1..Len(ss[n])
      BY <2>2, IsSeqMeans DEF StepsHold
    <2>4. IsDraft(rec, ss[n][i])
      BY <2>2, <2>3 DEF StepsHold, StepHolds
    <2> DEFINE step == ss[n][i]
               s == tt[n][i]
    <2>5. s = [step EXCEPT !.bug = Bug(step)] /\ IsDraft(rec, step)
      BY <1>2, <2>4
    <2> HIDE DEF step, s
    <2>6. IsDraft(rec, s) /\ s.claims = step.claims /\ s.text = step.text
      BY <2>5, MarkedIs
    <2>7. QED
      BY <2>6 DEF step, s
  <1>4. QED
    BY <1>1, <1>2, <1>3 DEF Altered

\* The sentences the tester dictated.
Sayings(rec) == {note.text : note \in ToSet(Notes(rec, "intent_note"))}

\* The note a sentence is taken from is one of the recording.
LEMMA DictatedIs ==
  ASSUME NEW rec \in Recordings, NEW id, Dictated(rec, id) # <<>>
  PROVE  Dictated(rec, id)[1].text \in Sayings(rec)
  <1> DEFINE all == rec.annotations
             s == [i \in DOMAIN all |-> IF all[i].kind = "intent_note" THEN <<all[i]>> ELSE <<>>]
             notes == FlattenSeq(s)
             t == [i \in DOMAIN notes |-> IF NoteTarget(rec, notes[i]) = id THEN <<notes[i]>> ELSE <<>>]
             said == FlattenSeq(t)
  <1>1. Notes(rec, "intent_note") = notes
    BY DEF Notes, Those
  <1>2. Dictated(rec, id) = said
    BY <1>1 DEF Dictated, Those
  <1>3. Len(all) \in Nat /\ DOMAIN all = 1..Len(all)
    BY ARecording
  <1>4. s = [i \in DOMAIN all |-> s[i]] /\ \A i \in DOMAIN all : s[i] = <<all[i]>> \/ s[i] = <<>>
    OBVIOUS
  <1>5. t = [i \in DOMAIN notes |-> t[i]] /\ \A i \in DOMAIN notes : t[i] = <<notes[i]>> \/ t[i] = <<>>
    OBVIOUS
  <1>6. notes = FlattenSeq(s) /\ said = FlattenSeq(t)
    OBVIOUS
  <1> HIDE DEF all, s, notes, t, said
  <1>7. IsSeq(notes)
    <2>1. IsSeq(FlattenSeq(s))
      BY <1>3, <1>4, ThoseOf
    <2>2. QED
      BY <1>6, <2>1
  <1>8. Len(notes) \in Nat /\ DOMAIN notes = 1..Len(notes) /\ ToSet(notes) = {notes[i] : i \in 1..Len(notes)}
    BY <1>7, IsSeqMeans
  <1>9. /\ IsSeq(said)
        /\ \A x : x \in ToSet(said) <=> \E i \in 1..Len(notes) : x = notes[i] /\ t[i] = <<notes[i]>>
    <2>1. /\ IsSeq(FlattenSeq(t))
          /\ \A x : x \in ToSet(FlattenSeq(t)) <=> \E i \in 1..Len(notes) : x = notes[i] /\ t[i] = <<notes[i]>>
      BY <1>5, <1>8, ThoseOf
    <2>2. QED
      BY <1>6, <2>1
  <1>10. said[1] \in ToSet(said)
    <2>1. Len(said) \in Nat /\ said # <<>>
      BY <1>2, <1>9, IsSeqMeans
    <2>2. Len(said) # 0
      BY <1>9, <2>1, IsSeqMeans
    <2>3. 1 \in 1..Len(said)
      BY <2>1, <2>2
    <2>4. QED
      BY <1>9, <2>3, IsSeqMeans
  <1>11. said[1] \in ToSet(notes)
    BY <1>8, <1>9, <1>10
  <1>12. QED
    BY <1>1, <1>2, <1>11 DEF Sayings

\* What was dictated replaces sentences, and no more.
LEMMA NotesAlter ==
  ASSUME NEW rec \in Recordings, NEW b, NEW ss, ScenariosHold(rec, b, ss)
  PROVE  Altered(rec, ss, ApplyIntentNotes(rec, ss), Sayings(rec))
  <1> DEFINE Said(step) == IF step.events = <<>> THEN <<>> ELSE Dictated(rec, step.events[1])
             New(step) == IF Said(step) = <<>> THEN step ELSE [step EXCEPT !.text = Said(step)[1].text]
             tt == [n \in DOMAIN ss |-> [i \in DOMAIN ss[n] |-> New(ss[n][i])]]
  <1>1. ApplyIntentNotes(rec, ss) = tt
    BY DEF ApplyIntentNotes
  <1>2. /\ tt = [n \in DOMAIN ss |-> tt[n]]
        /\ \A n \in DOMAIN ss :
             /\ tt[n] = [i \in DOMAIN ss[n] |-> tt[n][i]]
             /\ \A i \in DOMAIN ss[n] : tt[n][i] = New(ss[n][i])
    OBVIOUS
  <1> HIDE DEF tt
  <1>3. ASSUME NEW n \in DOMAIN ss, NEW i \in DOMAIN ss[n]
        PROVE  /\ IsDraft(rec, tt[n][i]) /\ tt[n][i].claims = ss[n][i].claims
               /\ tt[n][i].text \in {ss[n][i].text} \cup Sayings(rec)
    <2>1. DOMAIN ss = 1..Len(ss)
      BY IsSeqMeans DEF ScenariosHold
    <2>2. StepsHold(rec, b, ss[n])
      BY <2>1 DEF ScenariosHold
    <2>3. DOMAIN ss[n] = 1..Len(ss[n])
      BY <2>2, IsSeqMeans DEF StepsHold
    <2>4. IsDraft(rec, ss[n][i])
      BY <2>2, <2>3 DEF StepsHold, StepHolds
    <2> DEFINE step == ss[n][i]
               s == tt[n][i]
    <2>5. s = New(step) /\ IsDraft(rec, step)
      BY <1>2, <2>4
    <2> HIDE DEF step, s
    <2>6. CASE Said(step) = <<>>
      <3>1. s = step
        BY <2>5, <2>6
      <3>2. QED
        BY <2>5, <3>1 DEF step, s
    <2>7. CASE Said(step) # <<>>
      <3>1. s = [step EXCEPT !.text = Said(step)[1].text]
        BY <2>5, <2>7
      <3>2. Said(step)[1].text \in Sayings(rec)
        BY <2>7, DictatedIs
      <3> DEFINE text == Said(step)[1].text
      <3>3. s = [step EXCEPT !.text = text] /\ text \in Sayings(rec)
        BY <3>1, <3>2
      <3>4. IsDraft(rec, step)
        BY <2>5
      <3> HIDE DEF Said, New, text
      <3>5. IsDraft(rec, s) /\ s.claims = step.claims /\ s.text = text
        BY <3>3, <3>4, WordedIs
      <3>6. QED
        BY <3>3, <3>5 DEF step, s
    <2>8. QED
      BY <2>6, <2>7
  <1>4. QED
    BY <1>1, <1>2, <1>3 DEF Altered

\* All that is claimed holds.
DocumentHolds(rec, b, scenarios) ==
    /\ IsSeq(scenarios)
    /\ \A n \in 1..Len(scenarios) :
         /\ IsSeq(scenarios[n])
         /\ \A i \in 1..Len(scenarios[n]) :
              /\ IsSeq(scenarios[n][i].claims)
              /\ \A k \in 1..Len(scenarios[n][i].claims) :
                    ClaimHolds(rec, b, scenarios[n][i].claims[k])

\* When nothing comes of the answer nothing is claimed.
LEMMA FallbackIs ==
  ASSUME NEW rec \in Recordings, NEW b
  PROVE  DocumentHolds(rec, b, ApplyIntentNotes(rec, Fallback(rec)))
  <1> DEFINE events == Ordered(rec)
             steps == [i \in DOMAIN events |->
                         [id |-> <<"step", i>>, keyword |-> IF i = 1 THEN "Given" ELSE "When",
                          role |-> IF i = 1 THEN "setup" ELSE "test_step",
                          text |-> {"interacts", events[i].id},
                          events |-> <<events[i].id>>, claims |-> <<>>, whyNot |-> "not produced",
                          bug |-> FALSE, low |-> TRUE]]
             Said(step) == IF step.events = <<>> THEN <<>> ELSE Dictated(rec, step.events[1])
             New(step) == IF Said(step) = <<>> THEN step ELSE [step EXCEPT !.text = Said(step)[1].text]
             ss == Fallback(rec)
             tt == [n \in DOMAIN ss |-> [i \in DOMAIN ss[n] |-> New(ss[n][i])]]
  <1>1. Len(events) \in Nat /\ DOMAIN events = 1..Len(events)
    <2>1. Ordered(rec) = [k \in DOMAIN rec.events |-> Ordered(rec)[k]]
      BY DEF Ordered
    <2> HIDE DEF events
    <2>2. Len(rec.events) \in Nat /\ DOMAIN rec.events = 1..Len(rec.events)
      BY ARecording
    <2>3. QED
      BY <2>1, <2>2, Mapped, IsSeqMeans DEF events
  <1>2. ss = <<steps>>
    BY DEF Fallback
  <1>3. ApplyIntentNotes(rec, ss) = tt
    BY DEF ApplyIntentNotes
  <1>4. steps = [i \in DOMAIN events |-> steps[i]]
    OBVIOUS
  <1>5. ASSUME NEW i \in DOMAIN events PROVE New(steps[i]).claims = <<>>
    <2> DEFINE step == steps[i]
               id == <<"step", i>>
               keyword == IF i = 1 THEN "Given" ELSE "When"
               role == IF i = 1 THEN "setup" ELSE "test_step"
               text == {"interacts", events[i].id}
               its == <<events[i].id>>
    <2>1. step = [id |-> id, keyword |-> keyword, role |-> role, text |-> text, events |-> its,
                  claims |-> <<>>, whyNot |-> "not produced", bug |-> FALSE, low |-> TRUE]
      OBVIOUS
    <2>2. New(step) = step \/ \E more : New(step) = [step EXCEPT !.text = more]
      OBVIOUS
    <2> HIDE DEF steps, step, id, keyword, role, text, its, New, Said
    <2>3. step.claims = <<>> /\ \A more : [step EXCEPT !.text = more].claims = <<>>
      BY <2>1
    <2>4. New(step).claims = <<>>
      BY <2>2, <2>3
    <2>5. QED
      BY <2>4 DEF step
  <1>6. /\ tt = [n \in DOMAIN ss |-> tt[n]]
        /\ \A n \in DOMAIN ss :
             /\ tt[n] = [i \in DOMAIN ss[n] |-> tt[n][i]]
             /\ \A i \in DOMAIN ss[n] : tt[n][i] = New(ss[n][i])
    OBVIOUS
  <1> HIDE DEF events, steps, New, Said, ss, tt
  <1>7. IsSeq(steps) /\ Len(steps) = Len(events) /\ DOMAIN steps = 1..Len(events)
    BY <1>1, <1>4, Mapped
  <1>8. Len(ss) = 1 /\ DOMAIN ss = 1..1 /\ ss[1] = steps
    <2>1. IsSeq(ss) /\ Len(ss) = 1 /\ ss[1] = steps
      BY <1>2, One
    <2>2. QED
      BY <2>1, IsSeqMeans
  <1>9. IsSeq(tt) /\ Len(tt) = 1
    BY <1>6, <1>8, Mapped
  <1>10. IsSeq(tt[1]) /\ Len(tt[1]) = Len(events)
    <2> DEFINE t == tt[1]
    <2>1. t = [i \in DOMAIN steps |-> t[i]]
      BY <1>6, <1>8
    <2> HIDE DEF t
    <2>2. IsSeq(t) /\ Len(t) = Len(steps)
      BY <1>1, <1>7, <2>1, Mapped
    <2>3. QED
      BY <1>7, <2>2 DEF t
  <1>11. ASSUME NEW i \in 1..Len(events) PROVE tt[1][i].claims = <<>>
    BY <1>1, <1>5, <1>6, <1>7, <1>8
  <1>12. \A k \in 1..Len(<<>>) : FALSE
    BY None
  <1>13. \A n \in 1..Len(tt) : n = 1
    BY <1>9
  <1>14. DocumentHolds(rec, b, tt)
    BY <1>9, <1>10, <1>11, <1>12, <1>13, None DEF DocumentHolds
  <1>15. QED
    BY <1>3, <1>14 DEF ss

\* Scenarios whose steps hold are a document that does.
LEMMA ScenariosAreDocument ==
  ASSUME NEW rec, NEW b, NEW ss, ScenariosHold(rec, b, ss)
  PROVE  DocumentHolds(rec, b, ss)
  BY DEF ScenariosHold, StepsHold, StepHolds, IsDraft, DocumentHolds

---------------------------------------------------------------------------
(* The document. *)
\* What it is as the author's answer is taken: the binding is one of the log, what
\* is claimed holds of it, and the refusals are true of what was there before.
Document(ctx, was, d) ==
    /\ d = [b |-> d.b, scenarios |-> d.scenarios, omitted |-> d.omitted, from |-> d.from]
    /\ IsBinding(d.b) /\ Further(d.b, was) /\ AllTrue(ctx, was, d.b)
    /\ ~ctx.tools => d.b.calls = was.calls
    /\ Len(d.b.cited) <= Len(was.cited) + (IF d.from = "file" THEN 1 ELSE 2) * RescueBudget

\* A binding with the rescues and the refusals counted anew.
LEMMA AgainIs ==
  ASSUME NEW b, IsBinding(b), NEW c, c = [b EXCEPT !.rescues = 0, !.refused = <<>>]
  PROVE  /\ IsBinding(c) /\ c.refused = <<>> /\ c.rescues = 0 /\ c.calls = b.calls /\ c.cited = b.cited
  <1>1. c = [calls |-> b.calls, cited |-> b.cited, rescues |-> 0, refused |-> <<>>]
    BY DEF IsBinding
  <1>2. /\ c.calls = b.calls /\ c.cited = b.cited /\ c.rescues = 0 /\ c.refused = <<>>
        /\ c = [calls |-> c.calls, cited |-> c.cited, rescues |-> c.rescues, refused |-> c.refused]
    BY <1>1
  <1>3. QED
    BY <1>2, None DEF IsBinding

\* What a document has cost.
LEMMA CostIs ==
  ASSUME NEW ctx, NEW b, IsBinding(b), b.rescues = 0, NEW c, IsBinding(c), Extends(ctx, c, b)
  PROVE  Len(b.cited) \in Nat /\ Len(c.cited) \in Nat /\ Len(c.cited) <= Len(b.cited) + RescueBudget
  <1>1. Len(b.cited) \in Nat /\ Len(c.cited) \in Nat
    BY IsSeqMeans DEF IsBinding, IsLog
  <1>2. RescueBudget \in Nat
    BY AuthorRunAssumption
  <1>3. c.rescues \in Nat /\ c.rescues <= RescueBudget /\ Len(c.cited) + 0 = Len(b.cited) + c.rescues
    BY <1>2 DEF IsBinding, Extends
  <1> DEFINE m == Len(b.cited)
             n == Len(c.cited)
             r == c.rescues
  <1>4. m \in Nat /\ n \in Nat /\ r \in Nat /\ r <= RescueBudget /\ n + 0 = m + r
    BY <1>1, <1>3
  <1> HIDE DEF m, n, r
  <1>5. n <= m + RescueBudget
    BY <1>2, <1>4
  <1>6. QED
    BY <1>4, <1>5 DEF m, n

\* The scenarios of a file that are not empty.
NotEmpty(done) == Those(done, LAMBDA steps : steps # <<>>)

\* They are as good as all of them.
LEMMA BuiltIs ==
  ASSUME NEW rec, NEW b, NEW done, ScenariosHold(rec, b, done), NEW built, built = NotEmpty(done)
  PROVE  ScenariosHold(rec, b, built)
  <1> DEFINE t == [i \in DOMAIN done |-> IF done[i] # <<>> THEN <<done[i]>> ELSE <<>>]
  <1>1. built = FlattenSeq(t)
    BY DEF Those, NotEmpty
  <1>2. t = [i \in DOMAIN done |-> t[i]] /\ \A i \in DOMAIN done : t[i] = <<done[i]>> \/ t[i] = <<>>
    OBVIOUS
  <1> HIDE DEF t
  <1>3. Len(done) \in Nat /\ DOMAIN done = 1..Len(done)
    BY IsSeqMeans DEF ScenariosHold
  <1>4. /\ IsSeq(FlattenSeq(t))
        /\ \A x : x \in ToSet(FlattenSeq(t)) <=> \E i \in 1..Len(done) : x = done[i] /\ t[i] = <<done[i]>>
    BY <1>2, <1>3, ThoseOf
  <1> DEFINE bb == FlattenSeq(t)
  <1>5. IsSeq(bb) /\ \A x \in ToSet(bb) : \E i \in 1..Len(done) : x = done[i]
    BY <1>4
  <1> HIDE DEF bb
  <1>6. ToSet(bb) = {bb[n] : n \in 1..Len(bb)}
    BY <1>5, IsSeqMeans
  <1>7. \A n \in 1..Len(bb) : StepsHold(rec, b, bb[n])
    BY <1>5, <1>6 DEF ScenariosHold
  <1>8. ScenariosHold(rec, b, bb)
    BY <1>5, <1>7 DEF ScenariosHold
  <1>9. QED
    BY <1>1, <1>8 DEF bb

\* The parts of a document.
LEMMA DraftedParts ==
  ASSUME NEW b, NEW scenarios, NEW omitted, NEW from, NEW d, d = Drafted(b, scenarios, omitted, from)
  PROVE  /\ d = [b |-> d.b, scenarios |-> d.scenarios, omitted |-> d.omitted, from |-> d.from]
         /\ d.b = b /\ d.scenarios = scenarios /\ d.omitted = omitted /\ d.from = from
  BY DEF Drafted

\* The document, whatever the answer: from the file, or from the steps, or from nothing.
LEMMA ParseIs ==
  ASSUME NEW ctx, ctx.rec \in Recordings, NEW was, IsBinding(was), was.refused = <<>>, was.rescues = 0,
         NEW answer, IsAnswer(answer), NEW d, d = Parse(ctx, was, answer)
  PROVE  /\ Document(ctx, was, d)
         /\ ScenariosHold(ctx.rec, d.b, d.scenarios) \/ d.scenarios = Fallback(ctx.rec)
         /\ d.from = "file" =>
              \E lines, f, file : ReadBy(ctx, was, answer, file, lines, f) /\ ~file.failed
                /\ d.b = file.b
                /\ d.scenarios = ApplyRejections(NotEmpty(file.done), ctx.expectations)
  <1> DEFINE file == FromFeature(ctx, was, answer)
             built == NotEmpty(file.done)
             again == [file.b EXCEPT !.rescues = 0, !.refused = <<>>]
             read == ReadSteps(ctx, again, answer)
             marked == ApplyRejections(built, ctx.expectations)
             grouped == ApplyRejections(Grouped(read.steps, answer.scenarios), ctx.expectations)
             omitted == Omissions(ctx.rec, answer.omitted)
  <1>1. d = IF ~file.failed /\ built # <<>> THEN Drafted(file.b, marked, omitted, "file")
            ELSE IF answer.steps = <<>> THEN Drafted(again, Fallback(ctx.rec), <<>>, "nothing")
            ELSE Drafted(read.b, grouped, omitted, "steps")
    BY DEF Parse, FromFile, FromSteps, NotEmpty, Those
  <1>2. /\ Reading(ctx, was, file, Len(answer.lines))
        /\ file.failed \/ \E lines, f : ReadBy(ctx, was, answer, file, lines, f)
    <2>1. file = FromFeature(ctx, was, answer)
      OBVIOUS
    <2> HIDE DEF file
    <2>2. QED
      BY <2>1, FileIs
  <1>3. built = NotEmpty(file.done)
    OBVIOUS
  <1>4. again = [file.b EXCEPT !.rescues = 0, !.refused = <<>>]
    OBVIOUS
  <1>5. read = ReadSteps(ctx, again, answer)
    OBVIOUS
  <1>6. /\ marked = ApplyRejections(built, ctx.expectations)
        /\ grouped = ApplyRejections(Grouped(read.steps, answer.scenarios), ctx.expectations)
    OBVIOUS
  <1> HIDE DEF file, built, again, read, marked, grouped, omitted
  <1>7. /\ IsBinding(file.b) /\ Extends(ctx, file.b, was) /\ AllTrue(ctx, was, file.b)
        /\ ScenariosHold(ctx.rec, file.b, file.done) /\ Further(file.b, was)
    BY <1>2 DEF Reading, ScenariosHold, Extends
  <1>8. ScenariosHold(ctx.rec, file.b, built)
    BY <1>3, <1>7, BuiltIs
  <1>9. /\ IsBinding(again) /\ again.refused = <<>> /\ again.rescues = 0
        /\ again.calls = file.b.calls /\ again.cited = file.b.cited
    BY <1>4, <1>7, AgainIs
  <1>10. Further(again, was) /\ (~ctx.tools => again.calls = was.calls)
    BY <1>7, <1>9 DEF Further, Extends
  <1>11. RescueBudget \in Nat
    BY AuthorRunAssumption
  <1>12. /\ Len(was.cited) \in Nat /\ Len(file.b.cited) \in Nat
         /\ Len(file.b.cited) <= Len(was.cited) + RescueBudget
    BY <1>7, CostIs
  <1>13. CASE ~file.failed /\ built # <<>>
    <2>1. d = Drafted(file.b, marked, omitted, "file")
      BY <1>1, <1>13
    <2>2. /\ d = [b |-> d.b, scenarios |-> d.scenarios, omitted |-> d.omitted, from |-> d.from]
          /\ d.b = file.b /\ d.scenarios = marked /\ d.from = "file"
      BY <2>1, DraftedParts
    <2>3. Altered(ctx.rec, built, marked, {})
      BY <1>6, <1>8, RejectionsAlter
    <2>4. ScenariosHold(ctx.rec, file.b, marked)
      BY <1>8, <2>3, AlteredHold
    <2>5. ~ctx.tools => file.b.calls = was.calls
      BY <1>7 DEF Extends
    <2>6. Document(ctx, was, d)
      BY <1>7, <1>11, <1>12, <2>2, <2>5 DEF Document
    <2>7. \E lines, f : ReadBy(ctx, was, answer, file, lines, f)
      BY <1>2, <1>13
    <2>8. QED
      BY <1>3, <1>6, <1>13, <2>2, <2>4, <2>6, <2>7
  <1>14. CASE ~(~file.failed /\ built # <<>>) /\ answer.steps = <<>>
    <2>1. d = Drafted(again, Fallback(ctx.rec), <<>>, "nothing")
      BY <1>1, <1>14
    <2>2. /\ d = [b |-> d.b, scenarios |-> d.scenarios, omitted |-> d.omitted, from |-> d.from]
          /\ d.b = again /\ d.scenarios = Fallback(ctx.rec) /\ d.from = "nothing"
      BY <2>1, DraftedParts
    <2>3. AllTrue(ctx, was, again)
      BY <1>9, None DEF AllTrue
    <2>4. Document(ctx, was, d)
      BY <1>9, <1>10, <1>11, <1>12, <2>2, <2>3 DEF Document
    <2>5. QED
      BY <2>2, <2>4
  <1>15. CASE ~(~file.failed /\ built # <<>>) /\ answer.steps # <<>>
    <2>1. d = Drafted(read.b, grouped, omitted, "steps")
      BY <1>1, <1>15
    <2>2. /\ d = [b |-> d.b, scenarios |-> d.scenarios, omitted |-> d.omitted, from |-> d.from]
          /\ d.b = read.b /\ d.scenarios = grouped /\ d.from = "steps"
      BY <2>1, DraftedParts
    <2>3. RawReading(ctx, again, read)
      BY <1>5, <1>9, StepsRead
    <2>4. /\ IsBinding(read.b) /\ Extends(ctx, read.b, again) /\ AllTrue(ctx, again, read.b)
          /\ StepsHold(ctx.rec, read.b, read.steps)
      BY <2>3 DEF RawReading
    <2>5. ScenariosHold(ctx.rec, read.b, Grouped(read.steps, answer.scenarios))
      BY <2>4, GroupedIs DEF IsAnswer, AreLists
    <2>6. ScenariosHold(ctx.rec, read.b, grouped)
      <3> DEFINE ss == Grouped(read.steps, answer.scenarios)
      <3>1. ScenariosHold(ctx.rec, read.b, ss) /\ grouped = ApplyRejections(ss, ctx.expectations)
        BY <1>6, <2>5
      <3> HIDE DEF ss
      <3>2. Altered(ctx.rec, ss, grouped, {})
        BY <3>1, RejectionsAlter
      <3>3. QED
        BY <3>1, <3>2, AlteredHold
    <2>7. Further(read.b, again)
      BY <2>4 DEF Extends
    <2>8. Further(read.b, was)
      BY <1>9, <1>10, <2>4, <2>7, FurtherTwice DEF IsBinding
    <2>9. AllTrue(ctx, was, read.b)
      BY <1>9, <1>10, <2>4, RefusalOfBefore DEF AllTrue
    <2>10. ~ctx.tools => read.b.calls = was.calls
      BY <1>10, <2>4 DEF Extends
    <2>11. Len(read.b.cited) \in Nat /\ Len(read.b.cited) <= Len(file.b.cited) + RescueBudget
      BY <1>9, <2>4, CostIs
    <2>12. Len(d.b.cited) <= Len(was.cited) + 2 * RescueBudget
      <3> DEFINE l == Len(was.cited)
                 m == Len(file.b.cited)
                 n == Len(read.b.cited)
      <3>1. l \in Nat /\ m \in Nat /\ n \in Nat /\ m <= l + RescueBudget /\ n <= m + RescueBudget
        BY <1>12, <2>11
      <3>2. Len(d.b.cited) = n
        BY <2>2
      <3> HIDE DEF l, m, n
      <3>3. n <= l + 2 * RescueBudget
        BY <1>11, <3>1
      <3>4. QED
        BY <3>2, <3>3 DEF l
    <2>13. Document(ctx, was, d)
      BY <2>2, <2>4, <2>8, <2>9, <2>10, <2>12 DEF Document
    <2>14. QED
      BY <2>2, <2>6, <2>13
  <1>16. QED
    BY <1>13, <1>14, <1>15

---------------------------------------------------------------------------
(* The run. *)
\* The log is one of replies, and of none without tools; the answer is one; and
\* while no file is broken what the document claims holds.
LogInv ==
    /\ log = [calls |-> log.calls, cited |-> log.cited] /\ IsLog(log.calls, log.cited)
    /\ ~tools => log.calls = <<>>
    /\ talk = [turn |-> talk.turn, forced |-> talk.forced, stop |-> talk.stop, answer |-> talk.answer]
    /\ IsAnswer(talk.answer)
    /\ stage = "drafted" /\ Intact => DocumentHolds(recording, log, drafted.scenarios)

RunInv == WholeInv /\ LogInv

\* Before the author starts, nothing is cited.
LEMMA InitLog == Init => LogInv
  <1>1. SUFFICES ASSUME Init PROVE LogInv
    OBVIOUS
  <1>2. /\ stage = "segment" /\ log = [calls |-> <<>>, cited |-> <<>>]
        /\ talk = [turn |-> 0, forced |-> 0, stop |-> "none", answer |-> NoAnswer]
    BY <1>1 DEF Init, SegmentInit
  <1>3. log.calls = <<>> /\ log.cited = <<>> /\ talk.answer = NoAnswer
    BY <1>2
  <1>4. IsSeq(<<>>) /\ \A i \in 1..Len(<<>>) : FALSE
    BY None
  <1>5. IsLog(<<>>, <<>>)
    BY <1>4 DEF IsLog
  <1>6. IsAnswer(NoAnswer)
    <2>1. \A i \in DOMAIN <<>> : FALSE
      BY None
    <2>2. /\ NoAnswer.background = <<>> /\ NoAnswer.lines = <<>> /\ NoAnswer.annotations = <<>>
          /\ NoAnswer.steps = <<>> /\ NoAnswer.scenarios = <<>>
      BY DEF NoAnswer
    <2>3. QED
      BY <1>4, <2>1, <2>2 DEF IsAnswer, AreLists, AreLines, AreAnnotations
  <1>7. QED
    BY <1>2, <1>3, <1>5, <1>6 DEF LogInv

\* A step of the conversation in which nothing is retrieved, and any later one that
\* leaves the log alone.
LEMMA LogRests ==
  ASSUME LogInv, log' = log, tools' = tools, stage' # "drafted",
         talk' = [turn |-> talk'.turn, forced |-> talk'.forced, stop |-> talk'.stop, answer |-> talk'.answer],
         talk'.answer = talk.answer \/ talk'.answer \in Answers
  PROVE  LogInv'
  <1>1. IsAnswer(talk'.answer)
    BY AuthorRunAssumption DEF LogInv
  <1>2. QED
    BY <1>1 DEF LogInv

\* A tool call of the conversation is logged and cites what it was answered.
LEMMA AskLog ==
  ASSUME RunInv, Ask
  PROVE  LogInv'
  <1>1. /\ recording \in Recordings /\ tools /\ tools' = tools /\ stage' = "asking"
        /\ IsLog(log.calls, log.cited)
        /\ talk = [turn |-> talk.turn, forced |-> talk.forced, stop |-> talk.stop, answer |-> talk.answer]
        /\ IsAnswer(talk.answer)
    BY DEF RunInv, WholeInv, LogInv, Ask, Turn, Kept
  <1>2. PICK request \in Requests :
           LET calls == Logged(log.calls, Answer(recording, request.tool, request.arg))
           IN log' = [calls |-> calls, cited |-> Append(log.cited, Len(calls))]
    BY DEF Ask
  <1> DEFINE reply == Answer(recording, request.tool, request.arg)
             more == [calls |-> Logged(log.calls, reply),
                      cited |-> Append(log.cited, Len(Logged(log.calls, reply)))]
  <1>3. log' = more
    BY <1>2
  <1>4. IsReply(reply) /\ reply \notin Damaged
    BY <1>1, AuthorRunAssumption, AnswerIs
  <1> HIDE DEF reply
  <1>5. /\ more.calls = Logged(log.calls, reply) /\ more.cited = Append(log.cited, Len(more.calls))
        /\ more = [calls |-> more.calls, cited |-> more.cited]
    OBVIOUS
  <1> HIDE DEF more
  <1>6. IsLog(more.calls, more.cited)
    BY <1>1, <1>4, <1>5, LoggedOn
  <1>7. PICK n, stop : talk' = [talk EXCEPT !.turn = n, !.stop = stop]
    BY DEF Ask
  <1>8. /\ talk' = [turn |-> talk'.turn, forced |-> talk'.forced, stop |-> talk'.stop, answer |-> talk'.answer]
        /\ talk'.answer = talk.answer
    BY <1>1, <1>7
  <1>9. QED
    BY <1>1, <1>3, <1>5, <1>6, <1>8 DEF LogInv

\* A file that is broken is seen to be.
LEMMA DamageLog ==
  ASSUME RunInv, Damage
  PROVE  LogInv' /\ ~Intact'
  <1>1. /\ tools' = tools /\ talk' = talk /\ log = [calls |-> log.calls, cited |-> log.cited]
        /\ IsLog(log.calls, log.cited) /\ (~tools => log.calls = <<>>) /\ IsAnswer(talk.answer)
        /\ talk = [turn |-> talk.turn, forced |-> talk.forced, stop |-> talk.stop, answer |-> talk.answer]
    BY DEF RunInv, LogInv, Damage
  <1>2. PICK n \in DOMAIN log.calls, other \in Damaged : log' = [log EXCEPT !.calls[n].stored = other]
    BY DEF Damage, Damaged
  <1> DEFINE calls == log.calls
             call == calls[n]
             broken == [call EXCEPT !.stored = other]
             after == [calls EXCEPT ![n] = broken]
  <1>3. log' = [log EXCEPT !.calls = after]
    BY <1>2
  <1>4. IsSeq(calls) /\ n \in 1..Len(calls) /\ IsCall(call)
    BY <1>1, IsSeqMeans DEF IsLog
  <1> HIDE DEF call, after
  <1>5. broken.got = call.got /\ broken.stored = other /\ broken = [got |-> broken.got, stored |-> broken.stored]
    BY <1>4 DEF IsCall
  <1>6. IsReply(other)
    <2>1. /\ NoFile.identity = <<>> /\ NoFile.tree = <<>> /\ NoFile.rows = <<>> /\ NoFile.other = <<>>
          /\ NoFile.query = <<>>
      BY DEF NoFile, Reply
    <2>2. /\ Reply("get_snapshot", "none").identity = <<>> /\ Reply("get_snapshot", "none").tree = <<>>
          /\ Reply("get_snapshot", "none").rows = <<>> /\ Reply("get_snapshot", "none").other = <<>>
          /\ Reply("get_snapshot", "none").query = <<>>
      BY DEF Reply
    <2>3. QED
      BY <2>1, <2>2, None DEF Damaged, IsReply, AreLists
  <1>7. IsCall(broken) /\ broken.stored # broken.got
    BY <1>2, <1>4, <1>5, <1>6 DEF IsCall
  <1> HIDE DEF broken
  <1>8. /\ IsSeq(after) /\ Len(after) = Len(calls) /\ after[n] = broken
        /\ \A j \in 1..Len(calls) : j # n => after[j] = calls[j]
    BY <1>4, ReplacedAt DEF after
  <1>9. log' = [calls |-> after, cited |-> log.cited]
    BY <1>1, <1>3
  <1>10. /\ log'.calls = after /\ log'.cited = log.cited /\ log' = [calls |-> log'.calls, cited |-> log'.cited]
    BY <1>9
  <1>11. IsLog(log'.calls, log'.cited)
    <2>1. \A j \in 1..Len(calls) : IsCall(calls[j])
      BY <1>1 DEF IsLog
    <2>2. \A j \in 1..Len(after) : IsCall(after[j])
      BY <1>7, <1>8, <2>1
    <2>3. QED
      BY <1>1, <1>8, <1>10, <2>2 DEF IsLog
  <1>12. ~tools' => log'.calls = <<>>
    <2>1. SUFFICES ASSUME ~tools PROVE FALSE
      BY <1>1
    <2>2. calls = <<>>
      BY <1>1, <2>1
    <2>3. QED
      BY <1>4, <2>2, None
  <1>13. DOMAIN log'.calls = 1..Len(after)
    BY <1>8, <1>10, IsSeqMeans
  <1>14. ~Intact'
    BY <1>4, <1>7, <1>8, <1>10, <1>13 DEF Intact
  <1>15. QED
    BY <1>1, <1>10, <1>11, <1>12, <1>14 DEF LogInv

\* What the document is put together from.
LEMMA WriteIs ==
  ASSUME RunInv, Write
  PROVE  \E d : /\ d = Parse(Context, Binding, talk.answer)
                /\ log' = [calls |-> d.b.calls, cited |-> d.b.cited]
                /\ drafted' = [d EXCEPT !.scenarios = ApplyIntentNotes(recording, d.scenarios)]
                /\ Document(Context, Binding, d)
                /\ ScenariosHold(recording, d.b, d.scenarios) \/ d.scenarios = Fallback(recording)
                /\ d.from = "file" =>
                     \E lines, f, file : ReadBy(Context, Binding, talk.answer, file, lines, f)
                       /\ ~file.failed /\ d.b = file.b
                       /\ d.scenarios = ApplyRejections(NotEmpty(file.done), expectations)
                /\ IsBinding(Binding) /\ recording \in Recordings
                /\ Context.rec = recording /\ Context.tools = tools
                /\ Context.expectations = expectations
                /\ Binding.calls = log.calls /\ Binding.cited = log.cited
  <1> DEFINE ctx == Context
             was == Binding
             d == Parse(ctx, was, talk.answer)
  <1>1. /\ ctx.rec = recording /\ ctx.tools = tools /\ ctx.expectations = expectations
        /\ was.calls = log.calls /\ was.cited = log.cited /\ was.rescues = 0 /\ was.refused = <<>>
        /\ was = [calls |-> was.calls, cited |-> was.cited, rescues |-> was.rescues,
                  refused |-> was.refused]
    BY DEF Context, Binding
  <1>2. /\ log' = [calls |-> d.b.calls, cited |-> d.b.cited]
        /\ drafted' = [d EXCEPT !.scenarios = ApplyIntentNotes(recording, d.scenarios)]
    BY DEF Write
  <1>3. d = Parse(ctx, was, talk.answer) /\ ctx = Context /\ was = Binding
    OBVIOUS
  <1> HIDE DEF ctx, was, d
  <1>4. IsBinding(was)
    BY <1>1, None DEF IsBinding, RunInv, LogInv
  <1>5. ctx.rec \in Recordings /\ IsAnswer(talk.answer)
    BY <1>1 DEF RunInv, WholeInv, LogInv
  <1>6. /\ Document(ctx, was, d)
        /\ ScenariosHold(ctx.rec, d.b, d.scenarios) \/ d.scenarios = Fallback(ctx.rec)
        /\ d.from = "file" =>
              \E lines, f, file : ReadBy(ctx, was, talk.answer, file, lines, f) /\ ~file.failed
                /\ d.b = file.b
                /\ d.scenarios = ApplyRejections(NotEmpty(file.done), ctx.expectations)
    BY <1>1, <1>3, <1>4, <1>5, ParseIs
  <1>7. QED
    BY <1>1, <1>2, <1>3, <1>4, <1>5, <1>6

\* A document holds of whatever has the calls and the citations it holds of.
LEMMA HoldsOfThose ==
  ASSUME NEW rec, NEW b, NEW c, c.calls = b.calls, c.cited = b.cited, NEW ss, DocumentHolds(rec, b, ss)
  PROVE  DocumentHolds(rec, c, ss)
  <1>1. \A claim : ClaimHolds(rec, b, claim) => ClaimHolds(rec, c, claim)
    BY DEF ClaimHolds
  <1>2. QED
    BY <1>1 DEF DocumentHolds

\* The document holds of the log it is written with.
LEMMA WriteLog ==
  ASSUME RunInv, Write
  PROVE  LogInv'
  <1>1. PICK d : /\ log' = [calls |-> d.b.calls, cited |-> d.b.cited]
                 /\ drafted' = [d EXCEPT !.scenarios = ApplyIntentNotes(recording, d.scenarios)]
                 /\ Document(Context, Binding, d)
                 /\ ScenariosHold(recording, d.b, d.scenarios) \/ d.scenarios = Fallback(recording)
                 /\ recording \in Recordings
                 /\ Context.tools = tools /\ Binding.calls = log.calls
    BY WriteIs
  <1> DEFINE told == ApplyIntentNotes(recording, d.scenarios)
  <1>2. told = ApplyIntentNotes(recording, d.scenarios)
    OBVIOUS
  <1> HIDE DEF told
  <1>3. DocumentHolds(recording, d.b, told)
    <2>1. CASE ScenariosHold(recording, d.b, d.scenarios)
      <3>1. Altered(recording, d.scenarios, told, Sayings(recording))
        BY <1>1, <1>2, <2>1, NotesAlter
      <3>2. ScenariosHold(recording, d.b, told)
        BY <2>1, <3>1, AlteredHold
      <3>3. QED
        BY <3>2, ScenariosAreDocument
    <2>2. CASE d.scenarios = Fallback(recording)
      BY <1>1, <1>2, <2>2, FallbackIs
    <2>3. QED
      BY <1>1, <2>1, <2>2
  <1>4. /\ d = [b |-> d.b, scenarios |-> d.scenarios, omitted |-> d.omitted, from |-> d.from]
        /\ IsBinding(d.b) /\ (~tools => d.b.calls = log.calls)
    BY <1>1 DEF Document
  <1>5. drafted' = [d EXCEPT !.scenarios = told]
    BY <1>1, <1>2
  <1>6. drafted'.scenarios = told
    BY <1>4, <1>5
  <1>7. /\ log'.calls = d.b.calls /\ log'.cited = d.b.cited
        /\ log' = [calls |-> log'.calls, cited |-> log'.cited]
    BY <1>1
  <1>8. DocumentHolds(recording, log', told)
    BY <1>3, <1>7, HoldsOfThose
  <1>9. IsLog(log'.calls, log'.cited)
    BY <1>4, <1>7 DEF IsBinding
  <1>10. recording' = recording /\ tools' = tools /\ talk' = talk
    BY DEF Write, sessionVars
  <1>11. ~tools => log'.calls = <<>>
    BY <1>4, <1>7 DEF RunInv, LogInv
  <1>12. QED
    BY <1>6, <1>7, <1>8, <1>9, <1>10, <1>11 DEF RunInv, LogInv

\* Every step of the run keeps the invariant.
LEMMA NextRun == RunInv /\ [Next]_runVars => RunInv'
  <1>1. SUFFICES ASSUME RunInv, [Next]_runVars PROVE RunInv'
    OBVIOUS
  <1>2. WholeInv'
    BY <1>1, NextWhole DEF RunInv
  <1>3. talk = [turn |-> talk.turn, forced |-> talk.forced, stop |-> talk.stop, answer |-> talk.answer]
    BY <1>1 DEF RunInv, LogInv
  <1>4. CASE Place \/ Finish
    <2>1. log' = log /\ tools' = tools /\ talk' = talk /\ stage' # "drafted"
      BY <1>4 DEF Place, Finish, authorVars, PlaceEvent, FinishSegments
    <2>2. QED
      BY <1>1, <1>2, <1>3, <2>1, LogRests DEF RunInv
  <1>5. CASE Guess \/ OutOfTurns \/ Gate \/ Judge \/ Suggest
    <2>1. log' = log /\ tools' = tools /\ talk' = talk /\ stage' # "drafted"
      BY <1>5 DEF Guess, OutOfTurns, Gate, Judge, Suggest, Kept
    <2>2. QED
      BY <1>1, <1>2, <1>3, <2>1, LogRests DEF RunInv
  <1>6. CASE AskWithoutTools \/ AskPastBudget
    <2> DEFINE Next1(stop) == [talk EXCEPT !.turn = @ + 1, !.forced = @ + 1, !.stop = stop]
    <2>1. PICK stop : talk' = Next1(stop)
      <3>1. CASE AskWithoutTools
        <4>1. talk' = Next1(talk.stop)
          BY <3>1 DEF AskWithoutTools, Told
        <4>2. QED
          BY <4>1
      <3>2. CASE AskPastBudget
        <4>1. talk' = Next1("budget_exhausted")
          BY <3>2 DEF AskPastBudget, Told
        <4>2. QED
          BY <4>1
      <3>3. QED
        BY <1>6, <3>1, <3>2
    <2>2. /\ talk' = [turn |-> talk'.turn, forced |-> talk'.forced, stop |-> talk'.stop,
                      answer |-> talk'.answer]
          /\ talk'.answer = talk.answer
      BY <1>3, <2>1
    <2>3. log' = log /\ tools' = tools /\ stage' # "drafted"
      BY <1>6 DEF AskWithoutTools, AskPastBudget, Told, Kept
    <2>4. QED
      BY <1>1, <1>2, <2>2, <2>3, LogRests DEF RunInv
  <1>7. CASE AnswerUnretrieved
    <2>1. PICK n, m : talk' = [talk EXCEPT !.turn = n, !.forced = m]
      BY <1>7 DEF AnswerUnretrieved
    <2>2. /\ talk' = [turn |-> talk'.turn, forced |-> talk'.forced, stop |-> talk'.stop,
                      answer |-> talk'.answer]
          /\ talk'.answer = talk.answer
      BY <1>3, <2>1
    <2>3. log' = log /\ tools' = tools /\ stage' # "drafted"
      BY <1>7 DEF AnswerUnretrieved, Turn, Kept
    <2>4. QED
      BY <1>1, <1>2, <2>2, <2>3, LogRests DEF RunInv
  <1>8. CASE AnswerAccepted
    <2>1. PICK answer \in Answers : talk' = [talk EXCEPT !.turn = @ + 1, !.answer = answer]
      BY <1>8 DEF AnswerAccepted
    <2>2. /\ talk' = [turn |-> talk'.turn, forced |-> talk'.forced, stop |-> talk'.stop,
                      answer |-> talk'.answer]
          /\ talk'.answer \in Answers
      BY <1>3, <2>1
    <2>3. log' = log /\ tools' = tools /\ stage' # "drafted"
      BY <1>8 DEF AnswerAccepted, Kept
    <2>4. QED
      BY <1>1, <1>2, <2>2, <2>3, LogRests DEF RunInv
  <1>9. CASE Ask
    BY <1>1, <1>2, <1>9, AskLog DEF RunInv
  <1>10. CASE Damage
    BY <1>1, <1>2, <1>10, DamageLog DEF RunInv
  <1>11. CASE Write
    BY <1>1, <1>2, <1>11, WriteLog DEF RunInv
  <1>12. CASE UNCHANGED runVars
    <2>1. /\ log' = log /\ tools' = tools /\ talk' = talk /\ stage' = stage /\ drafted' = drafted
          /\ recording' = recording
      BY <1>12 DEF runVars, segmentVars, authorVars
    <2>2. LogInv'
      BY <1>1, <2>1 DEF RunInv, LogInv, Intact
    <2>3. QED
      BY <1>2, <2>2 DEF RunInv
  <1>13. QED
    BY <1>1, <1>4, <1>5, <1>6, <1>7, <1>8, <1>9, <1>10, <1>11, <1>12 DEF Next

\* What can be said of the log and the document, whatever is recorded, asked and
\* answered.
THEOREM RunInvariant == Spec => []RunInv
  <1>1. Init => RunInv
    BY InitWhole, InitLog DEF RunInv
  <1>2. QED
    BY <1>1, NextRun, PTL DEF Spec

\* In a state of the invariant, what a finished claim says is there.
LEMMA RunHolds ==
  ASSUME RunInv
  PROVE  ProvedClaimsHold
  <1>1. SUFFICES ASSUME stage = "drafted", Intact, NEW claim \in ToSet(DraftedClaims),
                        Bound(claim), ~claim.unresolved
                 PROVE  /\ claim.call \in ToSet(log.cited)
                        /\ Supported(log.calls, claim) = "true"
                        /\ IF Negative(claim.predicate)
                           THEN log.calls[claim.call].got.event = claim.event
                           ELSE ContainsAt(recording, claim.literal, claim.event)
    BY DEF ProvedClaimsHold
  <1> DEFINE ss == drafted.scenarios
             steps == FlattenSeq(ss)
             cc == [i \in DOMAIN steps |-> steps[i].claims]
  <1>2. DocumentHolds(recording, log, ss) /\ IsLog(log.calls, log.cited)
    BY <1>1 DEF RunInv, LogInv
  <1>3. claim \in ToSet(FlattenSeq(cc))
    BY <1>1 DEF DraftedClaims, DraftedSteps
  <1>4. cc = [i \in DOMAIN steps |-> cc[i]] /\ \A i \in DOMAIN steps : cc[i] = steps[i].claims
    OBVIOUS
  <1>5. steps = FlattenSeq(ss)
    OBVIOUS
  <1> HIDE DEF ss, steps, cc
  <1>6. SeqOfSeqs(ss)
    BY <1>2 DEF DocumentHolds, SeqOfSeqs
  <1>7. IsSeq(steps) /\ \A x : x \in ToSet(steps) <=> \E k \in 1..Len(ss) : x \in ToSet(ss[k])
    BY <1>5, <1>6, StartsOf, FlatRange
  <1>8. /\ Len(steps) \in Nat /\ DOMAIN steps = 1..Len(steps)
        /\ ToSet(steps) = {steps[i] : i \in 1..Len(steps)}
    BY <1>7, IsSeqMeans
  <1>9. ASSUME NEW i \in 1..Len(steps)
        PROVE  IsSeq(steps[i].claims)
               /\ \A k \in 1..Len(steps[i].claims) : ClaimHolds(recording, log, steps[i].claims[k])
    <2>1. steps[i] \in ToSet(steps)
      BY <1>8
    <2>2. PICK n \in 1..Len(ss) : steps[i] \in ToSet(ss[n])
      BY <1>7, <2>1
    <2>3. ToSet(ss[n]) = {ss[n][j] : j \in 1..Len(ss[n])}
      BY <1>6, IsSeqMeans DEF SeqOfSeqs
    <2>4. PICK j \in 1..Len(ss[n]) : steps[i] = ss[n][j]
      BY <2>2, <2>3
    <2>5. QED
      BY <1>2, <2>4 DEF DocumentHolds
  <1>10. IsSeq(cc) /\ Len(cc) = Len(steps)
    BY <1>4, <1>8, Mapped
  <1>11. SeqOfSeqs(cc)
    BY <1>4, <1>8, <1>9, <1>10 DEF SeqOfSeqs
  <1>12. PICK i \in 1..Len(steps) : claim \in ToSet(cc[i])
    BY <1>3, <1>10, <1>11, FlatRange
  <1>13. cc[i] = steps[i].claims /\ IsSeq(steps[i].claims)
    BY <1>4, <1>8, <1>9
  <1>14. PICK k \in 1..Len(steps[i].claims) : claim = steps[i].claims[k]
    BY <1>12, <1>13, IsSeqMeans
  <1>15. ClaimHolds(recording, log, claim)
    BY <1>9, <1>14
  <1>16. /\ claim.call \in ToSet(log.cited)
         /\ Evaluate(log.calls[claim.call].stored, claim.literal, claim.predicate) = "true"
         /\ IF Negative(claim.predicate) THEN log.calls[claim.call].got.event = claim.event
            ELSE ContainsAt(recording, claim.literal, claim.event)
    BY <1>1, <1>15 DEF ClaimHolds
  <1>17. claim.call \in 1..Len(log.calls)
    BY <1>2, <1>16, IsSeqMeans DEF IsLog
  <1>18. DOMAIN log.calls = 1..Len(log.calls)
    BY <1>2, IsSeqMeans DEF IsLog
  <1>19. Supported(log.calls, claim) = "true"
    BY <1>1, <1>16, <1>17, <1>18 DEF Supported, Intact
  <1>20. QED
    BY <1>16, <1>19

\* What the author bound holds, whatever is recorded, asked and answered.
THEOREM ProvedClaimsAlwaysHold == Spec => []ProvedClaimsHold
  BY RunInvariant, RunHolds, PTL

\* What RefusalsAreTrue says of a step.
RefusalsTrueNow ==
    /\ ~tools => log'.calls = <<>>
    /\ Len(log'.cited) - Len(log.cited)
         <= (IF drafted'.from = "file" THEN 1 ELSE 2) * RescueBudget
    /\ \A r \in ToSet(drafted'.b.refused) : r.why = "never retrieved" =>
        /\ Corrupted(log.calls, log.cited) = {}
        /\ ~r.negative =>
             /\ \A n \in ToSet(log.cited) : ~ResponseSupports(log.calls[n].got, r.literal)
             /\ tools /\ r.event # "none" /\ drafted'.b.rescues < RescueBudget =>
                  ~ContainsLiteral(GetSnapshot(recording, r.event, "after"), r.literal)

\* Only Write makes a document of an answer.
LEMMA WrittenByWrite ==
  ASSUME [Next]_runVars, stage = "answered", stage' = "drafted"
  PROVE  Write
  <1>1. ~(Place \/ Finish)
    BY DEF Place, Finish, PlaceEvent, FinishSegments
  <1>2. ~(Guess \/ Ask \/ AskWithoutTools \/ AskPastBudget \/ AnswerUnretrieved \/ AnswerAccepted
          \/ OutOfTurns)
    BY DEF Guess, Ask, AskWithoutTools, AskPastBudget, AnswerUnretrieved, AnswerAccepted, OutOfTurns, Turn
  <1>3. ~(Gate \/ Judge \/ Suggest)
    BY DEF Gate, Judge, Suggest
  <1>4. ~Damage
    BY DEF Damage
  <1>5. ~UNCHANGED runVars
    BY DEF runVars, segmentVars
  <1>6. QED
    BY <1>1, <1>2, <1>3, <1>4, <1>5 DEF Next

\* What was retrieved on top of a number of citations is what there is more of them.
LEMMA NoMoreThan ==
  ASSUME NEW m \in Nat, NEW n \in Nat, NEW k \in Nat, NEW p \in {1, 2}, n <= m + p * k
  PROVE  n - m <= p * k
  <1>1. p * k \in Nat
    BY SMT
  <1> DEFINE q == p * k
  <1> HIDE DEF q
  <1>2. q \in Nat /\ n <= m + q
    BY <1>1 DEF q
  <1>3. n - m <= q
    BY <1>2
  <1>4. QED
    BY <1>3 DEF q

\* A document is written with refusals that are true of the log before.
LEMMA RefusalsWritten ==
  ASSUME RunInv, Write
  PROVE  RefusalsTrueNow
  <1>1. PICK d : /\ log' = [calls |-> d.b.calls, cited |-> d.b.cited]
                 /\ drafted' = [d EXCEPT !.scenarios = ApplyIntentNotes(recording, d.scenarios)]
                 /\ Document(Context, Binding, d)
                 /\ IsBinding(Binding) /\ Context.rec = recording /\ Context.tools = tools
                 /\ Binding.calls = log.calls /\ Binding.cited = log.cited
    BY WriteIs
  <1> DEFINE ctx == Context
             was == Binding
             told == ApplyIntentNotes(recording, d.scenarios)
  <1>2. /\ ctx.rec = recording /\ ctx.tools = tools /\ was.calls = log.calls /\ was.cited = log.cited
        /\ IsBinding(was) /\ drafted' = [d EXCEPT !.scenarios = told] /\ Document(ctx, was, d)
    BY <1>1
  <1> HIDE DEF ctx, was, told
  <1>3. /\ d = [b |-> d.b, scenarios |-> d.scenarios, omitted |-> d.omitted, from |-> d.from]
        /\ IsBinding(d.b) /\ AllTrue(ctx, was, d.b) /\ (~tools => d.b.calls = log.calls)
        /\ Len(d.b.cited) <= Len(log.cited) + (IF d.from = "file" THEN 1 ELSE 2) * RescueBudget
    BY <1>2 DEF Document
  <1>4. drafted' = [b |-> d.b, scenarios |-> told, omitted |-> d.omitted, from |-> d.from]
    BY <1>2, <1>3
  <1>5. drafted'.b = d.b /\ drafted'.from = d.from
    BY <1>4
  <1>6. log'.calls = d.b.calls /\ log'.cited = d.b.cited
    BY <1>1
  <1>7. ~tools => log'.calls = <<>>
    BY <1>3, <1>6 DEF RunInv, LogInv
  <1>8. Len(log'.cited) - Len(log.cited) <= (IF drafted'.from = "file" THEN 1 ELSE 2) * RescueBudget
    <2> DEFINE m == Len(log.cited)
               n == Len(log'.cited)
               p == IF drafted'.from = "file" THEN 1 ELSE 2
    <2>1. m \in Nat /\ n \in Nat
      BY <1>2, <1>3, <1>6, IsSeqMeans DEF IsBinding, IsLog
    <2>2. n <= m + p * RescueBudget
      BY <1>3, <1>5, <1>6
    <2>3. RescueBudget \in Nat /\ p \in {1, 2}
      BY AuthorRunAssumption
    <2> HIDE DEF m, n, p
    <2>4. n - m <= p * RescueBudget
      BY <2>1, <2>2, <2>3, NoMoreThan
    <2>5. QED
      BY <2>4 DEF m, n, p
  <1>9. ASSUME NEW r \in ToSet(drafted'.b.refused), r.why = "never retrieved"
        PROVE  /\ Corrupted(log.calls, log.cited) = {}
               /\ ~r.negative =>
                    /\ \A n \in ToSet(log.cited) : ~ResponseSupports(log.calls[n].got, r.literal)
                    /\ tools /\ r.event # "none" /\ drafted'.b.rescues < RescueBudget =>
                         ~ContainsLiteral(GetSnapshot(recording, r.event, "after"), r.literal)
    <2>1. IsSeq(d.b.refused)
      BY <1>3 DEF IsBinding
    <2> DEFINE refused == d.b.refused
    <2>5. r \in ToSet(refused)
      BY <1>5, <1>9
    <2>6. IsSeq(refused)
      BY <2>1
    <2> HIDE DEF refused
    <2>7. \E j \in 1..Len(refused) : r = refused[j]
      BY <2>5, <2>6, IsSeqMeans
    <2>2. PICK i \in 1..Len(d.b.refused) : r = d.b.refused[i]
      BY <2>7 DEF refused
    <2>3. TrueRefusal(ctx, was, d.b, r)
      BY <1>3, <2>2 DEF AllTrue
    <2>4. QED
      BY <1>2, <1>5, <1>9, <2>3 DEF TrueRefusal
  <1>10. QED
    BY <1>7, <1>8, <1>9 DEF RefusalsTrueNow

\* Whatever is recorded, asked and answered, a refusal that blames the run is true,
\* and the rescues stay within their bound.
THEOREM RefusalsAreAlwaysTrue == Spec => RefusalsAreTrue
  <1>1. RunInv /\ [Next]_runVars => [stage = "answered" /\ stage' = "drafted" => RefusalsTrueNow]_runVars
    BY WrittenByWrite, RefusalsWritten
  <1>2. RefusalsAreTrue <=> [][stage = "answered" /\ stage' = "drafted" => RefusalsTrueNow]_runVars
    BY PTL DEF RefusalsAreTrue, RefusalsTrueNow
  <1>3. QED
    BY <1>1, <1>2, RunInvariant, PTL DEF Spec

---------------------------------------------------------------------------
(* What is read, and what of it is written. *)
\* A sequence with an element replaced.
Put(s, i, e, t) ==
    /\ IsSeq(t) /\ Len(t) = Len(s) /\ t[i] = e
    /\ \A j \in 1..Len(s) : j # i => t[j] = s[j]

\* What EXCEPT makes is one.
LEMMA PutAt ==
  ASSUME NEW s, IsSeq(s), NEW i \in 1..Len(s), NEW e, NEW t, t = [s EXCEPT ![i] = e]
  PROVE  Put(s, i, e, t)
  <1> DEFINE u == [s EXCEPT ![i] = e]
  <1>1. IsSeq(u)
    BY ReplacedAt
  <1>2. Len(u) = Len(s)
    BY ReplacedAt
  <1>3. u[i] = e
    BY ReplacedAt
  <1>4. \A j \in 1..Len(s) : j # i => u[j] = s[j]
    BY ReplacedAt
  <1>5. t = u
    OBVIOUS
  <1> HIDE DEF u
  <1>6. QED
    BY <1>1, <1>2, <1>3, <1>4, <1>5 DEF Put

\* An element more at the end of the last part that has any.
LEMMA FlatGrown ==
  ASSUME NEW ss, SeqOfSeqs(ss), NEW at \in 1..Len(ss), \A i \in (at + 1)..Len(ss) : ss[i] = <<>>,
         NEW e, NEW tt, Put(ss, at, Append(ss[at], e), tt)
  PROVE  SeqOfSeqs(tt) /\ FlattenSeq(tt) = Append(FlattenSeq(ss), e)
  <1> DEFINE s == ss[at]
             grown == Append(s, e)
             M == Len(ss)
  <1>1. IsSeq(ss) /\ M \in Nat /\ \A i \in 1..M : IsSeq(ss[i])
    BY IsSeqMeans DEF SeqOfSeqs
  <1>2. Put(ss, at, grown, tt) /\ s = ss[at] /\ at \in 1..M
    OBVIOUS
  <1>3. IsSeq(s) /\ IsSeq(grown)
    BY <1>1, Appended
  <1>4. grown = Append(s, e)
    OBVIOUS
  <1> HIDE DEF s, grown
  <1>5. IsSeq(tt) /\ Len(tt) = M /\ tt[at] = grown /\ \A j \in 1..M : j # at => tt[j] = ss[j]
    BY <1>2 DEF Put
  <1>6. SeqOfSeqs(tt)
    BY <1>1, <1>3, <1>5 DEF SeqOfSeqs
  <1>7. /\ at \in 0..M /\ at - 1 \in 0..M
        /\ \A i \in 1..(at - 1) : i \in 1..M /\ i # at
        /\ \A i \in (at + 1)..M : i \in 1..M /\ i # at
    BY <1>1, <1>2
  <1>8. FlattenSeq(ss) = Upto(ss, at)
    BY <1>7, FlatTail
  <1>9. FlattenSeq(tt) = Upto(tt, at)
    <2>1. \A i \in (at + 1)..Len(tt) : tt[i] = <<>>
      BY <1>5, <1>7
    <2>2. at \in 0..Len(tt)
      BY <1>5, <1>7
    <2>3. QED
      BY <1>6, <2>1, <2>2, FlatTail
  <1>10. Upto(ss, at - 1) = Upto(tt, at - 1)
    BY <1>5, <1>6, <1>7, UptoSame
  <1>11. Upto(ss, at) = Upto(ss, at - 1) \o s /\ IsSeq(Upto(ss, at - 1))
    BY <1>2, <1>7, FlatUnfolds
  <1>12. Upto(tt, at) = Upto(tt, at - 1) \o grown
    BY <1>2, <1>5, <1>6, FlatUnfolds
  <1>13. Upto(ss, at - 1) \o grown = Append(Upto(ss, at - 1) \o s, e)
    BY <1>3, <1>4, <1>11, CatAppend
  <1>14. QED
    BY <1>6, <1>8, <1>9, <1>10, <1>11, <1>12, <1>13

\* These end in the one and in the other.
Differ(s, t, d, e) == \E base : IsSeq(base) /\ s = Append(base, d) /\ t = Append(base, e)

\* Another last element in the place of the last one.
LEMMA FlatLast ==
  ASSUME NEW ss, SeqOfSeqs(ss), NEW at \in 1..Len(ss), \A i \in (at + 1)..Len(ss) : ss[i] = <<>>,
         ss[at] # <<>>, NEW e, NEW tt, Put(ss, at, Append(Front(ss[at]), e), tt)
  PROVE  Differ(FlattenSeq(ss), FlattenSeq(tt), Last(ss[at]), e)
  <1> DEFINE s == ss[at]
             front == Front(s)
             last == Last(s)
             rr == [ss EXCEPT ![at] = front]
             M == Len(ss)
  <1>1. IsSeq(ss) /\ M \in Nat /\ DOMAIN ss = 1..M /\ \A i \in 1..M : IsSeq(ss[i])
    BY IsSeqMeans DEF SeqOfSeqs
  <1>2. IsSeq(front) /\ s = Append(front, last)
    BY <1>1, FrontIs
  <1>3. /\ s = ss[at] /\ last = Last(ss[at]) /\ front = Front(ss[at]) /\ rr = [ss EXCEPT ![at] = front]
        /\ Put(ss, at, Append(front, e), tt) /\ at \in 1..M
    OBVIOUS
  <1> HIDE DEF s, front, last, rr
  <1>4. IsSeq(rr) /\ Len(rr) = M /\ rr[at] = front /\ \A j \in 1..M : j # at => rr[j] = ss[j]
    <2>1. Put(ss, at, front, rr)
      BY <1>1, <1>3, PutAt
    <2>2. QED
      BY <2>1 DEF Put
  <1>5. SeqOfSeqs(rr)
    BY <1>1, <1>2, <1>4 DEF SeqOfSeqs
  <1>7. \A i \in (at + 1)..M : i \in 1..M /\ i # at
    BY <1>1, <1>3
  <1>8. at \in 1..Len(rr) /\ \A i \in (at + 1)..Len(rr) : rr[i] = <<>>
    BY <1>3, <1>4, <1>7
  <1>9. Put(rr, at, Append(rr[at], e), tt)
    BY <1>1, <1>3, <1>4 DEF Put
  <1>10. Put(rr, at, Append(rr[at], last), ss)
    BY <1>1, <1>2, <1>3, <1>4 DEF Put
  <1>11. FlattenSeq(tt) = Append(FlattenSeq(rr), e)
    BY <1>5, <1>8, <1>9, FlatGrown
  <1>12. FlattenSeq(ss) = Append(FlattenSeq(rr), last)
    BY <1>5, <1>8, <1>10, FlatGrown
  <1>13. IsSeq(FlattenSeq(rr))
    BY <1>5, StartsOf
  <1>14. QED
    BY <1>3, <1>11, <1>12, <1>13 DEF Differ

\* One sequence after another.
Joined(s, t, u) ==
    /\ IsSeq(u) /\ Len(u) = Len(s) + Len(t)
    /\ \A i \in 1..Len(s) : u[i] = s[i]
    /\ \A i \in 1..Len(t) : u[Len(s) + i] = t[i]

\* What \o makes is one.
LEMMA CatIs ==
  ASSUME NEW s, NEW t, IsSeq(s), IsSeq(t)
  PROVE  Joined(s, t, s \o t)
  BY CatOf DEF Joined

\* The sentences of a step: its own, and those of its claims. The sentences and the
\* claims of some steps.
Sentence(step) == <<step.text>> \o [k \in DOMAIN step.claims |-> step.claims[k].text]
Saying(steps) == [i \in DOMAIN steps |-> Sentence(steps[i])]
Claiming(steps) == [i \in DOMAIN steps |-> steps[i].claims]
ReadOf(steps) == FlattenSeq(Saying(steps))
ClaimsOf(steps) == FlattenSeq(Claiming(steps))

\* Those that could not be bound.
Unbound(claims) == {i \in DOMAIN claims : ~Bound(claims[i])}

\* Steps with claims.
AreSteps(steps) == IsSeq(steps) /\ \A i \in 1..Len(steps) : IsSeq(steps[i].claims)

\* A step has a sentence of its own and one for every claim.
LEMMA SentenceIs ==
  ASSUME NEW step, IsSeq(step.claims)
  PROVE  /\ IsSeq(Sentence(step)) /\ Len(Sentence(step)) = 1 + Len(step.claims)
         /\ Sentence(step)[1] = step.text
         /\ \A k \in 1..Len(step.claims) : Sentence(step)[1 + k] = step.claims[k].text
  <1> DEFINE claims == step.claims
             texts == [k \in DOMAIN claims |-> claims[k].text]
             own == <<step.text>>
  <1>1. Sentence(step) = own \o texts /\ IsSeq(claims)
    BY DEF Sentence
  <1>2. Len(claims) \in Nat /\ DOMAIN claims = 1..Len(claims)
    BY <1>1, IsSeqMeans
  <1>3. texts = [k \in DOMAIN claims |-> texts[k]] /\ \A k \in DOMAIN claims : texts[k] = claims[k].text
    OBVIOUS
  <1>4. IsSeq(own) /\ Len(own) = 1 /\ own[1] = step.text
    BY One
  <1>5. claims = step.claims
    OBVIOUS
  <1> HIDE DEF texts, own, claims
  <1>6. IsSeq(texts) /\ Len(texts) = Len(claims)
    BY <1>2, <1>3, Mapped
  <1> DEFINE all == own \o texts
  <1>8. Sentence(step) = all
    BY <1>1
  <1>7. Joined(own, texts, all)
    BY <1>4, <1>6, CatIs
  <1> HIDE DEF all
  <1>9. IsSeq(all) /\ Len(all) = 1 + Len(texts) /\ all[1] = own[1]
    <2>1. 1 \in 1..Len(own)
      BY <1>4
    <2>2. QED
      BY <1>4, <1>7, <2>1 DEF Joined
  <1>10. \A i \in 1..Len(texts) : all[1 + i] = texts[i]
    BY <1>4, <1>7 DEF Joined
  <1>11. \A k \in 1..Len(claims) : all[1 + k] = claims[k].text
    BY <1>2, <1>3, <1>6, <1>10
  <1>12. QED
    BY <1>4, <1>5, <1>6, <1>8, <1>9, <1>11

\* One step more: its sentences come last, and its claims.
LEMMA StepMore ==
  ASSUME NEW steps, AreSteps(steps), NEW step, IsSeq(step.claims)
  PROVE  /\ AreSteps(Append(steps, step))
         /\ SeqOfSeqs(Saying(steps)) /\ SeqOfSeqs(Claiming(steps))
         /\ ReadOf(Append(steps, step)) = ReadOf(steps) \o Sentence(step)
         /\ ClaimsOf(Append(steps, step)) = ClaimsOf(steps) \o step.claims
         /\ IsSeq(ReadOf(steps)) /\ IsSeq(ClaimsOf(steps))
  <1> DEFINE more == Append(steps, step)
             M == Len(steps)
  <1>1. IsSeq(steps) /\ M \in Nat /\ DOMAIN steps = 1..M /\ \A i \in 1..M : IsSeq(steps[i].claims)
    BY IsSeqMeans DEF AreSteps
  <1>2. /\ IsSeq(more) /\ Len(more) = M + 1 /\ more[M + 1] = step
        /\ \A i \in 1..M : more[i] = steps[i]
    BY <1>1, Appended
  <1> HIDE DEF more
  <1>3. DOMAIN more = 1..(M + 1)
    BY <1>2, IsSeqMeans
  <1>4. AreSteps(more)
    <2>1. ASSUME NEW i \in 1..(M + 1) PROVE IsSeq(more[i].claims)
      <3>1. i \in 1..M \/ i = M + 1
        BY <1>1
      <3>2. QED
        BY <1>1, <1>2, <3>1
    <2>2. QED
      BY <1>2, <2>1 DEF AreSteps
  <1> DEFINE aa == Saying(steps)
             bb == Saying(more)
             cc == Claiming(steps)
             dd == Claiming(more)
  <1>5. /\ aa = [i \in DOMAIN steps |-> aa[i]] /\ \A i \in 1..M : aa[i] = Sentence(steps[i])
        /\ cc = [i \in DOMAIN steps |-> cc[i]] /\ \A i \in 1..M : cc[i] = steps[i].claims
    BY <1>1 DEF Saying, Claiming
  <1>6. /\ bb = [i \in DOMAIN more |-> bb[i]] /\ \A i \in 1..(M + 1) : bb[i] = Sentence(more[i])
        /\ dd = [i \in DOMAIN more |-> dd[i]] /\ \A i \in 1..(M + 1) : dd[i] = more[i].claims
    BY <1>3 DEF Saying, Claiming
  <1> HIDE DEF aa, bb, cc, dd
  <1>7. IsSeq(aa) /\ Len(aa) = M /\ IsSeq(cc) /\ Len(cc) = M
    BY <1>1, <1>5, Mapped
  <1>8. IsSeq(bb) /\ Len(bb) = M + 1 /\ IsSeq(dd) /\ Len(dd) = M + 1
    BY <1>1, <1>2, <1>3, <1>6, Mapped
  <1>9. SeqOfSeqs(aa) /\ SeqOfSeqs(cc)
    BY <1>1, <1>5, <1>7, SentenceIs DEF SeqOfSeqs
  <1>10. \A i \in 1..M : i \in 1..(M + 1) /\ i # M + 1
    BY <1>1
  <1>11. M + 1 \in 1..(M + 1)
    BY <1>1
  <1>12. bb = Append(aa, Sentence(step))
    <2> DEFINE e == Sentence(step)
               uu == Append(aa, e)
    <2>1. IsSeq(uu) /\ Len(uu) = M + 1 /\ uu[M + 1] = e /\ \A i \in 1..M : uu[i] = aa[i]
      BY <1>7, Appended
    <2> HIDE DEF uu
    <2>2. ASSUME NEW i \in 1..(M + 1) PROVE bb[i] = uu[i]
      <3>1. i \in 1..M \/ i = M + 1
        BY <1>1
      <3>2. QED
        <4>1. bb[i] = Sentence(more[i])
          BY <1>6
        <4>2. CASE i = M + 1
          BY <1>2, <2>1, <4>1, <4>2
        <4>3. CASE i \in 1..M
          <5>1. more[i] = steps[i] /\ aa[i] = Sentence(steps[i]) /\ uu[i] = aa[i]
            BY <1>2, <1>5, <2>1, <4>3
          <5>2. QED
            BY <4>1, <5>1
        <4>4. QED
          BY <3>1, <4>2, <4>3
    <2>3. QED
      BY <1>8, <2>1, <2>2, Alike DEF uu
  <1>13. dd = Append(cc, step.claims)
    <2> DEFINE e == step.claims
               uu == Append(cc, e)
    <2>1. IsSeq(uu) /\ Len(uu) = M + 1 /\ uu[M + 1] = e /\ \A i \in 1..M : uu[i] = cc[i]
      BY <1>7, Appended
    <2> HIDE DEF uu
    <2>2. ASSUME NEW i \in 1..(M + 1) PROVE dd[i] = uu[i]
      <3>1. i \in 1..M \/ i = M + 1
        BY <1>1
      <3>2. CASE i = M + 1
        <4>1. more[i] = step /\ dd[i] = more[i].claims
          BY <1>2, <1>6, <3>2
        <4>2. QED
          BY <2>1, <3>2, <4>1
      <3>3. CASE i \in 1..M
        <4>1. more[i] = steps[i] /\ cc[i] = steps[i].claims /\ uu[i] = cc[i]
          BY <1>2, <1>5, <2>1, <3>3
        <4>2. dd[i] = more[i].claims
          BY <1>6
        <4>3. QED
          BY <4>1, <4>2
      <3>4. QED
        BY <3>1, <3>2, <3>3
    <2>3. QED
      BY <1>8, <2>1, <2>2, Alike DEF uu
  <1>14. FlattenSeq(bb) = FlattenSeq(aa) \o Sentence(step)
    BY <1>9, <1>12, FlatAppend, SentenceIs
  <1>15. FlattenSeq(dd) = FlattenSeq(cc) \o step.claims
    BY <1>9, <1>13, FlatAppend
  <1>16. IsSeq(FlattenSeq(aa)) /\ IsSeq(FlattenSeq(cc))
    BY <1>9, StartsOf
  <1>17. QED
    BY <1>4, <1>9, <1>14, <1>15, <1>16 DEF ReadOf, ClaimsOf, aa, bb, cc, dd, more

\* One claim more: how many of them are unbound.
LEMMA OneUnbound ==
  ASSUME NEW claims, IsSeq(claims), NEW x
  PROVE  /\ Cardinality(Unbound(claims)) \in Nat
         /\ Cardinality(Unbound(Append(claims, x)))
              = Cardinality(Unbound(claims)) + (IF Bound(x) THEN 0 ELSE 1)
  <1> DEFINE more == Append(claims, x)
             M == Len(claims)
             U == Unbound(claims)
             V == Unbound(more)
  <1>1. M \in Nat /\ DOMAIN claims = 1..M
    BY IsSeqMeans
  <1>2. IsSeq(more) /\ Len(more) = M + 1 /\ more[M + 1] = x /\ \A i \in 1..M : more[i] = claims[i]
    BY Appended
  <1> HIDE DEF more
  <1>3. DOMAIN more = 1..(M + 1)
    BY <1>2, IsSeqMeans
  <1>4. U = {i \in 1..M : ~Bound(claims[i])} /\ V = {i \in 1..(M + 1) : ~Bound(more[i])}
    BY <1>1, <1>3 DEF Unbound
  <1> HIDE DEF U, V
  <1>5. IsFiniteSet(U)
    <2>1. IsFiniteSet(1..M) /\ U \subseteq 1..M
      BY <1>1, <1>4, FS_Interval
    <2>2. QED
      BY <2>1, FS_Subset
  <1>6. Cardinality(U) \in Nat
    BY <1>5, FS_CardinalityType
  <1>7. \A i : i \in 1..(M + 1) <=> i \in 1..M \/ i = M + 1
    BY <1>1
  <1>8. M + 1 \notin 1..M
    BY <1>1
  <1>9. CASE Bound(x)
    <2>1. V = U
      BY <1>2, <1>4, <1>7, <1>8, <1>9
    <2>2. QED
      BY <1>6, <1>9, <2>1 DEF U, V, more
  <1>10. CASE ~Bound(x)
    <2>1. V = U \cup {M + 1} /\ M + 1 \notin U
      BY <1>2, <1>4, <1>7, <1>8, <1>10
    <2>2. Cardinality(V) = Cardinality(U) + 1
      BY <1>5, <2>1, FS_AddElement
    <2>3. QED
      BY <1>6, <1>10, <2>2 DEF U, V, more
  <1>11. QED
    BY <1>9, <1>10

\* These texts are those of the first k lines.
AsLines(lines, k, texts) ==
    IsSeq(texts) /\ Len(texts) = k /\ \A i \in 1..k : texts[i] = lines[i].text

\* The first k lines have been read as these steps, and nothing else: every line is
\* a sentence of them, in order, and for every claim that is unbound there is a refusal.
Tally(lines, k, steps, refused) ==
    /\ AreSteps(steps) /\ IsSeq(refused)
    /\ AsLines(lines, k, ReadOf(steps))
    /\ Cardinality(Unbound(ClaimsOf(steps))) = Len(refused)

\* Of no line nothing.
LEMMA TallyBegins ==
  ASSUME NEW lines
  PROVE  Tally(lines, 0, <<>>, <<>>)
  <1> DEFINE none == <<>>
  <1>1. IsSeq(none) /\ Len(none) = 0 /\ (\A i \in 1..Len(none) : FALSE) /\ DOMAIN none = 1..Len(none)
    BY None, IsSeqMeans
  <1>2. AreSteps(none)
    BY <1>1 DEF AreSteps
  <1>3. IsSeq(Saying(none)) /\ Len(Saying(none)) = 0
    <2> DEFINE t == Saying(none)
    <2>1. t = [i \in DOMAIN none |-> t[i]]
      BY DEF Saying
    <2> HIDE DEF t, none
    <2>2. IsSeq(t) /\ Len(t) = Len(none)
      BY <1>1, <2>1, Mapped
    <2>3. QED
      BY <1>1, <2>2 DEF t
  <1>4. IsSeq(Claiming(none)) /\ Len(Claiming(none)) = 0
    <2> DEFINE t == Claiming(none)
    <2>1. t = [i \in DOMAIN none |-> t[i]]
      BY DEF Claiming
    <2> HIDE DEF t, none
    <2>2. IsSeq(t) /\ Len(t) = Len(none)
      BY <1>1, <2>1, Mapped
    <2>3. QED
      BY <1>1, <2>2 DEF t
  <1>5. ASSUME NEW ss, IsSeq(ss), Len(ss) = 0 PROVE FlattenSeq(ss) = <<>>
    <2>1. SeqOfSeqs(ss)
      BY <1>5 DEF SeqOfSeqs
    <2>2. QED
      BY <1>5, <2>1, FlatUnfolds
  <1>6. ReadOf(none) = <<>> /\ ClaimsOf(none) = <<>>
    BY <1>3, <1>4, <1>5 DEF ReadOf, ClaimsOf
  <1>7. Cardinality(Unbound(<<>>)) = 0
    <2>1. Unbound(<<>>) = {}
      BY <1>1 DEF Unbound
    <2>2. QED
      BY <2>1, FS_EmptySet
  <1>8. QED
    BY <1>1, <1>2, <1>6, <1>7 DEF Tally, AsLines

\* A text more that has been read.
LEMMA ReadMore ==
  ASSUME NEW lines, NEW k \in Nat, NEW texts, AsLines(lines, k, texts),
         NEW more, more = Append(texts, lines[k + 1].text)
  PROVE  AsLines(lines, k + 1, more)
  <1>1. /\ IsSeq(more) /\ Len(more) = k + 1 /\ more[k + 1] = lines[k + 1].text
        /\ \A i \in 1..k : more[i] = texts[i]
    BY Appended DEF AsLines
  <1>2. ASSUME NEW i \in 1..(k + 1) PROVE more[i] = lines[i].text
    <2>1. i \in 1..k \/ i = k + 1
      OBVIOUS
    <2>2. QED
      BY <1>1, <2>1 DEF AsLines
  <1>3. QED
    BY <1>1, <1>2 DEF AsLines

\* A line more that is a step.
LEMMA TallyStep ==
  ASSUME NEW lines, NEW k \in Nat, NEW steps, NEW refused, Tally(lines, k, steps, refused),
         NEW step, step.claims = <<>>, step.text = lines[k + 1].text
  PROVE  Tally(lines, k + 1, Append(steps, step), refused)
  <1> DEFINE more == Append(steps, step)
             texts == ReadOf(steps)
             claims == ClaimsOf(steps)
  <1>1. /\ AreSteps(steps) /\ IsSeq(refused) /\ IsSeq(texts) /\ AsLines(lines, k, texts)
        /\ Cardinality(Unbound(claims)) = Len(refused)
    BY DEF Tally, AsLines
  <1>2. IsSeq(step.claims) /\ Len(step.claims) = 0
    BY None
  <1>3. /\ AreSteps(more) /\ ReadOf(more) = texts \o Sentence(step)
        /\ ClaimsOf(more) = claims \o step.claims /\ IsSeq(claims)
    BY <1>1, <1>2, StepMore
  <1> HIDE DEF more, texts, claims
  <1>4. ClaimsOf(more) = claims
    <2>1. claims \o <<>> = claims
      BY <1>3, ConcatEmptySeq DEF IsSeq
    <2>2. QED
      BY <1>3, <2>1
  <1>5. Sentence(step) = <<step.text>>
    <2> DEFINE s == Sentence(step)
               t == <<step.text>>
    <2>1. IsSeq(s) /\ Len(s) = 1 + Len(step.claims) /\ s[1] = step.text
      BY <1>2, SentenceIs
    <2>2. IsSeq(t) /\ Len(t) = 1 /\ t[1] = step.text
      BY One
    <2> HIDE DEF s, t
    <2>3. Len(s) = 1
      BY <1>2, <2>1
    <2>4. \A i \in 1..Len(s) : s[i] = t[i]
      BY <2>1, <2>2, <2>3
    <2>5. s = t
      BY <2>1, <2>2, <2>3, <2>4, Alike
    <2>6. QED
      BY <2>5 DEF s, t
  <1>6. ReadOf(more) = Append(texts, lines[k + 1].text)
    <2> DEFINE e == lines[k + 1].text
    <2>1. ReadOf(more) = texts \o <<e>>
      BY <1>3, <1>5
    <2>2. Append(<<>>, e) = <<e>> /\ texts \o <<>> = texts
      BY <1>1, ConcatEmptySeq DEF IsSeq
    <2>3. texts \o Append(<<>>, e) = Append(texts \o <<>>, e)
      BY <1>1, None, CatAppend
    <2>4. QED
      BY <2>1, <2>2, <2>3
  <1>7. AsLines(lines, k + 1, ReadOf(more))
    BY <1>1, <1>6, ReadMore
  <1>8. QED
    BY <1>1, <1>3, <1>4, <1>7 DEF Tally, more

\* A step with one claim more has one sentence more.
LEMMA SentenceMore ==
  ASSUME NEW last, IsSeq(last.claims), NEW step, NEW x, step.text = last.text,
         step.claims = Append(last.claims, x)
  PROVE  IsSeq(step.claims) /\ Sentence(step) = Append(Sentence(last), x.text)
  <1> DEFINE M == Len(last.claims)
             s == Sentence(last)
             t == Sentence(step)
             u == Append(s, x.text)
  <1>1. /\ IsSeq(step.claims) /\ Len(step.claims) = M + 1 /\ step.claims[M + 1] = x /\ M \in Nat
        /\ \A k \in 1..M : step.claims[k] = last.claims[k]
    BY Appended, IsSeqMeans
  <1>2. /\ IsSeq(s) /\ Len(s) = 1 + M /\ s[1] = last.text
        /\ \A k \in 1..M : s[1 + k] = last.claims[k].text
    BY SentenceIs
  <1>3. /\ IsSeq(t) /\ Len(t) = 1 + (M + 1) /\ t[1] = step.text
        /\ \A k \in 1..(M + 1) : t[1 + k] = step.claims[k].text
    <2>1. /\ IsSeq(t) /\ Len(t) = 1 + Len(step.claims) /\ t[1] = step.text
          /\ \A k \in 1..Len(step.claims) : t[1 + k] = step.claims[k].text
      BY <1>1, SentenceIs
    <2>2. QED
      BY <1>1, <2>1
  <1> HIDE DEF s, t
  <1>4. IsSeq(u) /\ Len(u) = (1 + M) + 1 /\ u[(1 + M) + 1] = x.text /\ \A k \in 1..(1 + M) : u[k] = s[k]
    BY <1>2, Appended
  <1> HIDE DEF u, M
  <1>5. ASSUME NEW q \in 1..Len(t) PROVE t[q] = u[q]
    <2>1. q = 1 \/ q = 1 + (M + 1) \/ (q - 1 \in 1..M /\ q = 1 + (q - 1))
      BY <1>1, <1>3
    <2>2. CASE q = 1
      <3>1. 1 \in 1..(1 + M)
        BY <1>1
      <3>2. QED
        BY <1>2, <1>3, <1>4, <2>2, <3>1
    <2>3. CASE q = 1 + (M + 1)
      <3>1. M + 1 \in 1..(M + 1) /\ 1 + (M + 1) = (1 + M) + 1
        BY <1>1
      <3>2. t[q] = step.claims[M + 1].text
        BY <1>3, <2>3, <3>1
      <3>3. QED
        BY <1>1, <1>4, <2>3, <3>1, <3>2
    <2>4. CASE q - 1 \in 1..M /\ q = 1 + (q - 1)
      <3> DEFINE p == q - 1
      <3>1. p \in 1..M /\ q = 1 + p /\ p \in 1..(M + 1) /\ q \in 1..(1 + M)
        BY <1>1, <2>4
      <3> HIDE DEF p
      <3>2. t[q] = step.claims[p].text /\ s[q] = last.claims[p].text /\ step.claims[p] = last.claims[p]
        BY <1>1, <1>2, <1>3, <3>1
      <3>3. QED
        BY <1>4, <3>1, <3>2
    <2>5. QED
      BY <2>1, <2>2, <2>3, <2>4
  <1>6. Len(t) = Len(u)
    BY <1>1, <1>3, <1>4
  <1>7. t = u
    BY <1>3, <1>4, <1>5, <1>6, Alike
  <1>8. QED
    BY <1>1, <1>7 DEF s, t, u

\* A line more that is a claim on the last step.
LEMMA TallyClaim ==
  ASSUME NEW lines, NEW k \in Nat, NEW base, IsSeq(base), NEW last, NEW refused,
         Tally(lines, k, Append(base, last), refused),
         NEW step, NEW x, step.text = last.text, step.claims = Append(last.claims, x),
         x.text = lines[k + 1].text,
         NEW now, IF Bound(x) THEN now = refused ELSE \E y : now = Append(refused, y)
  PROVE  Tally(lines, k + 1, Append(base, step), now)
  <1> DEFINE old == Append(base, last)
             new == Append(base, step)
             M == Len(base)
  <1>1. /\ AreSteps(old) /\ IsSeq(refused) /\ AsLines(lines, k, ReadOf(old))
        /\ Cardinality(Unbound(ClaimsOf(old))) = Len(refused)
    BY DEF Tally
  <1>2. AreSteps(base) /\ IsSeq(last.claims)
    <2>1. /\ IsSeq(old) /\ Len(old) = M + 1 /\ old[M + 1] = last /\ M \in Nat
          /\ \A i \in 1..M : old[i] = base[i]
      BY Appended, IsSeqMeans
    <2> HIDE DEF old
    <2>2. \A i \in 1..(M + 1) : IsSeq(old[i].claims)
      BY <1>1, <2>1 DEF AreSteps
    <2>3. M + 1 \in 1..(M + 1) /\ \A i \in 1..M : i \in 1..(M + 1)
      BY <2>1
    <2>4. IsSeq(last.claims)
      BY <2>1, <2>2, <2>3
    <2>5. \A i \in 1..M : IsSeq(base[i].claims)
      <3>1. TAKE i \in 1..M
      <3>2. IsSeq(old[i].claims) /\ old[i] = base[i]
        BY <2>1, <2>2, <2>3
      <3>3. QED
        BY <3>2
    <2>6. QED
      BY <2>4, <2>5 DEF AreSteps
  <1>3. IsSeq(step.claims) /\ Sentence(step) = Append(Sentence(last), x.text)
    BY <1>2, SentenceMore
  <1>4. /\ ReadOf(old) = ReadOf(base) \o Sentence(last) /\ ClaimsOf(old) = ClaimsOf(base) \o last.claims
        /\ IsSeq(ReadOf(base)) /\ IsSeq(ClaimsOf(base))
    BY <1>2, StepMore
  <1>5. /\ AreSteps(new) /\ ReadOf(new) = ReadOf(base) \o Sentence(step)
        /\ ClaimsOf(new) = ClaimsOf(base) \o step.claims
    BY <1>2, <1>3, StepMore
  <1>6. IsSeq(Sentence(last))
    BY <1>2, SentenceIs
  <1>7. ReadOf(new) = Append(ReadOf(old), x.text)
    <2> DEFINE r == ReadOf(base)
               l == Sentence(last)
    <2>1. ReadOf(new) = r \o Append(l, x.text) /\ ReadOf(old) = r \o l
      BY <1>3, <1>4, <1>5
    <2>2. IsSeq(r) /\ IsSeq(l)
      BY <1>4, <1>6
    <2> HIDE DEF r, l
    <2>3. r \o Append(l, x.text) = Append(r \o l, x.text)
      BY <2>2, CatAppend
    <2>4. QED
      BY <2>1, <2>3
  <1>8. ClaimsOf(new) = Append(ClaimsOf(old), x)
    <2> DEFINE c == ClaimsOf(base)
               l == last.claims
    <2>1. ClaimsOf(new) = c \o Append(l, x) /\ ClaimsOf(old) = c \o l
      BY <1>4, <1>5
    <2>2. IsSeq(c) /\ IsSeq(l)
      BY <1>2, <1>4
    <2> HIDE DEF c, l
    <2>3. c \o Append(l, x) = Append(c \o l, x)
      BY <2>2, CatAppend
    <2>4. QED
      BY <2>1, <2>3
  <1>9. IsSeq(ClaimsOf(old))
    BY <1>2, <1>4, CatOf
  <1> HIDE DEF old, new
  <1>10. AsLines(lines, k + 1, ReadOf(new))
    BY <1>1, <1>7, ReadMore
  <1>11. Cardinality(Unbound(ClaimsOf(new))) = Cardinality(Unbound(ClaimsOf(old))) + (IF Bound(x) THEN 0 ELSE 1)
    BY <1>8, <1>9, OneUnbound
  <1>12. IsSeq(now) /\ Cardinality(Unbound(ClaimsOf(new))) = Len(now)
    <2>1. Len(refused) \in Nat
      BY <1>1, IsSeqMeans
    <2>2. CASE Bound(x)
      BY <1>1, <1>11, <2>1, <2>2
    <2>3. CASE ~Bound(x)
      <3>1. PICK y : now = Append(refused, y)
        BY <2>3
      <3>2. IsSeq(now) /\ Len(now) = Len(refused) + 1
        BY <1>1, <3>1, Appended
      <3>3. QED
        BY <1>1, <1>11, <2>1, <2>3, <3>2
    <2>4. QED
      BY <2>2, <2>3
  <1>13. QED
    BY <1>5, <1>10, <1>12 DEF Tally, new

\* A line more is accounted for, and the steps of the other scenarios are left alone.
LineCounted(lines, k, so, to, at, N) ==
    /\ Tally(lines, k + 1, FlattenSeq(to.done), to.b.refused)
    /\ \A n \in 1..N : n # at => to.done[n] = so.done[n]

\* Whatever line comes next it is.
LEMMA LineTally ==
  ASSUME NEW ctx, NEW was, NEW N \in Nat, NEW so, Reading(ctx, was, so, N),
         NEW lines, NEW k \in Nat, Tally(lines, k, FlattenSeq(so.done), so.b.refused),
         NEW line, line = lines[k + 1], line.at \in 1..N, line.text # {},
         \A i \in (line.at + 1)..N : so.done[i] = <<>>,
         NEW to, NewStepRead(so, line, to) \/ ClaimRead(ctx, so, line, to)
  PROVE  LineCounted(lines, k, so, to, line.at, N)
  <1> DEFINE done == so.done
             at == line.at
  <1>1. SeqOfSeqs(done) /\ Len(done) = N /\ at \in 1..Len(done)
    <2>1. IsSeq(done) /\ Len(done) = N /\ \A n \in 1..N : IsSeq(done[n])
      BY DEF Reading, StepsHold
    <2>2. QED
      BY <2>1 DEF SeqOfSeqs
  <1>2. \A i \in (at + 1)..Len(done) : done[i] = <<>>
    BY <1>1
  <1>3. Tally(lines, k, FlattenSeq(done), so.b.refused) /\ line.text = lines[k + 1].text
    OBVIOUS
  <1>4. at = line.at /\ done = so.done
    OBVIOUS
  <1> HIDE DEF done, at
  <1> DEFINE now == to.done
  <1>5. ASSUME NEW s, now = [done EXCEPT ![at] = s]
        PROVE  Put(done, at, s, now) /\ \A n \in 1..N : n # at => now[n] = done[n]
    <2>1. IsSeq(done)
      BY <1>1 DEF SeqOfSeqs
    <2> HIDE DEF now
    <2>2. Put(done, at, s, now)
      BY <1>1, <1>5, <2>1, PutAt
    <2>3. QED
      BY <1>1, <2>2 DEF Put
  <1>6. CASE NewStepRead(so, line, to)
    <2>1. PICK step : /\ step.claims = <<>> /\ step.text = line.text /\ to.b = so.b
                      /\ to.done = [so.done EXCEPT ![line.at] = Append(so.done[line.at], step)]
      BY <1>6 DEF NewStepRead
    <2> DEFINE s == Append(done[at], step)
    <2>2. now = [done EXCEPT ![at] = s]
      BY <1>4, <2>1
    <2> HIDE DEF s, now
    <2>3. Put(done, at, s, now) /\ \A n \in 1..N : n # at => now[n] = done[n]
      BY <1>5, <2>2
    <2>4. FlattenSeq(now) = Append(FlattenSeq(done), step)
      <3>1. Put(done, at, Append(done[at], step), now)
        BY <2>3 DEF s
      <3>2. QED
        BY <1>1, <1>2, <3>1, FlatGrown
    <2>5. Tally(lines, k + 1, Append(FlattenSeq(done), step), so.b.refused)
      BY <1>3, <2>1, TallyStep
    <2>6. QED
      BY <1>4, <2>1, <2>3, <2>4, <2>5 DEF now, LineCounted
  <1>7. CASE ClaimRead(ctx, so, line, to)
    <2>1. PICK above, step :
             /\ above.claims = Last(so.done[line.at]).claims /\ above.text = Last(so.done[line.at]).text
             /\ Attached(ctx, so.b, above, line.text, [b |-> to.b, step |-> step])
             /\ to.done = [so.done EXCEPT ![line.at] = Append(Front(so.done[line.at]), step)]
      BY <1>7 DEF ClaimRead
    <2> DEFINE s == Append(Front(done[at]), step)
               last == Last(done[at])
               r == [b |-> to.b, step |-> step]
    <2>2. now = [done EXCEPT ![at] = s] /\ above.claims = last.claims /\ above.text = last.text
      BY <1>4, <2>1
    <2>3. done[at] # <<>>
      BY <1>4, <1>7 DEF ClaimRead
    <2>4. Attached(ctx, so.b, above, line.text, r) /\ r.b = to.b /\ r.step = step
      BY <2>1
    <2> HIDE DEF s, now, r
    <2>5. Put(done, at, s, now) /\ \A n \in 1..N : n # at => now[n] = done[n]
      BY <1>5, <2>2
    <2>6. Differ(FlattenSeq(done), FlattenSeq(now), last, step)
      BY <1>1, <1>2, <2>3, <2>5, FlatLast DEF s
    <2> HIDE DEF last
    <2>7. PICK base : /\ IsSeq(base) /\ FlattenSeq(done) = Append(base, last)
                      /\ FlattenSeq(now) = Append(base, step)
      BY <2>6 DEF Differ
    <2>8. step.text = last.text
      BY <2>2, <2>4 DEF Attached
    <2>9. PICK x : /\ step.claims = Append(last.claims, x) /\ x.text = line.text
                   /\ IF Bound(x) THEN to.b.refused = so.b.refused
                      ELSE \E y : to.b.refused = Append(so.b.refused, y)
      <3>1. PICK x : /\ r.step.claims = Append(above.claims, x) /\ x.text = line.text
                     /\ IF Bound(x) THEN r.b.refused = so.b.refused
                        ELSE \E y : r.b.refused = Append(so.b.refused, y)
                                    /\ TrueRefusal(ctx, so.b, r.b, y)
        BY <2>4 DEF Attached
      <3>2. QED
        BY <2>2, <2>4, <3>1
    <2>10. Tally(lines, k, Append(base, last), so.b.refused)
      BY <1>3, <2>7
    <2>11. Tally(lines, k + 1, Append(base, step), to.b.refused)
      BY <1>3, <2>7, <2>8, <2>9, <2>10, TallyClaim
    <2>12. QED
      BY <1>4, <2>5, <2>7, <2>11 DEF now, LineCounted
  <1>8. QED
    BY <1>6, <1>7

\* Line after line, the file is accounted for.
LEMMA FileTally ==
  ASSUME NEW ctx, ctx.rec \in Recordings, NEW was, IsBinding(was), was.refused = <<>>,
         NEW answer, NEW file, NEW lines, NEW f,
         ReadBy(ctx, was, answer, file, lines, f), ~file.failed,
         IsSeq(answer.lines)
  PROVE  Tally(lines, Len(lines), FlattenSeq(file.done), file.b.refused)
  <1> DEFINE M == Len(lines)
             N == Len(answer.lines)
             Counted(k) == Tally(lines, k, FlattenSeq(f[k].done), f[k].b.refused)
             Foremost(k) == \A n \in 1..N : (\A j \in 1..k : lines[j].at < n) => f[k].done[n] = <<>>
             T == {k \in 0..M : f[k].failed \/ (Counted(k) /\ Foremost(k))}
  <1>1. M \in Nat /\ N \in Nat
    BY IsSeqMeans DEF ReadBy
  <1>2. /\ \A j \in 1..M : lines[j].at \in 1..N /\ lines[j].text # {} /\ IsSeq(lines[j].annotation.events)
        /\ \A j, k \in 1..M : j <= k => lines[j].at <= lines[k].at
        /\ f[0].b = was /\ \A n \in 1..N : f[0].done[n] = <<>>
        /\ \A k \in 0..M : Reading(ctx, was, f[k], N)
        /\ \A k \in 1..M : f[k] = ReadLine(ctx, f[k - 1], lines[k])
        /\ file = f[M]
    BY DEF ReadBy
  <1> HIDE DEF M, N
  <1>3. 0 \in T
    <2>1. Reading(ctx, was, f[0], N)
      BY <1>1, <1>2
    <2>2. SeqOfSeqs(f[0].done) /\ Len(f[0].done) = N
      <3>1. IsSeq(f[0].done) /\ Len(f[0].done) = N /\ \A n \in 1..N : IsSeq(f[0].done[n])
        BY <2>1 DEF Reading, StepsHold
      <3>2. QED
        BY <3>1 DEF SeqOfSeqs
    <2>3. FlattenSeq(f[0].done) = <<>>
      <3>1. 0 \in 0..Len(f[0].done) /\ \A i \in (0 + 1)..Len(f[0].done) : f[0].done[i] = <<>>
        BY <1>1, <1>2, <2>2
      <3>2. FlattenSeq(f[0].done) = Upto(f[0].done, 0)
        BY <2>2, <3>1, FlatTail
      <3>3. QED
        BY <3>2 DEF Upto
    <2>4. Counted(0)
      BY <1>2, <2>3, TallyBegins
    <2>5. Foremost(0)
      BY <1>2
    <2>6. QED
      BY <1>1, <2>4, <2>5
  <1>4. ASSUME NEW k \in 0..(M - 1), k \in T PROVE k + 1 \in T
    <2> DEFINE line == lines[k + 1]
               so == f[k]
               to == f[k + 1]
    <2>1. k \in Nat /\ k \in 0..M /\ k + 1 \in 0..M /\ k + 1 \in 1..M /\ (k + 1) - 1 = k
      BY <1>1
    <2>2. /\ Reading(ctx, was, so, N) /\ to = ReadLine(ctx, so, line)
          /\ line.at \in 1..N /\ line.text # {} /\ IsSeq(line.annotation.events)
      BY <1>2, <2>1
    <2>5. (\A j \in 1..(k + 1) : j \in 1..k \/ j = k + 1) /\ k + 1 \in 1..(k + 1)
          /\ \A j \in 1..k : j \in 1..(k + 1)
      BY <2>1
    <2>6. line = lines[k + 1] /\ so = f[k] /\ to = f[k + 1]
      OBVIOUS
    <2> HIDE DEF line, so, to, T
    <2>7. to.failed \/ (~so.failed /\ (NewStepRead(so, line, to) \/ ClaimRead(ctx, so, line, to)))
      BY <1>1, <2>2, ReadLineIs
    <2>8. CASE to.failed
      BY <2>1, <2>6, <2>8 DEF T
    <2>9. CASE ~to.failed
      <3>1. ~so.failed /\ (NewStepRead(so, line, to) \/ ClaimRead(ctx, so, line, to))
        BY <2>7, <2>9
      <3>2. Counted(k) /\ Foremost(k)
        BY <1>4, <2>6, <3>1 DEF T
      <3>6. Tally(lines, k, FlattenSeq(so.done), so.b.refused)
        BY <2>6, <3>2
      <3>7. \A i \in (line.at + 1)..N : so.done[i] = <<>>
        <4>1. TAKE i \in (line.at + 1)..N
        <4>2. i \in 1..N /\ line.at < i
          BY <1>1, <2>2
        <4>3. ASSUME NEW j \in 1..k PROVE lines[j].at < i
          <5>1. j \in 1..M /\ j <= k + 1
            BY <1>1, <2>1
          <5>2. lines[j].at <= line.at /\ lines[j].at \in 1..N
            BY <1>2, <2>1, <2>6, <5>1
          <5>3. QED
            BY <1>1, <2>2, <4>2, <5>2
        <4>4. QED
          BY <2>6, <3>2, <4>2, <4>3
      <3>8. LineCounted(lines, k, so, to, line.at, N)
        BY <1>1, <2>1, <2>2, <2>6, <3>1, <3>6, <3>7, LineTally
      <3>3. /\ Tally(lines, k + 1, FlattenSeq(to.done), to.b.refused)
            /\ \A n \in 1..N : n # line.at => to.done[n] = so.done[n]
        BY <3>8 DEF LineCounted
      <3>4. Foremost(k + 1)
        <4>1. SUFFICES ASSUME NEW n \in 1..N, \A j \in 1..(k + 1) : lines[j].at < n
                       PROVE  to.done[n] = <<>>
          BY <2>6
        <4>2. line.at < n /\ \A j \in 1..k : lines[j].at < n
          BY <2>5, <2>6, <4>1
        <4>3. n # line.at
          BY <1>1, <2>2, <4>2
        <4>4. so.done[n] = <<>>
          BY <2>6, <3>2, <4>2
        <4>5. QED
          BY <3>3, <4>3, <4>4
      <3>5. QED
        BY <2>1, <2>6, <3>3, <3>4 DEF T
    <2>10. QED
      BY <2>8, <2>9
  <1>5. \A k \in 0..M : k \in T
    <2> HIDE DEF T
    <2> QED BY <1>1, <1>3, <1>4, StepByStep
  <1>6. M \in 0..M
    BY <1>1
  <1>7. Counted(M)
    BY <1>2, <1>5, <1>6
  <1>8. QED
    BY <1>2, <1>7 DEF M

\* Scenarios without steps have nothing to read.
LEMMA EmptyOnes ==
  ASSUME NEW done, SeqOfSeqs(done)
  PROVE  FlattenSeq(NotEmpty(done)) = FlattenSeq(done)
  <1> DEFINE t == [i \in DOMAIN done |-> IF done[i] # <<>> THEN <<done[i]>> ELSE <<>>]
             M == Len(done)
  <1>1. NotEmpty(done) = FlattenSeq(t)
    BY DEF Those, NotEmpty
  <1>2. /\ t = [i \in DOMAIN done |-> t[i]]
        /\ \A i \in DOMAIN done : t[i] = IF done[i] # <<>> THEN <<done[i]>> ELSE <<>>
    OBVIOUS
  <1> HIDE DEF t
  <1>3. IsSeq(done) /\ M \in Nat /\ DOMAIN done = 1..M /\ \A i \in 1..M : IsSeq(done[i])
    BY IsSeqMeans DEF SeqOfSeqs
  <1> HIDE DEF M
  <1>4. SeqOfSeqs(t) /\ Len(t) = M
    <2>1. Len(done) = M
      BY DEF M
    <2>2. QED
      BY <1>2, <1>3, <2>1, ThoseOf
  <1>5. /\ FlattenSeq(t) = Upto(t, M) /\ Upto(t, 0) = <<>>
        /\ \A k \in 1..M : Upto(t, k) = Upto(t, k - 1) \o t[k]
        /\ \A k \in 0..M : IsSeq(Upto(t, k))
    BY <1>4, FlatUnfolds
  <1>6. /\ FlattenSeq(done) = Upto(done, M) /\ Upto(done, 0) = <<>>
        /\ \A k \in 1..M : Upto(done, k) = Upto(done, k - 1) \o done[k]
        /\ \A k \in 0..M : IsSeq(Upto(done, k))
    BY FlatUnfolds DEF M
  <1> DEFINE T == {k \in 0..M : SeqOfSeqs(Upto(t, k)) /\ FlattenSeq(Upto(t, k)) = Upto(done, k)}
  <1>7. 0 \in T
    <2>1. SeqOfSeqs(<<>>)
      <3>1. \A i \in 1..Len(<<>>) : FALSE
        BY None
      <3>2. QED
        BY <3>1, None DEF SeqOfSeqs
    <2>2. FlattenSeq(<<>>) = <<>>
      BY <2>1, None, FlatUnfolds
    <2>3. QED
      BY <1>3, <1>5, <1>6, <2>1, <2>2
  <1>8. ASSUME NEW k \in 0..(M - 1), k \in T PROVE k + 1 \in T
    <2> DEFINE u == Upto(t, k)
               v == Upto(done, k)
               d == done[k + 1]
    <2>1. k + 1 \in 1..M /\ (k + 1) - 1 = k /\ k \in 0..M /\ k + 1 \in 0..M
      BY <1>3
    <2>2. SeqOfSeqs(u) /\ FlattenSeq(u) = v /\ IsSeq(u) /\ IsSeq(v) /\ IsSeq(d)
      BY <1>3, <1>5, <1>6, <1>8, <2>1
    <2>3. Upto(t, k + 1) = u \o t[k + 1] /\ Upto(done, k + 1) = v \o d
      BY <1>5, <1>6, <2>1
    <2>4. t[k + 1] = IF d # <<>> THEN <<d>> ELSE <<>>
      BY <1>2, <1>3, <2>1
    <2> HIDE DEF u, v, d, T
    <2>5. u \o <<>> = u /\ v \o <<>> = v
      BY <2>2, ConcatEmptySeq DEF IsSeq
    <2>6. u \o <<d>> = Append(u, d)
      <3>1. Append(<<>>, d) = <<d>>
        OBVIOUS
      <3>2. u \o Append(<<>>, d) = Append(u \o <<>>, d)
        BY <2>2, None, CatAppend
      <3>3. QED
        BY <2>5, <3>1, <3>2
    <2>7. CASE d = <<>>
      <3>1. Upto(t, k + 1) = u /\ Upto(done, k + 1) = v
        BY <2>3, <2>4, <2>5, <2>7
      <3>2. QED
        BY <2>1, <2>2, <3>1 DEF T
    <2>8. CASE d # <<>>
      <3>1. Upto(t, k + 1) = Append(u, d)
        BY <2>3, <2>4, <2>6, <2>8
      <3>2. SeqOfSeqs(Append(u, d)) /\ FlattenSeq(Append(u, d)) = v \o d
        BY <2>2, FlatAppend
      <3>3. QED
        BY <2>1, <2>3, <3>1, <3>2 DEF T
    <2>9. QED
      BY <2>7, <2>8
  <1>9. \A k \in 0..M : k \in T
    <2> HIDE DEF T
    <2> QED BY <1>3, <1>7, <1>8, StepByStep
  <1>10. M \in 0..M
    BY <1>3
  <1>11. FlattenSeq(Upto(t, M)) = Upto(done, M)
    BY <1>9, <1>10
  <1>12. QED
    BY <1>1, <1>5, <1>6, <1>11

\* What is altered twice, the first time without a text.
LEMMA AlteredTwice ==
  ASSUME NEW rec, NEW ss, NEW tt, NEW uu, NEW texts, Altered(rec, ss, tt, {}), Altered(rec, tt, uu, texts)
  PROVE  Altered(rec, ss, uu, texts)
  <1>1. DOMAIN tt = DOMAIN ss /\ uu = [n \in DOMAIN ss |-> uu[n]]
    BY DEF Altered
  <1>2. ASSUME NEW n \in DOMAIN ss
        PROVE  /\ uu[n] = [i \in DOMAIN ss[n] |-> uu[n][i]]
               /\ \A i \in DOMAIN ss[n] :
                    /\ IsDraft(rec, uu[n][i]) /\ uu[n][i].claims = ss[n][i].claims
                    /\ uu[n][i].text \in {ss[n][i].text} \cup texts
    <2> DEFINE s == ss[n]
               t == tt[n]
               u == uu[n]
    <2>1. /\ t = [i \in DOMAIN s |-> t[i]]
          /\ \A i \in DOMAIN s : t[i].claims = s[i].claims /\ t[i].text \in {s[i].text} \cup {}
      BY DEF Altered
    <2>2. /\ u = [i \in DOMAIN t |-> u[i]]
          /\ \A i \in DOMAIN t : /\ IsDraft(rec, u[i]) /\ u[i].claims = t[i].claims
                                 /\ u[i].text \in {t[i].text} \cup texts
      BY <1>1 DEF Altered
    <2> HIDE DEF s, t, u
    <2>3. DOMAIN t = DOMAIN s
      BY <2>1
    <2>4. u = [i \in DOMAIN s |-> u[i]]
      BY <2>2, <2>3
    <2>5. \A i \in DOMAIN s : /\ IsDraft(rec, u[i]) /\ u[i].claims = s[i].claims
                              /\ u[i].text \in {s[i].text} \cup texts
      BY <2>1, <2>2, <2>3
    <2>6. QED
      BY <2>4, <2>5 DEF s, u
  <1>3. QED
    BY <1>1, <1>2 DEF Altered

\* Steps with the same claims, and with one of these texts or their own.
SameSteps(s, t, texts) ==
    /\ AreSteps(s) /\ AreSteps(t) /\ Len(t) = Len(s)
    /\ \A q \in 1..Len(s) : t[q].claims = s[q].claims /\ t[q].text \in {s[q].text} \cup texts

\* Such are the steps of altered scenarios.
LEMMA AlteredSame ==
  ASSUME NEW rec, NEW b, NEW ss, ScenariosHold(rec, b, ss), NEW texts,
         NEW tt, Altered(rec, ss, tt, texts)
  PROVE  SameSteps(FlattenSeq(ss), FlattenSeq(tt), texts)
  <1> DEFINE s == FlattenSeq(ss)
             t == FlattenSeq(tt)
             M == Len(ss)
  <1>1. ScenariosHold(rec, b, tt) /\ Len(tt) = M /\ \A n \in 1..M : Len(tt[n]) = Len(ss[n])
    BY AlteredHold
  <1>2. SeqOfSeqs(ss) /\ SeqOfSeqs(tt) /\ M \in Nat /\ DOMAIN ss = 1..M
    BY <1>1, IsSeqMeans DEF ScenariosHold, StepsHold, SeqOfSeqs
  <1>3. /\ \A n \in 1..(M + 1) : Start(ss, n) = Start(tt, n)
        /\ Len(s) = Len(t)
    BY <1>1, <1>2, FlatAlike
  <1>4. IsSeq(s) /\ IsSeq(t)
    BY <1>2, StartsOf
  <1>5. ASSUME NEW q \in 1..Len(s)
        PROVE  /\ IsSeq(s[q].claims) /\ t[q].claims = s[q].claims
               /\ t[q].text \in {s[q].text} \cup texts
    <2>1. PICK n \in 1..M : \E j \in 1..Len(ss[n]) : q = Start(ss, n) + j
      BY <1>2, FlatFrom
    <2>2. PICK j \in 1..Len(ss[n]) : q = Start(ss, n) + j
      BY <2>1
    <2>3. s[q] = ss[n][j]
      BY <1>2, <2>2, FlatPlaces
    <2>4. n \in 1..Len(tt) /\ j \in 1..Len(tt[n]) /\ q = Start(tt, n) + j
      <3>1. n \in 1..(M + 1)
        BY <1>2
      <3>2. QED
        BY <1>1, <1>3, <2>2, <3>1
    <2>5. t[q] = tt[n][j]
      BY <1>2, <2>4, FlatPlaces
    <2>6. j \in DOMAIN ss[n] /\ n \in DOMAIN ss
      BY <1>2, IsSeqMeans DEF SeqOfSeqs
    <2>7. tt[n][j].claims = ss[n][j].claims /\ tt[n][j].text \in {ss[n][j].text} \cup texts
      BY <2>6 DEF Altered
    <2>8. IsSeq(ss[n][j].claims)
      BY DEF ScenariosHold, StepsHold, StepHolds, IsDraft
    <2>9. QED
      BY <2>3, <2>5, <2>7, <2>8
  <1> HIDE DEF s, t
  <1>6. \A q \in 1..Len(t) : IsSeq(t[q].claims)
    BY <1>3, <1>5
  <1>7. SameSteps(s, t, texts)
    BY <1>3, <1>4, <1>5, <1>6 DEF SameSteps, AreSteps
  <1>8. QED
    BY <1>7 DEF s, t

\* They read the same, but for those texts.
LEMMA SameRead ==
  ASSUME NEW s, NEW t, NEW texts, SameSteps(s, t, texts)
  PROVE  /\ ClaimsOf(t) = ClaimsOf(s) /\ Len(ReadOf(t)) = Len(ReadOf(s)) /\ IsSeq(ReadOf(t))
         /\ \A i \in 1..Len(ReadOf(s)) : ReadOf(t)[i] \in {ReadOf(s)[i]} \cup texts
  <1> DEFINE aa == Saying(s)
             bb == Saying(t)
             cc == Claiming(s)
             dd == Claiming(t)
             M == Len(s)
  <1>1. /\ IsSeq(s) /\ IsSeq(t) /\ Len(t) = M /\ M \in Nat /\ DOMAIN s = 1..M /\ DOMAIN t = 1..M
        /\ \A q \in 1..M : /\ IsSeq(s[q].claims) /\ IsSeq(t[q].claims) /\ t[q].claims = s[q].claims
                           /\ t[q].text \in {s[q].text} \cup texts
    BY IsSeqMeans DEF SameSteps, AreSteps
  <1>2. /\ aa = [i \in DOMAIN s |-> aa[i]] /\ \A i \in 1..M : aa[i] = Sentence(s[i])
        /\ cc = [i \in DOMAIN s |-> cc[i]] /\ \A i \in 1..M : cc[i] = s[i].claims
    BY <1>1 DEF Saying, Claiming
  <1>3. /\ bb = [i \in DOMAIN t |-> bb[i]] /\ \A i \in 1..M : bb[i] = Sentence(t[i])
        /\ dd = [i \in DOMAIN t |-> dd[i]] /\ \A i \in 1..M : dd[i] = t[i].claims
    BY <1>1 DEF Saying, Claiming
  <1>4. ReadOf(s) = FlattenSeq(aa) /\ ReadOf(t) = FlattenSeq(bb)
    BY DEF ReadOf
  <1>5. ClaimsOf(s) = FlattenSeq(cc) /\ ClaimsOf(t) = FlattenSeq(dd)
    BY DEF ClaimsOf
  <1> HIDE DEF aa, bb, cc, dd
  <1>6. IsSeq(aa) /\ Len(aa) = M /\ IsSeq(cc) /\ Len(cc) = M
    BY <1>1, <1>2, Mapped
  <1>7. IsSeq(bb) /\ Len(bb) = M /\ IsSeq(dd) /\ Len(dd) = M
    BY <1>1, <1>3, Mapped
  <1>8. cc = dd
    <2>1. \A i \in 1..Len(cc) : cc[i] = dd[i]
      BY <1>1, <1>2, <1>3, <1>6
    <2>2. Len(cc) = Len(dd)
      BY <1>6, <1>7
    <2>3. QED
      BY <1>6, <1>7, <2>1, <2>2, Alike
  <1>9. SeqOfSeqs(aa) /\ SeqOfSeqs(bb) /\ \A i \in 1..M : Len(aa[i]) = Len(bb[i])
    <2>1. ASSUME NEW i \in 1..M PROVE IsSeq(aa[i]) /\ IsSeq(bb[i]) /\ Len(aa[i]) = Len(bb[i])
      <3>1. IsSeq(Sentence(s[i])) /\ Len(Sentence(s[i])) = 1 + Len(s[i].claims)
        BY <1>1, SentenceIs
      <3>2. IsSeq(Sentence(t[i])) /\ Len(Sentence(t[i])) = 1 + Len(t[i].claims)
        BY <1>1, SentenceIs
      <3>3. QED
        BY <1>1, <1>2, <1>3, <3>1, <3>2
    <2>2. QED
      BY <1>6, <1>7, <2>1 DEF SeqOfSeqs
  <1>10. /\ \A n \in 1..(M + 1) : Start(aa, n) = Start(bb, n)
         /\ Len(FlattenSeq(aa)) = Len(FlattenSeq(bb))
    BY <1>6, <1>7, <1>9, FlatAlike
  <1>11. IsSeq(FlattenSeq(bb))
    BY <1>9, StartsOf
  <1>12. ASSUME NEW q \in 1..Len(FlattenSeq(aa))
         PROVE  FlattenSeq(bb)[q] \in {FlattenSeq(aa)[q]} \cup texts
    <2>1. PICK n \in 1..M : \E j \in 1..Len(aa[n]) : q = Start(aa, n) + j
      BY <1>6, <1>9, FlatFrom
    <2>2. PICK j \in 1..Len(aa[n]) : q = Start(aa, n) + j
      BY <2>1
    <2>3. FlattenSeq(aa)[q] = aa[n][j]
      BY <1>6, <1>9, <2>2, FlatPlaces
    <2>4. n \in 1..Len(bb) /\ j \in 1..Len(bb[n]) /\ q = Start(bb, n) + j
      <3>1. n \in 1..(M + 1)
        BY <1>1
      <3>2. QED
        BY <1>7, <1>9, <1>10, <2>2, <3>1
    <2>5. FlattenSeq(bb)[q] = bb[n][j]
      BY <1>9, <2>4, FlatPlaces
    <2> DEFINE c == s[n].claims
    <2>6. /\ IsSeq(c) /\ t[n].claims = c /\ t[n].text \in {s[n].text} \cup texts
          /\ aa[n] = Sentence(s[n]) /\ bb[n] = Sentence(t[n])
      BY <1>1, <1>2, <1>3
    <2>7. /\ Len(aa[n]) = 1 + Len(c) /\ aa[n][1] = s[n].text
          /\ \A k \in 1..Len(c) : aa[n][1 + k] = c[k].text
      <3> DEFINE step == s[n]
      <3>1. IsSeq(step.claims) /\ step.claims = c /\ aa[n] = Sentence(step)
        BY <2>6
      <3> HIDE DEF step, c
      <3>2. /\ Len(Sentence(step)) = 1 + Len(step.claims) /\ Sentence(step)[1] = step.text
            /\ \A k \in 1..Len(step.claims) : Sentence(step)[1 + k] = step.claims[k].text
        BY <3>1, SentenceIs
      <3>3. QED
        BY <3>1, <3>2 DEF step
    <2>8. /\ bb[n][1] = t[n].text
          /\ \A k \in 1..Len(c) : bb[n][1 + k] = c[k].text
      <3> DEFINE step == t[n]
      <3>1. IsSeq(step.claims) /\ step.claims = c /\ bb[n] = Sentence(step)
        BY <2>6
      <3> HIDE DEF step, c
      <3>2. /\ Sentence(step)[1] = step.text
            /\ \A k \in 1..Len(step.claims) : Sentence(step)[1 + k] = step.claims[k].text
        BY <3>1, SentenceIs
      <3>3. QED
        BY <3>1, <3>2 DEF step
    <2>9. Len(c) \in Nat
      BY <2>6, IsSeqMeans
    <2> HIDE DEF c
    <2>10. j = 1 \/ (j - 1 \in 1..Len(c) /\ j = 1 + (j - 1))
      BY <2>2, <2>7, <2>9
    <2>11. CASE j = 1
      BY <2>3, <2>5, <2>6, <2>7, <2>8, <2>11
    <2>12. CASE j - 1 \in 1..Len(c) /\ j = 1 + (j - 1)
      <3> DEFINE k == j - 1
      <3>1. k \in 1..Len(c) /\ j = 1 + k
        BY <2>12
      <3> HIDE DEF k
      <3>2. aa[n][j] = c[k].text /\ bb[n][j] = c[k].text
        BY <2>7, <2>8, <3>1
      <3>3. QED
        BY <2>3, <2>5, <3>2
    <2>13. QED
      BY <2>10, <2>11, <2>12
  <1>13. QED
    BY <1>4, <1>5, <1>8, <1>10, <1>11, <1>12

\* What NothingWrittenIsLost says of the steps of a document.
NothingLost(rec, answer, steps, refused) ==
    LET written == FlattenSeq(Scenarios(answer))
    IN /\ Len(ReadOf(steps)) = Len(written)
       /\ \A i \in DOMAIN ReadOf(steps) : ReadOf(steps)[i] \in {written[i].text} \cup Sayings(rec)
       /\ Cardinality(Unbound(ClaimsOf(steps))) = Len(refused)

\* The same in other words.
LEMMA LostIs ==
  NothingWrittenIsLost <=>
    (stage = "drafted" /\ drafted.from = "file" =>
        NothingLost(recording, talk.answer, FlattenSeq(drafted.scenarios), drafted.b.refused))
  BY DEF NothingWrittenIsLost, NothingLost, DraftedSteps, DraftedClaims, ReadOf, ClaimsOf, Saying,
         Claiming, Sentence, Unbound, Sayings

\* What is written of a file loses nothing.
LEMMA WriteLost ==
  ASSUME RunInv, Write, drafted'.from = "file"
  PROVE  NothingLost(recording, talk.answer, FlattenSeq(drafted'.scenarios), drafted'.b.refused)
  <1>1. PICK d : /\ drafted' = [d EXCEPT !.scenarios = ApplyIntentNotes(recording, d.scenarios)]
                 /\ Document(Context, Binding, d)
                 /\ d.from = "file" =>
                      \E lines, f, file : ReadBy(Context, Binding, talk.answer, file, lines, f)
                        /\ ~file.failed /\ d.b = file.b
                        /\ d.scenarios = ApplyRejections(NotEmpty(file.done), expectations)
                 /\ IsBinding(Binding) /\ recording \in Recordings /\ Context.rec = recording
    BY WriteIs
  <1> DEFINE ctx == Context
             was == Binding
             told == ApplyIntentNotes(recording, d.scenarios)
             written == FlattenSeq(Scenarios(talk.answer))
  <1>2. was.refused = <<>>
    BY DEF Binding
  <1>3. told = ApplyIntentNotes(recording, d.scenarios) /\ drafted' = [d EXCEPT !.scenarios = told]
    BY <1>1
  <1>4. d = [b |-> d.b, scenarios |-> d.scenarios, omitted |-> d.omitted, from |-> d.from]
    BY <1>1 DEF Document
  <1>5. written = FlattenSeq(Scenarios(talk.answer))
    OBVIOUS
  <1>6. ctx.rec \in Recordings /\ IsBinding(was) /\ ctx.rec = recording
    BY <1>1
  <1> HIDE DEF told, written
  <1>7. drafted' = [b |-> d.b, scenarios |-> told, omitted |-> d.omitted, from |-> d.from]
    BY <1>3, <1>4
  <1>8. drafted'.b = d.b /\ drafted'.from = d.from /\ drafted'.scenarios = told
    BY <1>7
  <1>9. PICK lines, f, file : /\ ReadBy(ctx, was, talk.answer, file, lines, f)
                              /\ ~file.failed /\ d.b = file.b
                              /\ d.scenarios = ApplyRejections(NotEmpty(file.done), expectations)
    BY <1>1, <1>8
  <1> HIDE DEF ctx, was
  <1> DEFINE done == file.done
             built == NotEmpty(done)
             marked == ApplyRejections(built, expectations)
             read == FlattenSeq(built)
             steps == FlattenSeq(told)
  <1>10. IsSeq(talk.answer.lines)
    BY DEF RunInv, LogInv, IsAnswer, AreLists
  <1>11. /\ Len(lines) = Len(written) /\ \A j \in 1..Len(lines) : lines[j].text = written[j].text
         /\ IsSeq(lines)
    BY <1>5, <1>9 DEF ReadBy
  <1>12. Tally(lines, Len(lines), FlattenSeq(done), file.b.refused)
    BY <1>2, <1>6, <1>9, <1>10, FileTally
  <1>13. Reading(ctx, was, file, Len(talk.answer.lines))
    <2>1. Len(lines) \in 0..Len(lines)
      BY <1>11, IsSeqMeans
    <2>2. QED
      BY <1>9, <2>1 DEF ReadBy
  <1>14. ScenariosHold(recording, file.b, done) /\ SeqOfSeqs(done)
    BY <1>6, <1>13 DEF Reading, ScenariosHold, StepsHold, SeqOfSeqs
  <1>15. read = FlattenSeq(done)
    BY <1>14, EmptyOnes
  <1>16. told = ApplyIntentNotes(recording, marked)
    BY <1>3, <1>9
  <1>17. built = NotEmpty(done) /\ marked = ApplyRejections(built, expectations)
    OBVIOUS
  <1>18. read = FlattenSeq(built) /\ steps = FlattenSeq(told)
    OBVIOUS
  <1> HIDE DEF done, built, marked, read, steps
  <1>19. ScenariosHold(recording, file.b, built)
    BY <1>14, <1>17, BuiltIs
  <1>20. Altered(recording, built, marked, {})
    BY <1>17, <1>19, RejectionsAlter
  <1>21. ScenariosHold(recording, file.b, marked)
    BY <1>19, <1>20, AlteredHold
  <1>22. Altered(recording, marked, told, Sayings(recording))
    BY <1>1, <1>16, <1>21, NotesAlter
  <1>23. Altered(recording, built, told, Sayings(recording))
    BY <1>20, <1>22, AlteredTwice
  <1>24. SameSteps(read, steps, Sayings(recording))
    BY <1>18, <1>19, <1>23, AlteredSame
  <1>25. /\ ClaimsOf(steps) = ClaimsOf(read) /\ Len(ReadOf(steps)) = Len(ReadOf(read))
         /\ IsSeq(ReadOf(steps))
         /\ \A i \in 1..Len(ReadOf(read)) : ReadOf(steps)[i] \in {ReadOf(read)[i]} \cup Sayings(recording)
    BY <1>24, SameRead
  <1>26. /\ AsLines(lines, Len(lines), ReadOf(read))
         /\ Cardinality(Unbound(ClaimsOf(read))) = Len(file.b.refused)
    BY <1>12, <1>15 DEF Tally
  <1>27. Len(ReadOf(steps)) = Len(written)
    BY <1>11, <1>25, <1>26 DEF AsLines
  <1>28. \A i \in DOMAIN ReadOf(steps) : ReadOf(steps)[i] \in {written[i].text} \cup Sayings(recording)
    <2>1. TAKE i \in DOMAIN ReadOf(steps)
    <2>2. i \in 1..Len(lines)
      BY <1>11, <1>25, <1>27, IsSeqMeans
    <2>3. ReadOf(read)[i] = written[i].text /\ i \in 1..Len(ReadOf(read))
      BY <1>11, <1>26, <2>2 DEF AsLines
    <2>4. QED
      BY <1>25, <2>3
  <1>29. Cardinality(Unbound(ClaimsOf(steps))) = Len(drafted'.b.refused)
    BY <1>8, <1>9, <1>25, <1>26
  <1>30. NothingLost(recording, talk.answer, steps, drafted'.b.refused)
    BY <1>5, <1>27, <1>28, <1>29 DEF NothingLost
  <1>31. QED
    BY <1>8, <1>18, <1>30

\* Once there is a document only a file of the log changes.
LEMMA DraftedStays ==
  ASSUME [Next]_runVars, stage' = "drafted"
  PROVE  \/ Write
         \/ stage = "drafted" /\ drafted' = drafted /\ talk' = talk /\ recording' = recording
  <1>1. ~(Place \/ Finish)
    BY DEF Place, Finish, PlaceEvent, FinishSegments
  <1>2. ~(Guess \/ Ask \/ AskWithoutTools \/ AskPastBudget \/ AnswerUnretrieved \/ AnswerAccepted
          \/ OutOfTurns)
    BY DEF Guess, Ask, AskWithoutTools, AskPastBudget, Told, AnswerUnretrieved, AnswerAccepted,
           OutOfTurns, Turn
  <1>3. ~(Gate \/ Judge \/ Suggest)
    BY DEF Gate, Judge, Suggest
  <1>4. CASE Damage
    BY <1>4 DEF Damage, sessionVars
  <1>5. CASE UNCHANGED runVars
    BY <1>5 DEF runVars, segmentVars, authorVars
  <1>6. QED
    BY <1>1, <1>2, <1>3, <1>4, <1>5 DEF Next

\* A step of the run loses nothing that was written.
LEMMA NextLost == RunInv /\ NothingWrittenIsLost /\ [Next]_runVars => NothingWrittenIsLost'
  <1>1. SUFFICES ASSUME RunInv, NothingWrittenIsLost, [Next]_runVars,
                        stage' = "drafted", drafted'.from = "file"
                 PROVE  NothingLost(recording', talk'.answer, FlattenSeq(drafted'.scenarios),
                                    drafted'.b.refused)
    <2>1. NothingWrittenIsLost' <=>
            (stage' = "drafted" /\ drafted'.from = "file" =>
               NothingLost(recording', talk'.answer, FlattenSeq(drafted'.scenarios), drafted'.b.refused))
      BY DEF NothingWrittenIsLost, NothingLost, DraftedSteps, DraftedClaims, ReadOf, ClaimsOf, Saying,
             Claiming, Sentence, Unbound, Sayings
    <2>2. QED
      BY <2>1
  <1>2. CASE Write
    <2>1. recording' = recording /\ talk' = talk
      BY <1>2 DEF Write, sessionVars
    <2>2. QED
      BY <1>1, <1>2, <2>1, WriteLost
  <1>3. CASE ~Write
    <2>1. stage = "drafted" /\ drafted' = drafted /\ talk' = talk /\ recording' = recording
      BY <1>1, <1>3, DraftedStays
    <2>2. QED
      BY <1>1, <2>1, LostIs
  <1>4. QED
    BY <1>2, <1>3

\* Whatever is recorded and answered, the document reads as the file, line by line,
\* and there is a refusal for everything that could not be bound.
THEOREM NothingWrittenIsEverLost == Spec => []NothingWrittenIsLost
  <1>1. Init => NothingWrittenIsLost
    BY DEF Init, SegmentInit, NothingWrittenIsLost
  <1>2. QED
    BY <1>1, NextLost, RunInvariant, PTL DEF Spec

=============================================================================
