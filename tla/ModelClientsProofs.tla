-------------------------- MODULE ModelClientsProofs --------------------------
(* What is true of the count and of the pacing for any number of jobs,     *)
(* calls and attempts, and for any length of a minute.                     *)
EXTENDS ModelClients, SequenceTheorems, FiniteSetTheorems, TLAPS

(***************************************************************************)
(* The inductive invariant.                                                *)
(***************************************************************************)

\* Whatever has been read of the count, and the count itself, leave room for the
\* answers that are not counted yet; exactly so if nobody disturbed anybody.
Guarding(j) == pc[j] \in {"open", "save"}
NeverTooHigh ==
    /\ Cardinality(Uncounted) <= spent
    /\ count # Torn => count + Cardinality(Uncounted) <= spent
    /\ \A j \in Jobs : Guarding(j) => loaded[j] + Cardinality(Uncounted) <= spent
Exact ==
    calm /\ crashes = 0 =>
        /\ \A i, j \in Jobs : Guarding(i) /\ Guarding(j) => i = j
        /\ \A j \in Jobs : Guarding(j) => loaded[j] + Cardinality(Uncounted) = spent
        /\ count # Torn => count + Cardinality(Uncounted) = spent

\* The calls of a job are in order, and one that may ask has a free slot, now or
\* when it has waited for the oldest of them.
Ordered(ages) == \A i, k \in DOMAIN ages : i <= k => ages[i] >= ages[k]
Free(ages)    == Len(Young(ages)) < Rpm
FreeIn(ages, time) == Len(ages) \in 1..Rpm /\ ages[1] + time >= Minute
PacedAt(j) ==
    /\ Ordered(recent[j]) /\ Len(Young(recent[j])) <= Rpm
    /\ pc[j] \in {"pace", "ask"} => attempt[j] > 0
    /\ pc[j] = "ask" => Free(recent[j]) \/ FreeIn(recent[j], wait[j])
Paced == \A j \in Jobs : PacedAt(j)

IInv == TypeOK /\ NeverTooHigh /\ Exact /\ Paced

-----------------------------------------------------------------------------
USE ClientsAssumption

LEMMA UncountedIsFinite ==
  /\ Uncounted \subseteq Jobs /\ IsFiniteSet(Uncounted) /\ Cardinality(Uncounted) \in Nat
  <1>1. Uncounted \subseteq Jobs
    BY DEF Uncounted
  <1>2. QED
    BY <1>1, FS_Subset, FS_CardinalityType

LEMMA Constants ==
  Ages' = Ages
  BY DEF Ages

-----------------------------------------------------------------------------
(* The ages of calls. *)

\* The least of some numbers.
LEMMA Least ==
  ASSUME NEW T \in SUBSET Nat, T # {}
  PROVE  \E n \in T : \A m \in T : n <= m
  <1>1. T \subseteq Nat
    OBVIOUS
  <1>2. PICK n \in T : \A m \in T : ~(<<m, n>> \in OpToRel(<, Nat))
    BY <1>1, WFMin, NatLessThanWellFounded, Zenon
  <1>3. ASSUME NEW m \in T, m < n PROVE FALSE
    <2>1. <<m, n>> \in OpToRel(<, Nat)
      BY <1>1, <1>3 DEF OpToRel
    <2>2. QED
      BY <1>2, <2>1
  <1>4. QED
    BY <1>1, <1>3

\* Of calls in order, the old ones are the first ones.
LEMMA OldOnesFirst ==
  ASSUME NEW r \in Ages, Ordered(r)
  PROVE  \E k \in 0..Len(r) : Old(r) = 1..k /\ Cardinality(Old(r)) = k
  <1>1. Len(r) \in Nat /\ DOMAIN r = 1..Len(r) /\ \A i \in 1..Len(r) : r[i] \in 0..Minute
    BY LenProperties, ElementOfSeq DEF Ages
  <1> DEFINE T == {n \in Nat : n + 1 \notin Old(r)}
  <1>2. Len(r) \in T
    BY <1>1 DEF Old
  <1>3. PICK k \in T : \A m \in T : k <= m
    BY <1>2, Least
  <1>4. Old(r) = 1..k
    <2>1. ASSUME NEW i \in 1..k PROVE i \in Old(r)
      BY <1>3, i - 1 \in Nat, i - 1 < k
    <2>2. ASSUME NEW i \in Old(r) PROVE i \in 1..k
      <3>1. i \in 1..Len(r) /\ r[i] >= Minute
        BY <1>1 DEF Old
      <3>2. CASE i > k
        <4>1. k \in Nat /\ k + 1 \notin Old(r)
          OBVIOUS
        <4>2. k + 1 \in 1..Len(r) /\ k + 1 <= i
          BY <1>1, <3>1, <3>2, <4>1
        <4>3. r[k + 1] >= r[i]
          BY <1>1, <3>1, <4>2 DEF Ordered
        <4>4. r[k + 1] >= Minute
          BY <1>1, <3>1, <4>2, <4>3
        <4>5. QED
          BY <1>1, <4>1, <4>2, <4>4 DEF Old
      <3>3. QED
        BY <1>1, <3>1, <3>2
    <2>3. QED
      BY <2>1, <2>2
  <1>5. k \in 0..Len(r)
    BY <1>2, <1>3, <1>1
  <1>6. QED
    BY <1>4, <1>5, FS_Interval

\* What is young is what stands after them.
LEMMA YoungOnesLast ==
  ASSUME NEW r \in Ages, Ordered(r)
  PROVE  /\ Young(r) \in Ages /\ Ordered(Young(r))
         /\ Cardinality(Old(r)) \in 0..Len(r) /\ Old(r) = 1..Cardinality(Old(r))
         /\ Len(Young(r)) = Len(r) - Cardinality(Old(r))
         /\ \A i \in 1..Len(Young(r)) : Young(r)[i] < Minute
  <1>1. Len(r) \in Nat /\ DOMAIN r = 1..Len(r) /\ \A i \in 1..Len(r) : r[i] \in 0..Minute
    BY LenProperties, ElementOfSeq DEF Ages
  <1>2. PICK k \in 0..Len(r) : Old(r) = 1..k /\ Cardinality(Old(r)) = k
    BY OldOnesFirst
  <1>3. k + 1 \in Int /\ Len(r) \in Int
    BY <1>1, <1>2
  <1>0. Young(r) = SubSeq(r, k + 1, Len(r))
    BY <1>2, Zenon DEF Young
  <1>4. \A i \in k + 1..Len(r) : r[i] \in 0..Minute
    BY <1>1, <1>2
  <1>5. /\ Young(r) \in Ages
        /\ Len(Young(r)) = IF k + 1 <= Len(r) THEN Len(r) - (k + 1) + 1 ELSE 0
        /\ \A i \in 1..Len(r) - (k + 1) + 1 : Young(r)[i] = r[k + 1 + i - 1]
    <2>1. /\ SubSeq(r, k + 1, Len(r)) \in Seq(0..Minute)
          /\ Len(SubSeq(r, k + 1, Len(r))) = IF k + 1 <= Len(r) THEN Len(r) - (k + 1) + 1 ELSE 0
          /\ \A i \in 1..Len(r) - (k + 1) + 1 : SubSeq(r, k + 1, Len(r))[i] = r[k + 1 + i - 1]
      BY <1>3, <1>4, SubSeqProperties
    <2>2. QED
      BY <1>0, <2>1 DEF Ages
  <1>6. Len(Young(r)) = Len(r) - k /\ DOMAIN Young(r) = 1..Len(r) - k
    <2>1. Len(Young(r)) = Len(r) - k
      <3>1. Len(Young(r)) = IF k + 1 <= Len(r) THEN Len(r) - (k + 1) + 1 ELSE 0
        BY <1>5
      <3>2. Len(r) \in Nat
        BY <1>1
      <3>3. QED
        BY <1>2, <3>1, <3>2
    <2>2. DOMAIN Young(r) = 1..Len(Young(r))
      BY <1>5, LenProperties DEF Ages
    <2>3. QED
      BY <2>1, <2>2
  <1>7. ASSUME NEW i \in 1..Len(r) - k PROVE Young(r)[i] = r[k + i] /\ k + i \in k + 1..Len(r)
    <2>1. i \in 1..Len(r) - (k + 1) + 1 /\ k + 1 + i - 1 = k + i /\ k + i \in k + 1..Len(r)
      BY <1>1, <1>2
    <2>2. QED
      BY <1>5, <2>1
  <1>8. Ordered(Young(r))
    <2>1. SUFFICES ASSUME NEW i \in 1..Len(r) - k, NEW h \in 1..Len(r) - k, i <= h
                   PROVE  Young(r)[i] >= Young(r)[h]
      BY <1>6 DEF Ordered
    <2>2. k + i <= k + h /\ k + i \in DOMAIN r /\ k + h \in DOMAIN r
      BY <1>1, <1>2, <2>1
    <2>3. r[k + i] >= r[k + h]
      BY <2>2 DEF Ordered
    <2>4. QED
      BY <1>7, <2>3
  <1>9. ASSUME NEW i \in 1..Len(r) - k PROVE Young(r)[i] < Minute
    <2>1. k + i \in DOMAIN r /\ k + i \notin Old(r)
      BY <1>1, <1>2
    <2>2. QED
      BY <1>1, <1>7, <2>1 DEF Old
  <1>10. QED
    BY <1>2, <1>5, <1>6, <1>8, <1>9

LEMMA NoCalls ==
  <<>> \in Ages /\ Ordered(<<>>) /\ Len(Young(<<>>)) = 0
  <1>1. <<>> \in Ages /\ Len(<<>>) = 0 /\ Ordered(<<>>)
    BY DEF Ordered, Ages
  <1>2. Cardinality(Old(<<>>)) \in 0..0 /\ Len(Young(<<>>)) = 0 - Cardinality(Old(<<>>))
    BY <1>1, YoungOnesLast
  <1>3. QED
    BY <1>1, <1>2

\* The pacer's filter leaves nothing for a second one, and an answer is the
\* youngest of all.
LEMMA Answering ==
  ASSUME NEW r \in Ages, Ordered(r)
  PROVE  /\ Len(Young(Young(r))) = Len(Young(r))
         /\ Append(Young(r), 0) \in Ages /\ Ordered(Append(Young(r), 0))
         /\ Len(Young(Append(Young(r), 0))) = Len(Young(r)) + 1
  <1> DEFINE y == Young(r)
             z == Append(Young(r), 0)
             n == Len(Young(r))
  <1>1. y \in Ages /\ Ordered(y)
    BY YoungOnesLast
  <1>2. n \in Nat /\ DOMAIN y = 1..n
    BY <1>1, LenProperties DEF Ages
  <1>3. \A i \in 1..n : y[i] \in 0..Minute /\ y[i] < Minute
    BY <1>1, YoungOnesLast, ElementOfSeq DEF Ages
  <1>4. 0 \in 0..Minute /\ 0 < Minute
    OBVIOUS
  <1>5. z \in Ages /\ Len(z) = n + 1
    BY <1>1, <1>4, AppendProperties DEF Ages
  <1>6. (\A i \in 1..n : z[i] = y[i]) /\ z[n + 1] = 0
    BY <1>1, <1>4, AppendProperties DEF Ages
  <1>7. DOMAIN z = 1..n + 1
    BY <1>5, LenProperties DEF Ages
  <1> HIDE DEF y, z, n
  <1>8. \A i \in 1..n + 1 : i \in 1..n \/ i = n + 1
    BY <1>2
  <1>9. \A i \in 1..n + 1 : z[i] \in 0..Minute /\ z[i] < Minute
    BY <1>3, <1>4, <1>6, <1>8
  <1>10. Ordered(z)
    <2>1. SUFFICES ASSUME NEW i \in 1..n + 1, NEW h \in 1..n + 1, i <= h
                   PROVE  z[i] >= z[h]
      BY <1>7 DEF Ordered
    <2>2. CASE h = n + 1
      BY <1>6, <1>9, <2>2
    <2>3. CASE h # n + 1
      <3>1. h \in 1..n /\ i \in 1..n
        BY <1>2, <2>1, <2>3
      <3>2. y[i] >= y[h]
        BY <1>1, <1>2, <2>1, <3>1 DEF Ordered
      <3>3. QED
        BY <1>6, <3>1, <3>2
    <2>4. QED
      BY <2>2, <2>3
  <1>11. Old(y) = {} /\ Old(z) = {}
    <2>1. \A i \in 1..n + 1 : ~(z[i] >= Minute)
      BY <1>9
    <2>2. \A i \in 1..n : ~(y[i] >= Minute)
      BY <1>3
    <2>3. QED
      BY <1>2, <1>7, <2>1, <2>2 DEF Old
  <1>12. Cardinality({}) = 0
    BY FS_EmptySet
  <1>13. /\ Len(Young(y)) = Len(y) - Cardinality(Old(y))
         /\ Len(Young(z)) = Len(z) - Cardinality(Old(z))
    BY <1>1, <1>5, <1>10, YoungOnesLast
  <1>14. Len(Young(y)) = n /\ Len(Young(z)) = n + 1
    <2>1. Len(y) = n
      BY DEF n, y
    <2>2. QED
      BY <1>2, <1>5, <1>11, <1>12, <1>13, <2>1
  <1>15. QED
    BY <1>5, <1>10, <1>14 DEF y, z, n

\* A moment later as many are young as before, or fewer.
LEMMA Ageing ==
  ASSUME NEW r \in Ages, Ordered(r), NEW s, s = [i \in DOMAIN r |-> Older(r[i])]
  PROVE  /\ s \in Ages /\ Ordered(s) /\ Len(s) = Len(r)
         /\ Len(Young(s)) \in Nat /\ Len(Young(s)) <= Len(Young(r))
         /\ \A i \in 1..Len(r) : s[i] = Older(r[i])
  <1>1. Len(r) \in Nat /\ DOMAIN r = 1..Len(r) /\ \A i \in 1..Len(r) : r[i] \in 0..Minute
    BY LenProperties, ElementOfSeq DEF Ages
  <1>2. \A i \in 1..Len(r) : s[i] = Older(r[i]) /\ s[i] \in 0..Minute /\ s[i] >= r[i]
    BY <1>1 DEF Older
  <1>3. s \in [1..Len(r) -> 0..Minute]
    BY <1>1, <1>2
  <1>4. s \in Ages /\ Len(s) = Len(r) /\ DOMAIN s = 1..Len(r)
    BY <1>1, <1>3 DEF Ages
  <1>5. Ordered(s)
    <2>1. SUFFICES ASSUME NEW i \in 1..Len(r), NEW h \in 1..Len(r), i <= h PROVE s[i] >= s[h]
      BY <1>4 DEF Ordered
    <2>2. r[i] >= r[h] /\ r[i] \in 0..Minute /\ r[h] \in 0..Minute
      BY <1>1, <2>1 DEF Ordered
    <2>3. Older(r[i]) >= Older(r[h])
      BY <2>2, SMTT(30) DEF Older
    <2>4. QED
      BY <1>2, <2>3
  <1>6. Old(r) \subseteq Old(s) /\ Old(s) \subseteq 1..Len(r)
    BY <1>1, <1>2, <1>4 DEF Old
  <1>7. Cardinality(Old(r)) <= Cardinality(Old(s))
    <2>1. IsFiniteSet(1..Len(r))
      BY <1>1, FS_Interval
    <2>2. IsFiniteSet(Old(s))
      BY <1>6, <2>1, FS_Subset
    <2>3. QED
      BY <1>6, <2>2, FS_Subset
  <1>8. /\ Len(Young(s)) = Len(s) - Cardinality(Old(s)) /\ Cardinality(Old(s)) \in 0..Len(s)
        /\ Len(Young(r)) = Len(r) - Cardinality(Old(r)) /\ Cardinality(Old(r)) \in 0..Len(r)
    BY <1>4, <1>5, YoungOnesLast
  <1>9. QED
    BY <1>1, <1>2, <1>4, <1>5, <1>7, <1>8

\* A job that has waited for its oldest call has a free slot.
LEMMA Waited ==
  ASSUME NEW r \in Ages, Ordered(r), FreeIn(r, 0)
  PROVE  Free(r)
  <1>1. Len(r) \in 1..Rpm /\ DOMAIN r = 1..Len(r) /\ r[1] \in 0..Minute /\ r[1] >= Minute
    BY LenProperties, ElementOfSeq DEF FreeIn, Ages
  <1>2. 1 \in Old(r)
    BY <1>1 DEF Old
  <1>3. Cardinality(Old(r)) \in Nat /\ 1 \in 1..Cardinality(Old(r)) /\ Len(Young(r)) = Len(r) - Cardinality(Old(r))
    BY <1>1, <1>2, YoungOnesLast
  <1>4. QED
    BY <1>1, <1>3 DEF Free

-----------------------------------------------------------------------------
(* What keeps the parts of the invariant. *)

LEMMA Waits ==
  ASSUME NEW n \in Nat \ {0}
  PROVE  2 ^ (n - 1) \in Nat
  <1>1. n - 1 \in Int /\ 1 \in Int
    OBVIOUS
  <1>2. /\ IsFiniteSet(1..n - 1)
        /\ Cardinality(1..n - 1) = IF 1 > n - 1 THEN 0 ELSE n - 1 - 1 + 1
    BY ONLY <1>1, FS_Interval
  <1>3. IsFiniteSet(SUBSET (1..n - 1)) /\ Cardinality(SUBSET (1..n - 1)) = 2 ^ (n - 1)
    <2>1. Cardinality(1..n - 1) = n - 1
      BY <1>2
    <2>2. QED
      BY <1>2, <2>1, FS_SUBSET
  <1>4. QED
    BY <1>3, FS_CardinalityType

LEMMA CountStays ==
  ASSUME TypeOK, NeverTooHigh, Exact,
         Uncounted' = Uncounted, \A j \in Jobs : Guarding(j)' => Guarding(j),
         UNCHANGED <<loaded, count, spent, calm, crashes>>
  PROVE  NeverTooHigh' /\ Exact'
  BY DEF NeverTooHigh, Exact

\* A job goes on without becoming one whose answer is not counted, or ceasing to be one.
LEMMA CountStaysAt ==
  ASSUME TypeOK, NeverTooHigh, Exact, NEW j \in Jobs, NEW place, Goes(j, place),
         place \notin {"open", "save"},
         j \in Uncounted <=> place \in {"record", "recording", "load", "open", "save"},
         UNCHANGED <<loaded, count, spent, calm, crashes>>
  PROVE  NeverTooHigh' /\ Exact'
  <1>1. \A i \in Jobs : pc'[i] = IF i = j THEN place ELSE pc[i]
    BY DEF Goes, TypeOK
  <1>2. Uncounted' = Uncounted
    BY <1>1 DEF Uncounted
  <1>3. \A i \in Jobs : Guarding(i)' => Guarding(i)
    BY <1>1 DEF Guarding
  <1>4. QED
    BY <1>2, <1>3, CountStays

LEMMA PacedNext ==
  ASSUME NEW j \in Jobs
  PROVE  PacedAt(j)' <=>
             /\ Ordered(recent'[j]) /\ Len(Young(recent'[j])) <= Rpm
             /\ pc'[j] \in {"pace", "ask"} => attempt'[j] > 0
             /\ pc'[j] = "ask" => Free(recent'[j]) \/ FreeIn(recent'[j], wait'[j])
  BY DEF PacedAt, Ordered, Free, FreeIn, Young, Old

\* A job that neither asks nor is about to is paced if the others are.
LEMMA PacingStays ==
  ASSUME Paced, UNCHANGED recent, NEW j \in Jobs, pc'[j] \notin {"pace", "ask"},
         \A i \in Jobs \ {j} : pc'[i] = pc[i] /\ wait'[i] = wait[i] /\ attempt'[i] = attempt[i]
  PROVE  Paced'
  <1>1. \A i \in Jobs \ {j} : PacedAt(i)'
    BY DEF Paced, PacedAt, Ordered, Free, FreeIn, Young, Old
  <1>2. PacedAt(j)'
    BY DEF Paced, PacedAt, Ordered, Young, Old
  <1>3. QED
    BY <1>1, <1>2 DEF Paced

\* So is one whose steps leave the others alone, if it is.
LEMMA PacedIfThisIs ==
  ASSUME Paced, NEW j \in Jobs, PacedAt(j)',
         \A i \in Jobs \ {j} : /\ pc'[i] = pc[i] /\ wait'[i] = wait[i]
                               /\ attempt'[i] = attempt[i] /\ recent'[i] = recent[i]
  PROVE  Paced'
  <1>1. \A i \in Jobs \ {j} : PacedAt(i)'
    BY DEF Paced, PacedAt, Ordered, Free, FreeIn, Young, Old
  <1>2. QED
    BY <1>1 DEF Paced

-----------------------------------------------------------------------------
(* The initial states. *)

LEMMA InitIInv ==
  ASSUME Init
  PROVE  IInv
  <1>1. TypeOK
    <2>1. (CHOOSE k \in Keys : TRUE) \in Keys
      OBVIOUS
    <2>2. <<>> \in Ages
      BY DEF Ages
    <2>3. QED
      BY <2>1, <2>2 DEF Init, TypeOK
  <1>2. Uncounted = {} /\ Cardinality({}) = 0
    BY FS_EmptySet DEF Init, Uncounted
  <1>3. NeverTooHigh /\ Exact
    BY <1>2 DEF Init, NeverTooHigh, Exact, Guarding
  <1>4. Ordered(<<>>) /\ Len(Young(<<>>)) = 0
    BY NoCalls
  <1>5. Paced
    BY <1>4 DEF Init, Paced, PacedAt
  <1>6. QED
    BY <1>1, <1>3, <1>5 DEF IInv

-----------------------------------------------------------------------------
(* The steps. *)

LEMMA LookupKeepsIInv ==
  ASSUME IInv, NEW j \in Jobs, Lookup(j)
  PROVE  IInv'
  <1> USE DEF IInv
  <1>1. PICK k \in Keys, offline \in BOOLEAN :
             /\ key' = [key EXCEPT ![j] = k]
             /\ Goes(j, IF cassette[k] # "none" \/ offline THEN "idle" ELSE "pace")
    BY DEF Lookup
  <1>2. PICK place \in {"idle", "pace"} : Goes(j, place)
    BY <1>1
  <1>3. /\ pc[j] = "idle" /\ left[j] > 0 /\ left' = [left EXCEPT ![j] = @ - 1]
        /\ attempt' = [attempt EXCEPT ![j] = 1]
        /\ UNCHANGED <<wait, recent, loaded, warned, cassette, count, crashes, spent, calm>>
    BY DEF Lookup
  <1>4. TypeOK'
    <2>1. left' \in [Jobs -> 0..Calls] /\ attempt' \in [Jobs -> 0..Attempts]
      BY <1>3 DEF TypeOK
    <2>2. QED
      BY Constants, <1>1, <1>2, <1>3, <2>1 DEF TypeOK, Goes
  <1>5. NeverTooHigh' /\ Exact'
    BY <1>2, <1>3, CountStaysAt DEF Uncounted
  <1>6. PacedAt(j)'
    <2>1. pc'[j] # "ask" /\ attempt'[j] > 0
      BY <1>2, <1>3 DEF Goes, TypeOK
    <2>2. PacedAt(j)
      BY DEF Paced
    <2>3. QED
      BY <1>3, <2>1, <2>2 DEF PacedAt, Ordered, Young, Old
  <1>7. Paced'
    BY <1>2, <1>3, <1>6, PacedIfThisIs DEF Goes, TypeOK
  <1>8. QED
    BY <1>4, <1>5, <1>7

LEMMA CassetteKeepsIInv ==
  ASSUME IInv, NEW j \in Jobs, OpenCassette(j) \/ CloseCassette(j)
  PROVE  IInv'
  <1> USE DEF IInv
  <1>1. PICK place \in {"recording", "load"} : Goes(j, place) /\ pc[j] \in {"record", "recording"}
    BY DEF OpenCassette, CloseCassette
  <1>2. TypeOK'
    BY Constants, <1>1 DEF OpenCassette, CloseCassette, TypeOK, Goes
  <1>3. UNCHANGED <<wait, attempt, recent, loaded, count, spent, calm, crashes>>
    BY DEF OpenCassette, CloseCassette
  <1>4. NeverTooHigh' /\ Exact'
    BY <1>1, <1>3, CountStaysAt DEF Uncounted
  <1>5. Paced'
    BY <1>1, <1>3, PacingStays DEF Goes, TypeOK
  <1>6. QED
    BY <1>2, <1>4, <1>5

LEMMA WaitForSlotKeepsIInv ==
  ASSUME IInv, NEW j \in Jobs, WaitForSlot(j)
  PROVE  IInv'
  <1> USE DEF IInv
  <1>1. pc[j] = "pace" /\ Goes(j, "ask") /\ recent[j] \in Ages /\ Ordered(recent[j])
    BY DEF WaitForSlot, TypeOK, Paced, PacedAt
  <1> DEFINE y == Young(recent[j])
  <1>2. /\ y \in Ages /\ Ordered(y) /\ Len(y) \in Nat
        /\ \A i \in 1..Len(y) : y[i] \in 0..Minute
    BY <1>1, YoungOnesLast, LenProperties, ElementOfSeq DEF Ages
  <1>3. Len(Young(y)) = Len(y) /\ Len(y) <= Rpm
    BY <1>1, Answering DEF Paced, PacedAt
  <1> HIDE DEF y
  <1>4. /\ recent' = [recent EXCEPT ![j] = y]
        /\ wait' = [wait EXCEPT ![j] = IF Len(y) < Rpm THEN 0 ELSE Minute - y[1]]
    BY <1>1 DEF WaitForSlot, TypeOK, Slots, y
  <1>5. ~(Len(y) < Rpm) => Len(y) \in 1..Rpm /\ y[1] \in 0..Minute
    BY <1>2, <1>3
  <1>6. TypeOK'
    <2>1. (IF Len(y) < Rpm THEN 0 ELSE Minute - y[1]) \in Nat
      BY <1>5
    <2>2. wait' \in [Jobs -> Nat]
      BY <1>4, <2>1 DEF TypeOK
    <2>3. recent' \in [Jobs -> Ages]
      BY <1>2, <1>4 DEF TypeOK
    <2>4. QED
      BY Constants, <2>2, <2>3 DEF WaitForSlot, TypeOK, Goes
  <1>7. NeverTooHigh' /\ Exact'
    BY <1>1, CountStaysAt DEF WaitForSlot, Uncounted
  <1>8. PacedAt(j)'
    <2>1. /\ recent'[j] = y /\ wait'[j] = IF Len(y) < Rpm THEN 0 ELSE Minute - y[1]
          /\ attempt'[j] = attempt[j]
      BY <1>4 DEF TypeOK, WaitForSlot
    <2>2. Free(y) \/ FreeIn(y, wait'[j])
      BY <1>3, <1>5, <2>1 DEF Free, FreeIn
    <2>3. attempt[j] > 0
      BY <1>1 DEF Paced, PacedAt
    <2>4. QED
      BY <1>2, <1>3, <2>1, <2>2, <2>3 DEF PacedAt, Ordered, Young, Old, Free, FreeIn
  <1>9. Paced'
    BY <1>1, <1>4, <1>8, PacedIfThisIs DEF Goes, TypeOK, WaitForSlot
  <1>10. QED
    BY <1>6, <1>7, <1>9

LEMMA AnsweredKeepsIInv ==
  ASSUME IInv, NEW j \in Jobs, Answered(j)
  PROVE  IInv'
  <1> USE DEF IInv
  <1>1. pc[j] = "ask" /\ wait[j] = 0 /\ Goes(j, "record") /\ recent[j] \in Ages /\ PacedAt(j)
    BY DEF Answered, Asking, TypeOK, Paced
  <1> DEFINE z == Append(Young(recent[j]), 0)
  <1>2. z \in Ages /\ Ordered(z) /\ Len(Young(z)) = Len(Young(recent[j])) + 1
    BY <1>1, Answering DEF PacedAt
  <1> HIDE DEF z
  <1>3. /\ recent' = [recent EXCEPT ![j] = z] /\ spent' = spent + 1
        /\ UNCHANGED <<key, left, attempt, wait, loaded, warned, cassette, count, crashes, calm>>
    BY <1>1 DEF Answered, TypeOK, z
  <1>4. TypeOK'
    BY Constants, <1>1, <1>2, <1>3, SMTT(30) DEF TypeOK, Goes
  <1>5. /\ j \notin Uncounted /\ Uncounted' = Uncounted \cup {j}
        /\ \A i \in Jobs : Guarding(i)' => Guarding(i)
    BY <1>1 DEF Goes, TypeOK, Uncounted, Guarding
  <1>6. Cardinality(Uncounted') = Cardinality(Uncounted) + 1
    BY <1>5, UncountedIsFinite, FS_AddElement
  <1>7. NeverTooHigh'
    <2> DEFINE n == Cardinality(Uncounted)
    <2>1. n \in Nat /\ n <= spent /\ spent \in Nat /\ count \in Nat \cup {Torn}
      BY UncountedIsFinite DEF NeverTooHigh, TypeOK
    <2>2. (count # Torn => count + n <= spent) /\ \A i \in Jobs : Guarding(i) => loaded[i] + n <= spent
      BY DEF NeverTooHigh
    <2>3. Cardinality(Uncounted)' = n + 1
      BY <1>6
    <2> HIDE DEF n
    <2>4. count # Torn => count + (n + 1) <= spent + 1
      BY <2>1, <2>2
    <2>5. \A i \in Jobs : Guarding(i) => loaded[i] \in Nat /\ loaded[i] + (n + 1) <= spent + 1
      BY <2>1, <2>2 DEF TypeOK
    <2>6. QED
      BY <1>3, <1>5, <2>1, <2>3, <2>4, <2>5 DEF NeverTooHigh
  <1>8. Exact'
    BY <1>3, <1>5, <1>6, UncountedIsFinite DEF Exact, TypeOK
  <1>9. Len(Young(recent[j])) < Rpm /\ Len(Young(recent[j])) \in Nat
    <2>1. FreeIn(recent[j], wait[j]) => FreeIn(recent[j], 0)
      BY <1>1
    <2>2. QED
      BY <1>1, <2>1, Waited, YoungOnesLast, LenProperties DEF PacedAt, Free, Ages
  <1>10. PacedAt(j)'
    <2>1. pc'[j] = "record" /\ recent'[j] = z
      BY <1>1, <1>3 DEF Goes, TypeOK
    <2>2. Len(Young(z)) <= Rpm
      BY <1>2, <1>9
    <2>3. QED
      BY <1>2, <2>1, <2>2, PacedNext
  <1>11. Paced'
    BY <1>1, <1>3, <1>10, PacedIfThisIs DEF Goes, TypeOK
  <1>12. QED
    BY <1>4, <1>7, <1>8, <1>11

\* A call that fails is retried after a while, or given up.
Retried(j) ==
    \/ GiveUp(j)
    \/ /\ \E time \in Nat : wait' = [wait EXCEPT ![j] = time]
       /\ attempt[j] < Attempts /\ attempt' = [attempt EXCEPT ![j] = @ + 1]
       /\ UNCHANGED pc

LEMMA FailuresAreRetried ==
  ASSUME IInv, NEW j \in Jobs, RateLimited(j) \/ Errs(j)
  PROVE  Retried(j)
  <1>1. attempt[j] \in 1..Attempts
    BY DEF IInv, TypeOK, Paced, PacedAt, RateLimited, Errs, Asking
  <1>2. CASE RateLimited(j)
    BY <1>1, <1>2 DEF IInv, TypeOK, RateLimited, LastAttempt, NextAttempt, WaitOnLimit, Retried
  <1>3. CASE Errs(j)
    <2>1. 2 ^ (attempt[j] - 1) \in Nat
      BY <1>1, Waits
    <2>2. QED
      BY <1>1, <1>3, <2>1 DEF IInv, TypeOK, Errs, LastAttempt, NextAttempt, Retried
  <1>4. QED
    BY <1>2, <1>3

LEMMA FailureKeepsIInv ==
  ASSUME IInv, NEW j \in Jobs, RateLimited(j) \/ Errs(j)
  PROVE  IInv'
  <1> USE DEF IInv
  <1>1. /\ pc[j] = "ask" /\ wait[j] = 0 /\ recent[j] \in Ages /\ PacedAt(j)
        /\ UNCHANGED <<key, left, recent, loaded, warned, cassette, count, crashes, spent, calm>>
    BY DEF RateLimited, Errs, Asking, TypeOK, Paced
  <1>2. CASE GiveUp(j)
    <2>1. TypeOK'
      BY Constants, <1>1, <1>2 DEF GiveUp, Goes, TypeOK
    <2>2. NeverTooHigh' /\ Exact'
      BY <1>1, <1>2, CountStaysAt DEF GiveUp, Uncounted
    <2>3. Paced'
      BY <1>1, <1>2, PacingStays DEF GiveUp, Goes, TypeOK
    <2>4. QED
      BY <2>1, <2>2, <2>3
  <1>3. CASE ~GiveUp(j)
    <2>1. PICK time \in Nat : wait' = [wait EXCEPT ![j] = time]
      BY <1>3, FailuresAreRetried DEF Retried
    <2>2. attempt[j] < Attempts /\ attempt' = [attempt EXCEPT ![j] = @ + 1] /\ pc' = pc
      BY <1>3, FailuresAreRetried DEF Retried
    <2>3. TypeOK'
      BY Constants, <1>1, <2>1, <2>2 DEF TypeOK
    <2>4. NeverTooHigh' /\ Exact'
      BY <1>1, <2>2, CountStays DEF Uncounted, Guarding
    <2>5. Free(recent[j])
      <3>1. FreeIn(recent[j], wait[j]) => FreeIn(recent[j], 0)
        BY <1>1
      <3>2. QED
        BY <1>1, <3>1, Waited DEF PacedAt
    <2>6. PacedAt(j)'
      <3>1. attempt'[j] > 0 /\ recent'[j] = recent[j]
        BY <1>1, <2>2 DEF TypeOK
      <3>2. QED
        BY <1>1, <2>5, <3>1, PacedNext DEF PacedAt
    <2>7. Paced'
      BY <1>1, <2>1, <2>2, <2>6, PacedIfThisIs DEF TypeOK
    <2>8. QED
      BY <2>3, <2>4, <2>7
  <1>4. QED
    BY <1>2, <1>3

LEMMA LoadKeepsIInv ==
  ASSUME IInv, NEW j \in Jobs, Load(j)
  PROVE  IInv'
  <1> USE DEF IInv
  <1>1. /\ pc[j] = "load" /\ Goes(j, "open") /\ loaded' = [loaded EXCEPT ![j] = Read]
        /\ calm' = (calm /\ count # Torn /\ \A other \in Jobs \ {j} : ~Guarding(other))
        /\ UNCHANGED <<key, left, attempt, wait, recent, warned, cassette, count, crashes, spent>>
    BY DEF Load, Guarding
  <1>2. Read \in Nat
    BY DEF Read, TypeOK
  <1>3. TypeOK'
    BY Constants, <1>1, <1>2 DEF TypeOK, Goes
  <1>4. Uncounted' = Uncounted
    BY <1>1 DEF Goes, TypeOK, Uncounted
  <1>5. /\ \A i \in Jobs : Guarding(i)' <=> Guarding(i) \/ i = j
        /\ loaded'[j] = Read /\ \A i \in Jobs \ {j} : loaded'[i] = loaded[i]
    BY <1>1 DEF Goes, TypeOK, Guarding
  <1>6. NeverTooHigh'
    <2>1. Read + Cardinality(Uncounted) <= spent
      BY UncountedIsFinite DEF Read, NeverTooHigh, TypeOK
    <2>2. \A i \in Jobs : Guarding(i)' => loaded'[i] + Cardinality(Uncounted) <= spent
      BY <1>5, <2>1 DEF NeverTooHigh
    <2>3. QED
      BY <1>1, <1>4, <2>2 DEF NeverTooHigh
  <1>7. Exact'
    <2>1. SUFFICES ASSUME calm', crashes = 0 PROVE Exact'
      BY <1>1 DEF Exact
    <2>2. calm /\ count # Torn /\ (\A i \in Jobs : Guarding(i)' => i = j) /\ Read = count
      BY <1>1, <1>5, <2>1 DEF Read, TypeOK
    <2>3. count + Cardinality(Uncounted) = spent
      BY <2>1, <2>2 DEF Exact
    <2>4. QED
      BY <1>1, <1>4, <1>5, <2>2, <2>3 DEF Exact
  <1>8. Paced'
    BY <1>1, PacingStays DEF Goes, TypeOK
  <1>9. QED
    BY <1>3, <1>6, <1>7, <1>8

LEMMA OpenKeepsIInv ==
  ASSUME IInv, NEW j \in Jobs, Open(j)
  PROVE  IInv'
  <1> USE DEF IInv
  <1>1. /\ pc[j] = "open" /\ Goes(j, "save") /\ count' = Torn
        /\ UNCHANGED <<key, left, attempt, wait, recent, loaded, warned, cassette, crashes, spent, calm>>
    BY DEF Open
  <1>2. TypeOK'
    BY Constants, <1>1 DEF TypeOK, Goes
  <1>3. Uncounted' = Uncounted /\ \A i \in Jobs : Guarding(i)' <=> Guarding(i)
    BY <1>1 DEF Goes, TypeOK, Uncounted, Guarding
  <1>4. NeverTooHigh' /\ Exact'
    BY <1>1, <1>3 DEF NeverTooHigh, Exact
  <1>5. Paced'
    BY <1>1, PacingStays DEF Goes, TypeOK
  <1>6. QED
    BY <1>2, <1>4, <1>5

LEMMA SaveKeepsIInv ==
  ASSUME IInv, NEW j \in Jobs, Save(j)
  PROVE  IInv'
  <1> USE DEF IInv
  <1> DEFINE n == Cardinality(Uncounted)
  <1>1. /\ pc[j] = "save" /\ Goes(j, "idle") /\ count' = loaded[j] + 1
        /\ UNCHANGED <<key, left, attempt, wait, recent, loaded, cassette, crashes, spent, calm>>
    BY DEF Save
  <1>2. TypeOK'
    <2>1. warned' \in [Jobs -> BOOLEAN]
      BY DEF Save, TypeOK
    <2>2. count' \in Nat /\ pc' \in [Jobs -> {"idle", "pace", "ask", "record", "recording", "load", "open", "save"}]
      BY <1>1 DEF TypeOK, Goes
    <2>3. QED
      BY Constants, <1>1, <2>1, <2>2 DEF TypeOK
  <1>3. /\ j \in Uncounted /\ Uncounted' = Uncounted \ {j}
        /\ Guarding(j) /\ \A i \in Jobs : Guarding(i)' <=> Guarding(i) /\ i # j
    BY <1>1 DEF Goes, TypeOK, Uncounted, Guarding
  <1>4. n \in Nat /\ Cardinality(Uncounted)' = n - 1
    BY <1>3, UncountedIsFinite, FS_RemoveElement
  <1>5. /\ spent \in Nat /\ loaded[j] \in Nat /\ loaded[j] + n <= spent /\ n <= spent
        /\ \A i \in Jobs : Guarding(i) => loaded[i] \in Nat /\ loaded[i] + n <= spent
    BY <1>3 DEF NeverTooHigh, TypeOK
  <1>6. calm /\ crashes = 0 =>
            loaded[j] + n = spent /\ \A i \in Jobs : Guarding(i) => i = j
    BY <1>3 DEF Exact
  <1> HIDE DEF n
  <1>7. NeverTooHigh'
    <2>1. \A i \in Jobs : Guarding(i) => loaded[i] + (n - 1) <= spent
      BY <1>4, <1>5
    <2>2. n - 1 <= spent /\ loaded[j] + 1 + (n - 1) <= spent
      BY <1>4, <1>5
    <2>3. QED
      BY <1>1, <1>3, <1>4, <2>1, <2>2 DEF NeverTooHigh
  <1>8. Exact'
    <2>1. loaded[j] + n = spent => loaded[j] + 1 + (n - 1) = spent
      BY <1>4, <1>5
    <2>2. calm /\ crashes = 0 => /\ \A i \in Jobs : ~Guarding(i)'
                                /\ count' + Cardinality(Uncounted)' = spent
      BY <1>1, <1>3, <1>4, <1>6, <2>1
    <2>3. QED
      BY <1>1, <2>2 DEF Exact
  <1>9. Paced'
    BY <1>1, PacingStays DEF Goes, TypeOK
  <1>10. QED
    BY <1>2, <1>7, <1>8, <1>9

LEMMA CrashKeepsIInv ==
  ASSUME IInv, NEW j \in Jobs, Crash(j)
  PROVE  IInv'
  <1> USE DEF IInv
  <1>1. /\ Goes(j, "idle") /\ crashes < MaxCrashes /\ crashes' = crashes + 1
        /\ wait' = [wait EXCEPT ![j] = 0] /\ recent' = [recent EXCEPT ![j] = <<>>]
        /\ UNCHANGED <<key, left, attempt, loaded, cassette, count, spent, calm>>
    BY DEF Crash
  <1>2. <<>> \in Ages /\ Ordered(<<>>) /\ Len(Young(<<>>)) = 0
    BY NoCalls
  <1>3. TypeOK'
    <2>1. warned' \in [Jobs -> BOOLEAN]
      BY DEF Crash, TypeOK
    <2>2. crashes' \in 0..MaxCrashes /\ crashes' # 0
      BY <1>1 DEF TypeOK
    <2>3. QED
      BY Constants, <1>1, <1>2, <2>1, <2>2 DEF TypeOK, Goes
  <1>4. Uncounted' \subseteq Uncounted /\ \A i \in Jobs : Guarding(i)' => Guarding(i)
    BY <1>1 DEF Goes, TypeOK, Uncounted, Guarding
  <1>5. Cardinality(Uncounted') <= Cardinality(Uncounted) /\ Cardinality(Uncounted') \in Nat
    BY <1>4, UncountedIsFinite, FS_Subset, FS_CardinalityType
  <1>6. NeverTooHigh'
    <2> DEFINE n == Cardinality(Uncounted)
               m == Cardinality(Uncounted')
    <2>1. n \in Nat /\ m \in Nat /\ m <= n /\ n <= spent /\ spent \in Nat
      BY <1>5, UncountedIsFinite DEF NeverTooHigh, TypeOK
    <2>2. (count # Torn => count \in Nat /\ count + n <= spent)
      BY DEF NeverTooHigh, TypeOK
    <2>3. \A i \in Jobs : Guarding(i) => loaded[i] \in Nat /\ loaded[i] + n <= spent
      BY DEF NeverTooHigh, TypeOK
    <2> HIDE DEF n, m
    <2>4. /\ m <= spent
          /\ count # Torn => count + m <= spent
          /\ \A i \in Jobs : Guarding(i) => loaded[i] + m <= spent
      BY <2>1, <2>2, <2>3
    <2>5. QED
      BY <1>1, <1>4, <2>4 DEF NeverTooHigh, m
  <1>7. Exact'
    BY <1>1 DEF Exact, TypeOK
  <1>8. PacedAt(j)'
    BY <1>1, <1>2, PacedNext DEF Goes, TypeOK
  <1>9. Paced'
    BY <1>1, <1>8, PacedIfThisIs DEF Goes, TypeOK
  <1>10. QED
    BY <1>3, <1>6, <1>7, <1>9

\* Time passes for waits as for calls.
LEMMA TickKeepsIInv ==
  ASSUME IInv, Tick
  PROVE  IInv'
  <1> USE DEF IInv
  <1>1. /\ recent' = [j \in Jobs |-> [i \in DOMAIN recent[j] |-> Older(recent[j][i])]]
        /\ wait' = [j \in Jobs |-> Less(wait[j])]
        /\ UNCHANGED <<pc, key, left, attempt, loaded, warned, cassette, count, crashes, spent, calm>>
    BY DEF Tick
  <1>2. ASSUME NEW j \in Jobs
        PROVE  /\ recent'[j] \in Ages /\ Ordered(recent'[j]) /\ Len(recent'[j]) = Len(recent[j])
               /\ Len(Young(recent'[j])) \in Nat /\ Len(Young(recent'[j])) <= Len(Young(recent[j]))
               /\ Len(Young(recent[j])) \in Nat
               /\ \A i \in 1..Len(recent[j]) : recent'[j][i] = Older(recent[j][i])
               /\ recent[j] \in Ages /\ PacedAt(j)
    <2>1. recent[j] \in Ages /\ PacedAt(j) /\ Ordered(recent[j])
      BY DEF TypeOK, Paced, PacedAt
    <2>2. recent'[j] = [i \in DOMAIN recent[j] |-> Older(recent[j][i])]
      BY <1>1
    <2>3. Len(Young(recent[j])) \in Nat
      BY <2>1, YoungOnesLast, LenProperties DEF Ages
    <2>4. QED
      BY <2>1, <2>2, <2>3, Ageing
  <1>3. TypeOK'
    <2>1. wait' \in [Jobs -> Nat]
      BY <1>1 DEF TypeOK, Less
    <2>2. recent' \in [Jobs -> Ages]
      BY <1>1, <1>2
    <2>3. QED
      BY Constants, <1>1, <2>1, <2>2 DEF TypeOK
  <1>4. NeverTooHigh' /\ Exact'
    BY <1>1, CountStays DEF Uncounted, Guarding
  <1>5. ASSUME NEW j \in Jobs PROVE PacedAt(j)'
    <2>1. Len(Young(recent'[j])) <= Rpm /\ (Free(recent[j]) => Free(recent'[j]))
      BY <1>2 DEF PacedAt, Free
    <2>2. FreeIn(recent[j], wait[j]) => FreeIn(recent'[j], wait'[j])
      <3>1. SUFFICES ASSUME FreeIn(recent[j], wait[j]) PROVE FreeIn(recent'[j], wait'[j])
        OBVIOUS
      <3>2. Len(recent[j]) \in 1..Rpm /\ recent[j][1] + wait[j] >= Minute
        BY <3>1 DEF FreeIn
      <3>3. recent[j][1] \in 0..Minute /\ wait[j] \in Nat
        <4>1. recent[j] \in Seq(0..Minute) /\ 1 \in 1..Len(recent[j])
          BY <1>2, <3>2 DEF Ages
        <4>2. recent[j][1] \in 0..Minute
          BY <4>1, ElementOfSeq
        <4>3. QED
          BY <4>2 DEF TypeOK
      <3>4. wait'[j] = Less(wait[j]) /\ recent'[j][1] = Older(recent[j][1])
        BY <1>1, <1>2, <3>2
      <3>5. Older(recent[j][1]) + Less(wait[j]) >= Minute
        BY <3>2, <3>3, SMTT(30) DEF Older, Less
      <3>6. QED
        BY <1>2, <3>2, <3>4, <3>5 DEF FreeIn
    <2>3. QED
      BY <1>1, <1>2, <2>1, <2>2, PacedNext DEF PacedAt
  <1>6. QED
    BY <1>3, <1>4, <1>5 DEF Paced

-----------------------------------------------------------------------------
(***************************************************************************)
(* The theorems.                                                           *)
(***************************************************************************)

LEMMA NextKeepsIInv ==
  ASSUME IInv, [Next]_clientVars
  PROVE  IInv'
  <1>1. CASE Tick
    BY <1>1, TickKeepsIInv
  <1>2. ASSUME NEW j \in Jobs, Step(j) PROVE IInv'
    BY <1>2, LookupKeepsIInv, CassetteKeepsIInv, WaitForSlotKeepsIInv, AnsweredKeepsIInv,
       FailureKeepsIInv, LoadKeepsIInv, OpenKeepsIInv, SaveKeepsIInv DEF Step
  <1>3. ASSUME NEW j \in Jobs, Crash(j) PROVE IInv'
    BY <1>3, CrashKeepsIInv
  <1>4. CASE UNCHANGED clientVars
    <2>1. Uncounted' = Uncounted /\ \A j \in Jobs : Guarding(j)' => Guarding(j)
      BY <1>4 DEF clientVars, Uncounted, Guarding
    <2>2. TypeOK'
      BY Constants, <1>4 DEF clientVars, IInv, TypeOK
    <2>3. NeverTooHigh' /\ Exact'
      BY <1>4, <2>1, CountStays DEF clientVars, IInv
    <2>4. \A j \in Jobs : PacedAt(j)'
      BY <1>4, PacedNext DEF clientVars, IInv, Paced, PacedAt
    <2>5. QED
      BY <2>2, <2>3, <2>4 DEF IInv, Paced
  <1>5. QED
    BY <1>1, <1>2, <1>3, <1>4 DEF Next

\* Whatever the jobs do and whenever they end, the invariant holds.
THEOREM ClientInvariant == Spec => []IInv
  <1>1. Init => IInv
    BY InitIInv
  <1>2. IInv /\ [Next]_clientVars => IInv'
    BY NextKeepsIInv
  <1>3. QED
    BY <1>1, <1>2, PTL DEF Spec

THEOREM ClientTypeCorrect == Spec => []TypeOK
  <1>1. IInv => TypeOK
    BY DEF IInv
  <1>2. QED
    BY <1>1, ClientInvariant, PTL

\* chain.py BudgetGuard: of any number of jobs that count in one file without a
\* lock, none makes the count of the day higher than what was asked for, and if
\* they counted one after the other it is exact.
THEOREM CountNeverTooHigh == Spec => []CountIsTrue
  <1>1. IInv => CountIsTrue
    <2>1. SUFFICES ASSUME IInv, count # Torn
                   PROVE  count <= spent /\ (calm /\ crashes = 0 => count + Cardinality(Uncounted) = spent)
      BY DEF CountIsTrue
    <2>2. count \in Nat /\ spent \in Nat /\ count + Cardinality(Uncounted) <= spent
      BY <2>1 DEF IInv, TypeOK, NeverTooHigh
    <2>3. count <= spent
      BY <2>2, UncountedIsFinite
    <2>4. QED
      BY <2>1, <2>3 DEF IInv, Exact
  <1>2. QED
    BY <1>1, ClientInvariant, PTL

\* chain.py RateLimiter: one client never has more answers within a minute than
\* the pacer allows, whatever the minute, the limit and the times are.
THEOREM AnyClientIsPaced == Spec => []PacedWithinAMinute
  <1>1. IInv => PacedWithinAMinute
    BY DEF IInv, Paced, PacedAt, PacedWithinAMinute
  <1>2. QED
    BY <1>1, ClientInvariant, PTL
================================================================================
