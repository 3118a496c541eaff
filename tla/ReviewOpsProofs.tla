---------------------------- MODULE ReviewOpsProofs ----------------------------
(***************************************************************************)
(* What is true of a review for any documents and any number of edits.     *)
(*                                                                         *)
(* First what the sequence operators return, then the lines of a feature   *)
(* file, the keywords, and what of a document survives one edit; then each *)
(* edit, the inductive invariant IInv and the theorems; last what          *)
(* rewording leaves of the file.                                           *)
(***************************************************************************)
EXTENDS ReviewOps, FunctionTheorems, SequenceTheorems, FiniteSetTheorems, WellFoundedInduction, TLAPS

\* A set of numbers has a least one: what induction rests on here, since the
\* library's theorems of it take an operator.
LEMMA LeastOf ==
  ASSUME NEW T \in SUBSET Nat, T # {}
  PROVE  \E n \in T : \A m \in T : n <= m
  <1>1. PICK n \in T : \A m \in T : ~(<<m, n>> \in OpToRel(<, Nat))
    BY WFMin, NatLessThanWellFounded, Zenon
  <1>2. \A m \in T : n <= m
    <2>1. SUFFICES ASSUME NEW m \in T, m < n PROVE FALSE
      OBVIOUS
    <2>2. <<m, n>> \in OpToRel(<, Nat)
      BY <2>1 DEF OpToRel
    <2>3. QED
      BY <1>1, <2>2
  <1>3. QED
    BY <1>2

\* Induction up to a number, as the absence of a least exception.
LEMMA StepByStep ==
  ASSUME NEW N \in Nat, NEW T, 0 \in T, \A n \in 0..(N - 1) : n \in T => n + 1 \in T
  PROVE  \A n \in 0..N : n \in T
  <1> DEFINE U == {n \in 0..N : n \notin T}
  <1>1. SUFFICES ASSUME U # {} PROVE FALSE
    OBVIOUS
  <1>0. U \in SUBSET Nat
    OBVIOUS
  <1>2. PICK n \in U : \A m \in U : n <= m
    <2> HIDE DEF U
    <2> QED
      BY <1>0, <1>1, LeastOf
  <1>3. n # 0 /\ n - 1 \in 0..(N - 1)
    OBVIOUS
  <1>4. n - 1 \in T
    BY <1>2, <1>3
  <1>5. QED
    BY <1>3, <1>4

\* A sequence over a set is one over its own elements.
LEMMA InSeq ==
  ASSUME NEW S, NEW s \in Seq(S)
  PROVE  /\ IsSeq(s) /\ Len(s) \in Nat /\ DOMAIN s = 1..Len(s) /\ ToSet(s) \subseteq S
         /\ \A i \in 1..Len(s) : s[i] \in ToSet(s)
  <1>1. Len(s) \in Nat /\ DOMAIN s = 1..Len(s) /\ s \in [1..Len(s) -> S]
    BY LenProperties
  <1>2. s \in [1..Len(s) -> ToSet(s)]
    BY <1>1 DEF ToSet
  <1>3. s \in Seq(ToSet(s))
    BY <1>1, <1>2, SeqDef
  <1>4. QED
    BY <1>1, <1>2, <1>3 DEF IsSeq, ToSet

\* Length, domain and elements of a sequence.
LEMMA IsSeqMeans ==
  ASSUME NEW s, IsSeq(s)
  PROVE  /\ Len(s) \in Nat /\ DOMAIN s = 1..Len(s)
         /\ ToSet(s) = {s[i] : i \in 1..Len(s)}
         /\ (Len(s) = 0 <=> s = <<>>)
  BY InSeq, LenProperties, EmptySeq DEF IsSeq, ToSet

\* A function on 1..n is a sequence.
LEMMA Made ==
  ASSUME NEW n \in Nat, NEW s, DOMAIN s = 1..n, s = [i \in 1..n |-> s[i]]
  PROVE  IsSeq(s) /\ Len(s) = n
  <1>1. s \in [1..n -> ToSet(s)]
    BY DEF ToSet
  <1>2. s \in Seq(ToSet(s))
    BY <1>1, SeqDef
  <1>3. QED
    BY <1>2, LenProperties DEF IsSeq

\* What \o gives, place by place.
LEMMA CatOf ==
  ASSUME NEW s, NEW t, IsSeq(s), IsSeq(t)
  PROVE  /\ IsSeq(s \o t) /\ Len(s \o t) = Len(s) + Len(t)
         /\ \A i \in 1..Len(s) : (s \o t)[i] = s[i]
         /\ \A i \in 1..Len(t) : (s \o t)[Len(s) + i] = t[i]
         /\ \A q \in 1..(Len(s) + Len(t)) : q \in 1..Len(s) \/ q - Len(s) \in 1..Len(t)
  <1> DEFINE S == ToSet(s) \cup ToSet(t)
  <1>1. s \in Seq(S) /\ t \in Seq(S)
    BY SeqMonotonic DEF IsSeq
  <1>2. /\ s \o t \in Seq(S) /\ Len(s \o t) = Len(s) + Len(t)
        /\ \A i \in 1..Len(s) + Len(t) : (s \o t)[i] = IF i <= Len(s) THEN s[i] ELSE t[i - Len(s)]
    BY <1>1, ConcatProperties
  <1>3. Len(s) \in Nat /\ Len(t) \in Nat
    BY IsSeqMeans
  <1>4. IsSeq(s \o t)
    BY <1>2, InSeq
  <1>5. QED
    BY <1>2, <1>3, <1>4

---------------------------------------------------------------------------
Flat(ss) ==
    CHOOSE flat : flat = [i \in 1..Len(ss) |-> IF i = 1 THEN ss[i] ELSE flat[i - 1] \o ss[i]]

\* What the first k of them come to, and where the k-th one starts.
Upto(ss, k) == IF k = 0 THEN <<>> ELSE Flat(ss)[k]
Start(ss, k) == Len(Upto(ss, k - 1))

SeqOfSeqs(ss) == IsSeq(ss) /\ \A k \in 1..Len(ss) : IsSeq(ss[k])

\* The recursive function FlattenSeq is defined by exists.
LEMMA FlatIsDefined ==
  ASSUME NEW ss, NEW N \in Nat
  PROVE  \E flat : flat = [i \in 1..N |-> IF i = 1 THEN ss[i] ELSE flat[i - 1] \o ss[i]]
  <1> DEFINE Good(flat, n) == flat = [i \in 1..n |-> IF i = 1 THEN ss[i] ELSE flat[i - 1] \o ss[i]]
             T == {n \in Nat : \E flat : Good(flat, n)}
  <1>1. 0 \in T
    <2> DEFINE g == [i \in 1..0 |-> <<>>]
    <2>1. Good(g, 0)
      OBVIOUS
    <2>2. QED
      BY <2>1
  <1>2. ASSUME NEW n \in 0..(N - 1), n \in T PROVE n + 1 \in T
    <2>1. PICK f : Good(f, n)
      BY <1>2
    <2> DEFINE g == [i \in 1..(n + 1) |->
                        IF i <= n THEN f[i]
                        ELSE IF i = 1 THEN ss[i] ELSE f[i - 1] \o ss[i]]
    <2> HIDE DEF T
    <2>2. \A i \in 1..n : f[i] = IF i = 1 THEN ss[i] ELSE f[i - 1] \o ss[i]
      BY <2>1
    <2>3. /\ g = [i \in 1..(n + 1) |-> g[i]]
          /\ \A i \in 1..(n + 1) :
                g[i] = IF i <= n THEN f[i] ELSE IF i = 1 THEN ss[i] ELSE f[i - 1] \o ss[i]
      OBVIOUS
    <2> HIDE DEF g, Good
    <2>4. n \in Nat
      OBVIOUS
    <2>5. ASSUME NEW i \in 1..(n + 1)
          PROVE  g[i] = IF i = 1 THEN ss[i] ELSE g[i - 1] \o ss[i]
      <3>1. CASE i = 1
        <4>1. g[i] = IF i <= n THEN f[i] ELSE ss[i]
          BY <2>3, <3>1
        <4>2. i <= n => f[i] = ss[i]
          BY <2>2, <3>1
        <4>3. QED
          BY <3>1, <4>1, <4>2
      <3>2. CASE i # 1
        <4>1. i - 1 \in 1..n /\ i - 1 \in 1..(n + 1) /\ i - 1 <= n
          BY <2>4, <3>2
        <4>2. g[i - 1] = f[i - 1]
          BY <2>3, <4>1
        <4>3. CASE i <= n
          <5>1. g[i] = f[i]
            BY <2>3, <4>3
          <5>2. f[i] = f[i - 1] \o ss[i]
            <6>1. i \in 1..n
              BY <2>4, <4>3
            <6>2. QED
              BY <2>2, <3>2, <6>1, Zenon
          <5>3. QED
            BY <3>2, <4>2, <5>1, <5>2
        <4>4. CASE ~(i <= n)
          <5>1. g[i] = f[i - 1] \o ss[i]
            BY <2>3, <3>2, <4>4
          <5>2. QED
            BY <3>2, <4>2, <5>1
        <4>5. QED
          BY <4>3, <4>4
      <3>3. QED
        BY <3>1, <3>2
    <2>6. Good(g, n + 1)
      BY <2>3, <2>5 DEF Good
    <2>7. QED
      BY <2>4, <2>6 DEF T
  <1>3. \A n \in 0..N : n \in T
    <2> HIDE DEF T
    <2> QED BY <1>1, <1>2, StepByStep
  <1>4. N \in T
    <2> HIDE DEF T
    <2> QED BY <1>3
  <1>5. QED
    BY <1>4

\* A flattened sequence is put together one part at a time.
LEMMA FlatUnfolds ==
  ASSUME NEW ss, SeqOfSeqs(ss)
  PROVE  /\ FlattenSeq(ss) = Upto(ss, Len(ss))
         /\ Upto(ss, 0) = <<>>
         /\ \A k \in 1..Len(ss) : Upto(ss, k) = Upto(ss, k - 1) \o ss[k]
         /\ \A k \in 0..Len(ss) : IsSeq(Upto(ss, k))
  <1>1. Len(ss) \in Nat /\ (Len(ss) = 0 => ss = <<>>)
    BY IsSeqMeans DEF SeqOfSeqs
  <1>2. Flat(ss) = [i \in 1..Len(ss) |-> IF i = 1 THEN ss[i] ELSE Flat(ss)[i - 1] \o ss[i]]
    <2> DEFINE F(flat) == flat = [i \in 1..Len(ss) |-> IF i = 1 THEN ss[i] ELSE flat[i - 1] \o ss[i]]
    <2>1. \E flat : F(flat)
      BY <1>1, FlatIsDefined
    <2>2. Flat(ss) = CHOOSE flat : F(flat)
      BY DEF Flat
    <2> HIDE DEF F
    <2>3. F(Flat(ss))
      BY <2>1, <2>2
    <2>4. QED
      BY <2>3 DEF F
  <1>3. FlattenSeq(ss) = Upto(ss, Len(ss))
    BY <1>1 DEF FlattenSeq, Upto, Flat
  <1>4. Upto(ss, 0) = <<>>
    BY DEF Upto
  <1>5. IsSeq(<<>>)
    BY DEF IsSeq
  <1>6. ASSUME NEW k \in 1..Len(ss) PROVE Upto(ss, k) = Upto(ss, k - 1) \o ss[k]
    <2>1. CASE k = 1
      <3>1. Upto(ss, k) = ss[1] /\ Upto(ss, k - 1) = <<>>
        BY <1>2, <2>1 DEF Upto
      <3>2. <<>> \o ss[1] = ss[1]
        BY <2>1, ConcatEmptySeq DEF SeqOfSeqs, IsSeq
      <3>3. QED
        BY <2>1, <3>1, <3>2
    <2>2. CASE k # 1
      <3>1. Flat(ss)[k] = Flat(ss)[k - 1] \o ss[k]
        BY <1>2, <2>2
      <3>2. k # 0 /\ k - 1 # 0
        BY <2>2
      <3>3. Upto(ss, k) = Flat(ss)[k] /\ Upto(ss, k - 1) = Flat(ss)[k - 1]
        BY <3>2 DEF Upto
      <3>4. QED
        BY <3>1, <3>3
    <2>3. QED
      BY <2>1, <2>2
  <1>7. \A k \in 0..Len(ss) : IsSeq(Upto(ss, k))
    <2> DEFINE T == {k \in Nat : IsSeq(Upto(ss, k))}
    <2>1. 0 \in T
      BY <1>4, <1>5
    <2>2. ASSUME NEW n \in 0..(Len(ss) - 1), n \in T PROVE n + 1 \in T
      <3>1. n + 1 \in 1..Len(ss) /\ (n + 1) - 1 = n
        BY <1>1
      <3>2. Upto(ss, n + 1) = Upto(ss, n) \o ss[n + 1]
        BY <1>6, <3>1
      <3>3. IsSeq(Upto(ss, n)) /\ IsSeq(ss[n + 1])
        BY <2>2, <3>1 DEF SeqOfSeqs
      <3>4. IsSeq(Upto(ss, n) \o ss[n + 1])
        BY <3>3, CatOf
      <3> HIDE DEF T
      <3>5. IsSeq(Upto(ss, n + 1))
        BY <3>2, <3>4, Zenon
      <3>6. n + 1 \in Nat
        BY <1>1
      <3>7. QED
        BY <3>5, <3>6 DEF T
    <2>3. \A k \in 0..Len(ss) : k \in T
      <3> HIDE DEF T
      <3> QED BY <1>1, <2>1, <2>2, StepByStep
    <2>4. QED
      BY <2>3
  <1>8. QED
    BY <1>3, <1>4, <1>6, <1>7

\* Where the parts begin, and how long the whole is.
LEMMA StartsOf ==
  ASSUME NEW ss, SeqOfSeqs(ss)
  PROVE  /\ Len(ss) \in Nat /\ Start(ss, 1) = 0
         /\ IsSeq(FlattenSeq(ss)) /\ Len(FlattenSeq(ss)) = Start(ss, Len(ss) + 1)
         /\ \A k \in 1..(Len(ss) + 1) : Start(ss, k) \in Nat
         /\ \A k \in 1..Len(ss) : Len(ss[k]) \in Nat /\ Start(ss, k + 1) = Start(ss, k) + Len(ss[k])
  <1>1. Len(ss) \in Nat /\ Len(<<>>) = 0
    BY IsSeqMeans DEF SeqOfSeqs
  <1>2. Start(ss, 1) = 0
    <2>1. Upto(ss, 1 - 1) = <<>>
      BY DEF Upto
    <2>2. QED
      BY <1>1, <2>1 DEF Start
  <1>3. IsSeq(FlattenSeq(ss)) /\ Len(FlattenSeq(ss)) = Start(ss, Len(ss) + 1)
    <2>1. (Len(ss) + 1) - 1 = Len(ss) /\ Len(ss) \in 0..Len(ss)
      BY <1>1
    <2>2. QED
      BY <2>1, FlatUnfolds DEF Start
  <1>4. ASSUME NEW k \in 1..(Len(ss) + 1) PROVE Start(ss, k) \in Nat
    <2>1. k - 1 \in 0..Len(ss)
      BY <1>1
    <2>2. QED
      BY <2>1, FlatUnfolds, IsSeqMeans DEF Start
  <1>5. ASSUME NEW k \in 1..Len(ss)
        PROVE  Len(ss[k]) \in Nat /\ Start(ss, k + 1) = Start(ss, k) + Len(ss[k])
    <2>1. k - 1 \in 0..Len(ss) /\ (k + 1) - 1 = k
      BY <1>1
    <2>2. IsSeq(Upto(ss, k - 1)) /\ IsSeq(ss[k]) /\ Upto(ss, k) = Upto(ss, k - 1) \o ss[k]
      BY <2>1, FlatUnfolds DEF SeqOfSeqs
    <2>3. Len(Upto(ss, k)) = Len(Upto(ss, k - 1)) + Len(ss[k])
      BY <2>2, CatOf
    <2>4. QED
      BY <2>1, <2>2, <2>3, IsSeqMeans DEF Start
  <1>6. QED
    BY <1>1, <1>2, <1>3, <1>4, <1>5

\* The first k come first in all of them.
LEMMA UptoIsPrefix ==
  ASSUME NEW ss, SeqOfSeqs(ss), NEW k \in 0..Len(ss)
  PROVE  \A m \in 0..Len(ss) : k <= m =>
            /\ Len(Upto(ss, k)) <= Len(Upto(ss, m))
            /\ \A q \in 1..Len(Upto(ss, k)) : Upto(ss, m)[q] = Upto(ss, k)[q]
  <1> DEFINE Ok(m) == /\ Len(Upto(ss, k)) <= Len(Upto(ss, m))
                      /\ \A q \in 1..Len(Upto(ss, k)) : Upto(ss, m)[q] = Upto(ss, k)[q]
             T == {m \in Nat : k <= m => Ok(m)}
  <1>1. Len(ss) \in Nat /\ k \in Nat
    BY StartsOf
  <1>2. \A m \in 0..Len(ss) : Len(Upto(ss, m)) \in Nat
    BY FlatUnfolds, IsSeqMeans
  <1>3. Ok(k)
    BY <1>2
  <1>4. 0 \in T
    BY <1>1, <1>3
  <1>5. ASSUME NEW m \in 0..(Len(ss) - 1), m \in T PROVE m + 1 \in T
    <2>1. m \in Nat /\ m \in 0..Len(ss) /\ m + 1 \in 1..Len(ss) /\ (m + 1) - 1 = m
      BY <1>1
    <2>2. CASE k <= m
      <3>1. Ok(m)
        BY <1>5, <2>2
      <3>2. /\ IsSeq(Upto(ss, m)) /\ IsSeq(ss[m + 1])
            /\ Upto(ss, m + 1) = Upto(ss, m) \o ss[m + 1]
        BY <2>1, FlatUnfolds DEF SeqOfSeqs
      <3>3. /\ Len(Upto(ss, m) \o ss[m + 1]) = Len(Upto(ss, m)) + Len(ss[m + 1])
            /\ \A q \in 1..Len(Upto(ss, m)) : (Upto(ss, m) \o ss[m + 1])[q] = Upto(ss, m)[q]
            /\ Len(ss[m + 1]) \in Nat
        BY <3>2, CatOf, IsSeqMeans
      <3>4. /\ Len(Upto(ss, m + 1)) = Len(Upto(ss, m)) + Len(ss[m + 1])
            /\ \A q \in 1..Len(Upto(ss, m)) : Upto(ss, m + 1)[q] = Upto(ss, m)[q]
        BY <3>2, <3>3, Zenon
      <3> HIDE DEF T
      <3>5. Ok(m + 1)
        BY <1>2, <2>1, <3>1, <3>3, <3>4
      <3>6. QED
        BY <2>1, <3>5 DEF T
    <2>3. CASE ~(k <= m)
      <3>1. k = m + 1 \/ ~(k <= m + 1)
        BY <1>1, <2>1, <2>3
      <3> HIDE DEF Ok
      <3>2. QED
        BY <1>3, <2>1, <3>1
    <2>4. QED
      BY <2>2, <2>3
  <1>6. \A m \in 0..Len(ss) : m \in T
    <2> HIDE DEF T
    <2> QED BY <1>1, <1>4, <1>5, StepByStep
  <1>7. QED
    BY <1>6

\* The j-th of the k-th is where it starts, and j further.
LEMMA FlatPlaces ==
  ASSUME NEW ss, SeqOfSeqs(ss), NEW k \in 1..Len(ss), NEW j \in 1..Len(ss[k])
  PROVE  /\ Start(ss, k) + j \in 1..Len(FlattenSeq(ss))
         /\ FlattenSeq(ss)[Start(ss, k) + j] = ss[k][j]
  <1>1. /\ Len(ss) \in Nat /\ k \in Nat /\ k - 1 \in 0..Len(ss) /\ k \in 0..Len(ss)
        /\ Len(ss) \in 0..Len(ss) /\ k <= Len(ss)
    BY StartsOf
  <1>2. /\ IsSeq(Upto(ss, k - 1)) /\ IsSeq(ss[k])
        /\ Upto(ss, k) = Upto(ss, k - 1) \o ss[k]
        /\ FlattenSeq(ss) = Upto(ss, Len(ss))
    BY <1>1, FlatUnfolds DEF SeqOfSeqs
  <1>3. /\ Len(Upto(ss, k - 1) \o ss[k]) = Start(ss, k) + Len(ss[k])
        /\ (Upto(ss, k - 1) \o ss[k])[Start(ss, k) + j] = ss[k][j]
        /\ Start(ss, k) \in Nat /\ Len(ss[k]) \in Nat
    BY <1>2, CatOf, IsSeqMeans DEF Start
  <1>4. Len(Upto(ss, k)) = Start(ss, k) + Len(ss[k]) /\ Upto(ss, k)[Start(ss, k) + j] = ss[k][j]
    BY <1>2, <1>3, Zenon
  <1>5. Start(ss, k) + j \in 1..Len(Upto(ss, k))
    BY <1>3, <1>4
  <1>6. /\ Len(Upto(ss, k)) <= Len(FlattenSeq(ss))
        /\ \A q \in 1..Len(Upto(ss, k)) : FlattenSeq(ss)[q] = Upto(ss, k)[q]
    BY <1>1, <1>2, UptoIsPrefix
  <1>7. Len(FlattenSeq(ss)) \in Nat /\ Len(Upto(ss, k)) \in Nat
    BY <1>1, <1>2, FlatUnfolds, IsSeqMeans
  <1>8. QED
    BY <1>4, <1>5, <1>6, <1>7

\* Every place in all of them is a place in one of them.
LEMMA FlatFrom ==
  ASSUME NEW ss, SeqOfSeqs(ss), NEW q \in 1..Len(FlattenSeq(ss))
  PROVE  \E k \in 1..Len(ss) : \E j \in 1..Len(ss[k]) : q = Start(ss, k) + j
  <1> DEFINE T == {k \in 1..(Len(ss) + 1) : q <= Start(ss, k)}
             N == Len(ss) + 1
  <1>1. /\ Len(ss) \in Nat /\ Start(ss, 1) = 0 /\ Len(FlattenSeq(ss)) = Start(ss, N)
        /\ \A k \in 1..N : Start(ss, k) \in Nat
        /\ \A k \in 1..Len(ss) : Len(ss[k]) \in Nat /\ Start(ss, k + 1) = Start(ss, k) + Len(ss[k])
    BY StartsOf
  <1>2. N \in 1..N /\ q \in Nat /\ q <= Start(ss, N) /\ 1 <= q
    BY <1>1
  <1>3. T \in SUBSET Nat /\ T # {}
    BY <1>1, <1>2
  <1> HIDE DEF T
  <1>4. PICK k \in T : \A m \in T : k <= m
    BY <1>3, LeastOf
  <1>5. k \in 1..N /\ q <= Start(ss, k)
    BY <1>4 DEF T
  <1>6. k # 1
    BY <1>1, <1>2, <1>5
  <1>7. k - 1 \in 1..Len(ss) /\ k - 1 \in 1..N /\ (k - 1) + 1 = k
    BY <1>1, <1>5, <1>6
  <1>8. ~(q <= Start(ss, k - 1))
    <2>1. k - 1 \notin T
      BY <1>4, <1>5, <1>7
    <2>2. QED
      BY <2>1, <1>7 DEF T
  <1>9. /\ Start(ss, k) = Start(ss, k - 1) + Len(ss[k - 1])
        /\ Start(ss, k - 1) \in Nat /\ Len(ss[k - 1]) \in Nat
    BY <1>1, <1>7
  <1>10. q - Start(ss, k - 1) \in 1..Len(ss[k - 1])
    BY <1>2, <1>5, <1>8, <1>9
  <1>11. q = Start(ss, k - 1) + (q - Start(ss, k - 1))
    BY <1>2, <1>9
  <1>12. QED
    BY <1>7, <1>10, <1>11

\* A part ends where a later one begins, or before.
LEMMA StartsGrow ==
  ASSUME NEW ss, SeqOfSeqs(ss), NEW k \in 1..Len(ss)
  PROVE  \A m \in 1..(Len(ss) + 1) : k < m => Start(ss, k) + Len(ss[k]) <= Start(ss, m)
  <1>1. Len(ss) \in Nat /\ k \in 0..Len(ss) /\ (k + 1) - 1 = k
    BY StartsOf
  <1>2. Start(ss, k + 1) = Start(ss, k) + Len(ss[k])
    BY StartsOf
  <1>3. SUFFICES ASSUME NEW m \in 1..(Len(ss) + 1), k < m PROVE Start(ss, k + 1) <= Start(ss, m)
    BY <1>2
  <1>4. m - 1 \in 0..Len(ss) /\ k <= m - 1
    BY <1>1, <1>3
  <1>5. Len(Upto(ss, k)) <= Len(Upto(ss, m - 1))
    BY <1>1, <1>4, UptoIsPrefix
  <1>6. QED
    BY <1>1, <1>5 DEF Start

\* No place is of two of them.
LEMMA FlatOnce ==
  ASSUME NEW ss, SeqOfSeqs(ss), NEW k \in 1..Len(ss), NEW j \in 1..Len(ss[k]),
         NEW m \in 1..Len(ss), NEW i \in 1..Len(ss[m]), Start(ss, k) + j = Start(ss, m) + i
  PROVE  k = m /\ j = i
  <1>1. /\ Len(ss) \in Nat /\ \A n \in 1..(Len(ss) + 1) : Start(ss, n) \in Nat
        /\ Len(ss[k]) \in Nat /\ Len(ss[m]) \in Nat
    BY StartsOf
  <1>2. k < m => Start(ss, k) + Len(ss[k]) <= Start(ss, m)
    BY <1>1, StartsGrow
  <1>3. m < k => Start(ss, m) + Len(ss[m]) <= Start(ss, k)
    BY <1>1, StartsGrow
  <1>4. Start(ss, k) \in Nat /\ Start(ss, m) \in Nat
    BY <1>1
  <1>5. ~(k < m) /\ ~(m < k)
    BY <1>1, <1>2, <1>3, <1>4
  <1>6. k = m
    BY <1>1, <1>5
  <1>7. QED
    BY <1>1, <1>4, <1>6

\* A flattened sequence has the elements of its parts.
LEMMA FlatRange ==
  ASSUME NEW ss, SeqOfSeqs(ss)
  PROVE  \A x : x \in ToSet(FlattenSeq(ss)) <=> \E k \in 1..Len(ss) : x \in ToSet(ss[k])
  <1>1. ToSet(FlattenSeq(ss)) = {FlattenSeq(ss)[q] : q \in 1..Len(FlattenSeq(ss))}
    BY StartsOf, IsSeqMeans
  <1>2. \A k \in 1..Len(ss) : \A y : y \in ToSet(ss[k]) <=> \E j \in 1..Len(ss[k]) : y = ss[k][j]
    <2>1. TAKE k \in 1..Len(ss)
    <2>2. ToSet(ss[k]) = {ss[k][j] : j \in 1..Len(ss[k])}
      BY IsSeqMeans DEF SeqOfSeqs
    <2>3. QED
      BY <2>2
  <1>3. ASSUME NEW q \in 1..Len(FlattenSeq(ss))
        PROVE  \E k \in 1..Len(ss) : \E j \in 1..Len(ss[k]) : FlattenSeq(ss)[q] = ss[k][j]
    <2>1. \E k \in 1..Len(ss) : \E j \in 1..Len(ss[k]) : q = Start(ss, k) + j
      BY FlatFrom
    <2>2. PICK k \in 1..Len(ss) : \E j \in 1..Len(ss[k]) : q = Start(ss, k) + j
      BY <2>1
    <2>3. PICK j \in 1..Len(ss[k]) : q = Start(ss, k) + j
      BY <2>2
    <2>4. FlattenSeq(ss)[q] = ss[k][j]
      BY <2>3, FlatPlaces
    <2>5. QED
      BY <2>4
  <1>4. ASSUME NEW k \in 1..Len(ss), NEW j \in 1..Len(ss[k])
        PROVE  \E q \in 1..Len(FlattenSeq(ss)) : FlattenSeq(ss)[q] = ss[k][j]
    BY FlatPlaces
  <1>5. TAKE x
  <1>6. ASSUME x \in ToSet(FlattenSeq(ss)) PROVE \E k \in 1..Len(ss) : x \in ToSet(ss[k])
    <2>1. PICK q \in 1..Len(FlattenSeq(ss)) : x = FlattenSeq(ss)[q]
      BY <1>1, <1>6
    <2>2. PICK k \in 1..Len(ss) : \E j \in 1..Len(ss[k]) : FlattenSeq(ss)[q] = ss[k][j]
      BY <1>3
    <2>3. x \in ToSet(ss[k])
      BY <1>2, <2>1, <2>2
    <2>4. QED
      BY <2>3
  <1>7. ASSUME NEW k \in 1..Len(ss), x \in ToSet(ss[k]) PROVE x \in ToSet(FlattenSeq(ss))
    <2>1. PICK j \in 1..Len(ss[k]) : x = ss[k][j]
      BY <1>2, <1>7
    <2>2. PICK q \in 1..Len(FlattenSeq(ss)) : FlattenSeq(ss)[q] = ss[k][j]
      BY <1>4
    <2>3. QED
      BY <1>1, <2>1, <2>2
  <1>8. QED
    BY <1>6, <1>7

\* What SubSeq gives, place by place.
LEMMA PartOf ==
  ASSUME NEW s, IsSeq(s), NEW m \in 1..(Len(s) + 1), NEW n \in 0..Len(s), m <= n + 1
  PROVE  /\ IsSeq(SubSeq(s, m, n)) /\ Len(SubSeq(s, m, n)) = (n - m) + 1
         /\ \A i \in 1..((n - m) + 1) : SubSeq(s, m, n)[i] = s[(m + i) - 1]
  <1>1. Len(s) \in Nat
    BY IsSeqMeans
  <1>2. m \in Int /\ n \in Int
    BY <1>1
  <1>3. \A i \in m..n : s[i] \in ToSet(s)
    <2>1. \A i \in 1..Len(s) : s[i] \in ToSet(s)
      BY IsSeqMeans
    <2>2. QED
      BY <1>1, <2>1
  <1>4. /\ SubSeq(s, m, n) \in Seq(ToSet(s))
        /\ Len(SubSeq(s, m, n)) = IF m <= n THEN (n - m) + 1 ELSE 0
        /\ \A i \in 1..((n - m) + 1) : SubSeq(s, m, n)[i] = s[(m + i) - 1]
    BY <1>2, <1>3, SubSeqProperties
  <1>5. IsSeq(SubSeq(s, m, n))
    BY <1>4, InSeq
  <1>6. QED
    BY <1>2, <1>4, <1>5

\* A sequence of one element.
LEMMA One ==
  ASSUME NEW e
  PROVE  IsSeq(<<e>>) /\ Len(<<e>>) = 1 /\ <<e>>[1] = e
  <1>1. <<e>> \in Seq({e})
    OBVIOUS
  <1>2. QED
    BY <1>1, InSeq

\* The empty sequence.
LEMMA None ==
  IsSeq(<<>>) /\ Len(<<>>) = 0
  BY DEF IsSeq

\* What e and those from the i-th on come to, put one behind the other.
LEMMA InsertedAt ==
  ASSUME NEW s, IsSeq(s), NEW i \in 1..(Len(s) + 1), NEW e
  PROVE  /\ IsSeq(InsertAt(s, i, e)) /\ Len(InsertAt(s, i, e)) = Len(s) + 1
         /\ \A j \in 1..(Len(s) + 1) :
               InsertAt(s, i, e)[j] = IF j < i THEN s[j] ELSE IF j = i THEN e ELSE s[j - 1]
  <1> DEFINE a == SubSeq(s, 1, i - 1)
             b == SubSeq(s, i, Len(s))
             ae == a \o <<e>>
             r == InsertAt(s, i, e)
  <1>1. Len(s) \in Nat
    BY IsSeqMeans
  <1>2. IsSeq(a) /\ Len(a) = i - 1 /\ \A j \in 1..(i - 1) : a[j] = s[j]
    <2>1. 1 \in 1..(Len(s) + 1) /\ i - 1 \in 0..Len(s) /\ 1 <= (i - 1) + 1
      BY <1>1
    <2>2. /\ IsSeq(a) /\ Len(a) = ((i - 1) - 1) + 1
          /\ \A j \in 1..(((i - 1) - 1) + 1) : a[j] = s[(1 + j) - 1]
      BY <2>1, PartOf
    <2> HIDE DEF a
    <2>3. QED
      BY <1>1, <2>2
  <1>3. /\ IsSeq(b) /\ Len(b) = (Len(s) - i) + 1
        /\ \A j \in 1..((Len(s) - i) + 1) : b[j] = s[(i + j) - 1]
    <2>1. i \in 1..(Len(s) + 1) /\ Len(s) \in 0..Len(s) /\ i <= Len(s) + 1
      BY <1>1
    <2>2. QED
      BY <2>1, PartOf
  <1>4. r = ae \o b
    BY DEF InsertAt
  <1> HIDE DEF a, b, r
  <1>5. /\ IsSeq(ae) /\ Len(ae) = i /\ ae[i] = e
        /\ \A j \in 1..(i - 1) : ae[j] = s[j]
    <2>1. /\ IsSeq(ae) /\ Len(ae) = Len(a) + 1 /\ ae[Len(a) + 1] = e
          /\ \A j \in 1..Len(a) : ae[j] = a[j]
      <3>1. IsSeq(<<e>>) /\ Len(<<e>>) = 1 /\ <<e>>[1] = e
        BY One
      <3>2. /\ IsSeq(ae) /\ Len(ae) = Len(a) + Len(<<e>>)
            /\ \A j \in 1..Len(a) : ae[j] = a[j]
            /\ \A j \in 1..Len(<<e>>) : ae[Len(a) + j] = <<e>>[j]
        <4>1. IsSeq(a) /\ IsSeq(<<e>>)
          BY <1>2, <3>1
        <4>2. QED
          BY <4>1, CatOf
      <3> HIDE DEF ae
      <3>3. QED
        BY <3>1, <3>2
    <2> HIDE DEF ae
    <2>2. Len(a) + 1 = i
      BY <1>1, <1>2
    <2>3. QED
      BY <1>2, <2>1, <2>2
  <1> HIDE DEF ae
  <1>6. /\ IsSeq(r) /\ Len(r) = i + Len(b)
        /\ \A j \in 1..i : r[j] = ae[j]
        /\ \A j \in 1..Len(b) : r[i + j] = b[j]
    <2>1. /\ IsSeq(ae \o b) /\ Len(ae \o b) = Len(ae) + Len(b)
          /\ \A j \in 1..Len(ae) : (ae \o b)[j] = ae[j]
          /\ \A j \in 1..Len(b) : (ae \o b)[Len(ae) + j] = b[j]
      BY <1>3, <1>5, CatOf
    <2>2. Len(ae) = i
      BY <1>5
    <2>3. QED
      BY <1>4, <2>1, <2>2, Zenon
  <1>7. ASSUME NEW j \in 1..(Len(s) + 1)
        PROVE  r[j] = IF j < i THEN s[j] ELSE IF j = i THEN e ELSE s[j - 1]
    <2>1. CASE j < i
      <3>1. j \in 1..i /\ j \in 1..(i - 1)
        BY <1>1, <2>1
      <3>2. QED
        BY <1>5, <1>6, <2>1, <3>1
    <2>2. CASE j = i
      <3>1. j \in 1..i /\ ~(j < i)
        BY <1>1, <2>2
      <3>2. QED
        BY <1>5, <1>6, <2>2, <3>1
    <2>3. CASE j > i
      <3>1. j - i \in 1..((Len(s) - i) + 1) /\ i + (j - i) = j /\ (i + (j - i)) - 1 = j - 1
        BY <1>1, <2>3
      <3>2. r[j] = b[j - i]
        BY <1>3, <1>6, <3>1
      <3>3. b[j - i] = s[j - 1]
        BY <1>3, <3>1
      <3>4. ~(j < i) /\ j # i
        BY <1>1, <2>3
      <3>5. QED
        BY <3>2, <3>3, <3>4
    <2>4. QED
      BY <1>1, <2>1, <2>2, <2>3
  <1>8. Len(r) = Len(s) + 1
    BY <1>1, <1>3, <1>6
  <1>9. QED
    BY <1>6, <1>7, <1>8 DEF r

\* A sequence with one element replaced.
LEMMA ReplacedAt ==
  ASSUME NEW s, IsSeq(s), NEW i \in 1..Len(s), NEW e
  PROVE  /\ IsSeq([s EXCEPT ![i] = e]) /\ Len([s EXCEPT ![i] = e]) = Len(s)
         /\ [s EXCEPT ![i] = e][i] = e
         /\ \A j \in 1..Len(s) : j # i => [s EXCEPT ![i] = e][j] = s[j]
  <1> DEFINE S == ToSet(s) \cup {e}
             t == [s EXCEPT ![i] = e]
  <1>1. s \in Seq(S)
    BY SeqMonotonic DEF IsSeq
  <1>2. Len(s) \in Nat /\ s \in [1..Len(s) -> S]
    BY <1>1, LenProperties
  <1>3. e \in S
    OBVIOUS
  <1> HIDE DEF S
  <1>4. t \in [1..Len(s) -> S]
    BY <1>2, <1>3
  <1>5. t \in Seq(S)
    BY <1>2, <1>4, SeqDef
  <1>6. Len(t) = Len(s)
    <2>1. DOMAIN t = 1..Len(t) /\ Len(t) \in Nat
      BY <1>5, LenProperties
    <2>2. DOMAIN t = 1..Len(s)
      BY <1>4
    <2>3. 1..Len(t) = 1..Len(s) => Len(t) = Len(s)
      BY <1>2, <2>1
    <2>4. QED
      BY <2>1, <2>2, <2>3
  <1>7. QED
    BY <1>2, <1>5, <1>6, InSeq

\* The same of a sequence that has a name.
Changed(s, i, e) == [s EXCEPT ![i] = e]

LEMMA ChangedIs ==
  ASSUME NEW s, IsSeq(s), NEW i \in 1..Len(s), NEW e
  PROVE  /\ IsSeq(Changed(s, i, e)) /\ Len(Changed(s, i, e)) = Len(s) /\ Changed(s, i, e)[i] = e
         /\ \A j \in 1..Len(s) : j # i => Changed(s, i, e)[j] = s[j]
  BY ReplacedAt DEF Changed

\* Sequences with the same elements at the same places are the same.
LEMMA Alike ==
  ASSUME NEW s, NEW t, IsSeq(s), IsSeq(t), Len(s) = Len(t), \A i \in 1..Len(s) : s[i] = t[i]
  PROVE  s = t
  <1> DEFINE S == ToSet(s) \cup ToSet(t)
  <1>1. s \in Seq(S) /\ t \in Seq(S)
    BY SeqMonotonic DEF IsSeq
  <1> HIDE DEF S
  <1>2. QED
    BY <1>1, SeqEqual

\* Of sequences of the same lengths all starts are the same.
LEMMA FlatAlike ==
  ASSUME NEW ss, NEW tt, SeqOfSeqs(ss), SeqOfSeqs(tt), Len(ss) = Len(tt),
         \A k \in 1..Len(ss) : Len(ss[k]) = Len(tt[k])
  PROVE  /\ \A k \in 1..(Len(ss) + 1) : Start(ss, k) = Start(tt, k)
         /\ Len(FlattenSeq(ss)) = Len(FlattenSeq(tt))
  <1> DEFINE T == {n \in Nat : Start(ss, n + 1) = Start(tt, n + 1)}
  <1>1. Len(ss) \in Nat /\ Start(ss, 0 + 1) = 0 /\ Start(tt, 0 + 1) = 0
    BY StartsOf
  <1>2. 0 \in T
    BY <1>1
  <1>3. ASSUME NEW n \in 0..(Len(ss) - 1), n \in T PROVE n + 1 \in T
    <2>1. n + 1 \in 1..Len(ss) /\ n + 1 \in Nat
      BY <1>1
    <2>2. /\ Start(ss, (n + 1) + 1) = Start(ss, n + 1) + Len(ss[n + 1])
          /\ Start(tt, (n + 1) + 1) = Start(tt, n + 1) + Len(tt[n + 1])
      BY <2>1, StartsOf
    <2>3. Start(ss, (n + 1) + 1) = Start(tt, (n + 1) + 1)
      BY <1>3, <2>1, <2>2
    <2>4. QED
      BY <2>1, <2>3
  <1>4. \A n \in 0..Len(ss) : n \in T
    <2> HIDE DEF T
    <2> QED BY <1>1, <1>2, <1>3, StepByStep
  <1>5. ASSUME NEW k \in 1..(Len(ss) + 1) PROVE Start(ss, k) = Start(tt, k)
    <2>1. k - 1 \in 0..Len(ss) /\ (k - 1) + 1 = k
      BY <1>1
    <2>2. k - 1 \in T
      BY <1>4, <2>1
    <2>3. QED
      BY <2>1, <2>2
  <1>6. Len(ss) + 1 \in 1..(Len(ss) + 1)
    BY <1>1
  <1>7. Len(FlattenSeq(ss)) = Len(FlattenSeq(tt))
    BY <1>5, <1>6, StartsOf
  <1>8. QED
    BY <1>5, <1>7

\* What stands before the first of them stands before all of them.
LEMMA FlatBehind ==
  ASSUME NEW ss, NEW tt, NEW a, SeqOfSeqs(ss), SeqOfSeqs(tt), IsSeq(a), Len(ss) = Len(tt),
         Len(ss) # 0, tt[1] = a \o ss[1], \A k \in 2..Len(ss) : tt[k] = ss[k]
  PROVE  FlattenSeq(tt) = a \o FlattenSeq(ss)
  <1> DEFINE T == {n \in Nat : Upto(tt, n + 1) = a \o Upto(ss, n + 1)}
  <1>1. Len(ss) \in Nat /\ Len(ss) - 1 \in Nat /\ 1 \in 1..Len(ss) /\ 1 - 1 = 0
    BY StartsOf
  <1>2. Upto(ss, 1) = ss[1] /\ Upto(tt, 1) = tt[1]
    <2>1. Upto(ss, 1) = Upto(ss, 0) \o ss[1] /\ Upto(ss, 0) = <<>>
      BY <1>1, FlatUnfolds
    <2>2. Upto(tt, 1) = Upto(tt, 0) \o tt[1] /\ Upto(tt, 0) = <<>>
      BY <1>1, FlatUnfolds
    <2>3. <<>> \o ss[1] = ss[1] /\ <<>> \o tt[1] = tt[1]
      BY <1>1, ConcatEmptySeq DEF SeqOfSeqs, IsSeq
    <2>4. QED
      BY <2>1, <2>2, <2>3, Zenon
  <1>3. 0 \in T
    <2>1. Upto(tt, 1) = a \o Upto(ss, 1)
      BY <1>2, Zenon
    <2>2. 0 + 1 = 1
      OBVIOUS
    <2>3. Upto(tt, 0 + 1) = a \o Upto(ss, 0 + 1)
      BY <2>1, <2>2, Zenon
    <2>4. QED
      BY <2>3
  <1>4. ASSUME NEW n \in 0..((Len(ss) - 1) - 1), n \in T PROVE n + 1 \in T
    <2> DEFINE k == (n + 1) + 1
               u == Upto(ss, n + 1)
               x == ss[k]
    <2>1. k \in 1..Len(ss) /\ k \in 2..Len(ss) /\ k - 1 = n + 1 /\ n + 1 \in 0..Len(ss) /\ n + 1 \in Nat
      BY <1>1
    <2> HIDE DEF k
    <2>2. Upto(ss, k) = u \o x /\ Upto(tt, k) = Upto(tt, n + 1) \o tt[k]
      BY <2>1, FlatUnfolds
    <2>3. Upto(tt, n + 1) = a \o u /\ tt[k] = x
      BY <1>4, <2>1
    <2>4. IsSeq(u) /\ IsSeq(x)
      BY <2>1, FlatUnfolds DEF SeqOfSeqs
    <2> HIDE DEF u, x
    <2>5. (a \o u) \o x = a \o (u \o x)
      <3> DEFINE S == (ToSet(a) \cup ToSet(u)) \cup ToSet(x)
      <3>1. a \in Seq(S) /\ u \in Seq(S) /\ x \in Seq(S)
        BY <2>4, SeqMonotonic DEF IsSeq
      <3> HIDE DEF S
      <3>2. QED
        BY <3>1, ConcatAssociative, SMTT(20)
    <2>6. Upto(tt, k) = a \o Upto(ss, k)
      BY <2>2, <2>3, <2>5, Zenon
    <2>7. QED
      BY <2>1, <2>6 DEF k
  <1>5. \A n \in 0..(Len(ss) - 1) : n \in T
    <2> HIDE DEF T
    <2> QED BY <1>1, <1>3, <1>4, StepByStep
  <1>6. Len(ss) - 1 \in T /\ (Len(ss) - 1) + 1 = Len(ss)
    <2> HIDE DEF T
    <2>1. Len(ss) - 1 \in 0..(Len(ss) - 1) /\ (Len(ss) - 1) + 1 = Len(ss)
      BY <1>1
    <2>2. QED
      BY <1>5, <2>1
  <1>7. Upto(tt, Len(ss)) = a \o Upto(ss, Len(ss))
    BY <1>6
  <1>8. QED
    BY <1>7, FlatUnfolds, Zenon

\* A bounded set of numbers has a largest one.
LEMMA LargestOf ==
  ASSUME NEW N \in Nat, NEW T \in SUBSET (0..N), T # {}
  PROVE  \E n \in T : \A m \in T : n >= m
  <1> DEFINE U == {N - n : n \in T}
  <1>1. U \in SUBSET Nat /\ U # {}
    <2>1. \A n \in T : N - n \in Nat
      OBVIOUS
    <2>2. QED
      BY <2>1
  <1>2. PICK u \in U : \A v \in U : u <= v
    <2> HIDE DEF U
    <2> QED BY <1>1, LeastOf
  <1>3. PICK n \in T : u = N - n
    BY <1>2
  <1>4. ASSUME NEW m \in T PROVE n >= m
    <2>1. N - m \in U /\ m \in 0..N /\ n \in 0..N
      OBVIOUS
    <2>2. N - n <= N - m
      BY <1>2, <1>3, <2>1
    <2>3. QED
      BY <2>1, <2>2
  <1>5. QED
    BY <1>4

---------------------------------------------------------------------------
\* Where the opening block ends: at the end or before what is no precondition.
Ends(steps, n) ==
    /\ n \in 0..Len(steps) /\ \A i \in 1..n : Precondition(steps[i])
    /\ n = Len(steps) \/ ~Precondition(steps[n + 1])

\* The opening block has one end.
LEMMA OneEnd ==
  ASSUME NEW steps, Len(steps) \in Nat, NEW m, NEW n, Ends(steps, m), Ends(steps, n)
  PROVE  m = n
  <1>1. m \in 0..Len(steps) /\ n \in 0..Len(steps)
    BY DEF Ends
  <1>2. ~(m < n)
    <2>1. SUFFICES ASSUME m < n PROVE FALSE
      OBVIOUS
    <2>2. m # Len(steps) /\ m + 1 \in 1..n
      BY <1>1, <2>1
    <2>3. QED
      BY <2>2 DEF Ends
  <1>3. ~(n < m)
    <2>1. SUFFICES ASSUME n < m PROVE FALSE
      OBVIOUS
    <2>2. n # Len(steps) /\ n + 1 \in 1..m
      BY <1>1, <2>1
    <2>3. QED
      BY <2>2 DEF Ends
  <1>4. QED
    BY <1>1, <1>2, <1>3

\* OpeningBlock is that end.
LEMMA TheEnd ==
  ASSUME NEW steps, IsSeq(steps)
  PROVE  /\ Ends(steps, OpeningBlock(steps)) /\ OpeningBlock(steps) \in 0..Len(steps)
         /\ \A n : Ends(steps, n) => n = OpeningBlock(steps)
  <1> DEFINE T == {n \in 0..Len(steps) : \A i \in 1..n : Precondition(steps[i])}
  <1>1. Len(steps) \in Nat
    BY IsSeqMeans
  <1>2. T \in SUBSET (0..Len(steps)) /\ 0 \in T
    BY <1>1
  <1>3. \E n \in T : \A m \in T : n >= m
    <2> HIDE DEF T
    <2> QED BY <1>1, <1>2, LargestOf
  <1>4. OpeningBlock(steps) = CHOOSE n \in T : \A m \in T : n >= m
    BY DEF OpeningBlock, Max
  <1> HIDE DEF T
  <1>5. OpeningBlock(steps) \in T /\ \A m \in T : OpeningBlock(steps) >= m
    BY <1>3, <1>4
  <1> DEFINE b == OpeningBlock(steps)
  <1>6. b \in 0..Len(steps) /\ \A i \in 1..b : Precondition(steps[i])
    BY <1>5 DEF T
  <1> HIDE DEF b
  <1>7. ASSUME b # Len(steps), Precondition(steps[b + 1]) PROVE FALSE
    <2>1. b + 1 \in 0..Len(steps)
      BY <1>1, <1>6, <1>7
    <2>2. \A i \in 1..(b + 1) : Precondition(steps[i])
      BY <1>6, <1>7
    <2>3. b + 1 \in T
      BY <2>1, <2>2 DEF T
    <2>4. b >= b + 1
      BY <1>5, <2>3 DEF b
    <2>5. QED
      BY <1>6, <2>4
  <1>8. Ends(steps, b)
    BY <1>6, <1>7 DEF Ends
  <1>9. QED
    BY <1>1, <1>6, <1>8, OneEnd DEF b

\* The keywords depend on the roles and on which steps assert.
LEMMA SameKeywords ==
  ASSUME NEW s, NEW t, IsSeq(s), IsSeq(t), Len(s) = Len(t),
         \A i \in 1..Len(s) : BaseKeyword(s[i]) = BaseKeyword(t[i]) /\ (Asserts(s[i]) <=> Asserts(t[i]))
  PROVE  /\ OpeningBlock(s) = OpeningBlock(t) /\ LeadingSetup(s) = LeadingSetup(t)
         /\ \A i \in 1..Len(s) : Keyword(s, i) = Keyword(t, i) /\ Placed(s, i) = Placed(t, i)
  <1>1. Len(s) \in Nat
    BY IsSeqMeans
  <1>2. \A i \in 1..Len(s) : Precondition(s[i]) <=> Precondition(t[i])
    BY DEF Precondition
  <1>3. Ends(t, OpeningBlock(s))
    <2>1. Ends(s, OpeningBlock(s)) /\ OpeningBlock(s) \in 0..Len(s)
      BY TheEnd
    <2>2. QED
      BY <1>1, <1>2, <2>1 DEF Ends
  <1>4. OpeningBlock(s) = OpeningBlock(t)
    BY <1>3, TheEnd
  <1>5. \A i \in 1..Len(s) : Placed(s, i) = Placed(t, i)
    BY <1>4 DEF Placed
  <1>6. ASSUME NEW i \in 1..Len(s) PROVE Previous(s, i) = Previous(t, i)
    <2>1. i # 1 => i - 1 \in 1..Len(s)
      BY <1>1
    <2>2. CASE i = 1
      BY <2>2 DEF Previous
    <2>3. CASE i # 1
      <3>1. (Asserts(s[i - 1]) <=> Asserts(t[i - 1])) /\ Placed(s, i - 1) = Placed(t, i - 1)
        BY <1>5, <2>1, <2>3
      <3>2. CASE Asserts(s[i - 1])
        BY <2>3, <3>1, <3>2 DEF Previous
      <3>3. CASE ~Asserts(s[i - 1])
        BY <2>3, <3>1, <3>3 DEF Previous
      <3>4. QED
        BY <3>2, <3>3
    <2>4. QED
      BY <2>2, <2>3
  <1>7. \A i \in 1..Len(s) : Keyword(s, i) = Keyword(t, i)
    BY <1>5, <1>6 DEF Keyword
  <1>8. QED
    BY <1>4, <1>5, <1>7 DEF LeadingSetup

---------------------------------------------------------------------------
\* A step but for what differs.
Rekeyed(step, w) == [step EXCEPT !.keyword = w]

\* A step stores another keyword, and nothing else of it changes.
LEMMA StepWithKeyword ==
  ASSUME NEW step, IsStep(step), NEW w
  PROVE  LET new == Rekeyed(step, w) IN
         /\ IsStep(new) /\ new.keyword = w
         /\ new.id = step.id /\ new.text = step.text /\ new.role = step.role
         /\ new.events = step.events /\ new.claims = step.claims
         /\ new.asked = step.asked /\ new.low = step.low
         /\ BaseKeyword(new) = BaseKeyword(step) /\ Asserts(new) = Asserts(step)
         /\ \A v : Rekeyed(new, v) = Rekeyed(step, v)
         /\ w = step.keyword => new = step
  <1> DEFINE new == Rekeyed(step, w)
  <1>1. step = [id |-> step.id, text |-> step.text, role |-> step.role, keyword |-> step.keyword,
               events |-> step.events, claims |-> step.claims, asked |-> step.asked, low |-> step.low]
    BY DEF IsStep
  <1>2. new = [id |-> step.id, text |-> step.text, role |-> step.role, keyword |-> w,
               events |-> step.events, claims |-> step.claims, asked |-> step.asked, low |-> step.low]
    BY <1>1 DEF Rekeyed
  <1> HIDE DEF new
  <1>3. \A v : Rekeyed(new, v) =
              [id |-> step.id, text |-> step.text, role |-> step.role, keyword |-> v,
               events |-> step.events, claims |-> step.claims, asked |-> step.asked, low |-> step.low]
    BY <1>2 DEF Rekeyed
  <1>4. \A v : Rekeyed(step, v) =
              [id |-> step.id, text |-> step.text, role |-> step.role, keyword |-> v,
               events |-> step.events, claims |-> step.claims, asked |-> step.asked, low |-> step.low]
    BY <1>1 DEF Rekeyed
  <1>5. /\ new.keyword = w
         /\ new.id = step.id /\ new.text = step.text /\ new.role = step.role
         /\ new.events = step.events /\ new.claims = step.claims
         /\ new.asked = step.asked /\ new.low = step.low
    BY <1>2
  <1>6. new = [id |-> new.id, text |-> new.text, role |-> new.role, keyword |-> new.keyword,
               events |-> new.events, claims |-> new.claims, asked |-> new.asked, low |-> new.low]
    BY <1>2, <1>5
  <1>7. IsStep(new)
    BY <1>5, <1>6 DEF IsStep
  <1>8. BaseKeyword(new) = BaseKeyword(step) /\ Asserts(new) = Asserts(step)
    <2>1. step.role # "none"
      BY DEF IsStep
    <2>2. QED
      BY <1>5, <2>1 DEF BaseKeyword, Asserts
  <1>9. w = step.keyword => new = step
    BY <1>1, <1>2
  <1>10. QED
    BY <1>3, <1>4, <1>5, <1>7, <1>8, <1>9 DEF new

AreSteps(steps) == IsSeq(steps) /\ \A i \in 1..Len(steps) : IsStep(steps[i])

\* The keywords are a fixed point: laid out again they stay.
LEMMA Synced ==
  ASSUME NEW steps, AreSteps(steps)
  PROVE  /\ AreSteps(Sync(steps)) /\ Len(Sync(steps)) = Len(steps)
         /\ \A i \in 1..Len(steps) :
               /\ Sync(steps)[i] = Rekeyed(steps[i], Keyword(steps, i))
               /\ Keyword(Sync(steps), i) = Keyword(steps, i)
         /\ Sync(Sync(steps)) = Sync(steps)
  <1> DEFINE t == Sync(steps)
  <1>1. IsSeq(steps) /\ Len(steps) \in Nat /\ DOMAIN steps = 1..Len(steps)
    BY IsSeqMeans DEF AreSteps
  <1>2. t = [i \in 1..Len(steps) |-> Rekeyed(steps[i], Keyword(steps, i))]
    BY <1>1 DEF Sync, Rekeyed
  <1>3. \A i \in 1..Len(steps) : t[i] = Rekeyed(steps[i], Keyword(steps, i))
    BY <1>2
  <1>4. DOMAIN t = 1..Len(steps) /\ t = [i \in 1..Len(steps) |-> t[i]]
    BY <1>2
  <1> HIDE DEF t
  <1>5. IsSeq(t) /\ Len(t) = Len(steps)
    BY <1>1, <1>4, Made
  <1>6. \A i \in 1..Len(steps) : IsStep(t[i]) /\ BaseKeyword(t[i]) = BaseKeyword(steps[i])
                                 /\ (Asserts(t[i]) <=> Asserts(steps[i]))
    BY <1>3, StepWithKeyword DEF AreSteps
  <1>7. \A i \in 1..Len(steps) : Keyword(t, i) = Keyword(steps, i)
    BY <1>1, <1>5, <1>6, SameKeywords
  <1>8. Sync(t) = t
    <2>1. Sync(t) = [i \in 1..Len(steps) |-> Rekeyed(t[i], Keyword(t, i))]
      BY <1>4 DEF Sync, Rekeyed
    <2>2. ASSUME NEW i \in 1..Len(steps) PROVE Rekeyed(t[i], Keyword(t, i)) = t[i]
      BY <1>3, <1>7, StepWithKeyword DEF AreSteps
    <2>3. QED
      BY <1>4, <2>1, <2>2
  <1>9. QED
    BY <1>3, <1>5, <1>6, <1>7, <1>8 DEF t, AreSteps

---------------------------------------------------------------------------
\* Those of a sequence that are to be kept, each in a sequence of its own.
Keeps(s, K) == [k \in DOMAIN s |-> IF k \in K THEN <<s[k]>> ELSE <<>>]

\* Each element is kept or dropped.
LEMMA KeepsAre ==
  ASSUME NEW s, IsSeq(s), NEW K
  PROVE  /\ SeqOfSeqs(Keeps(s, K)) /\ Len(Keeps(s, K)) = Len(s)
         /\ \A k \in 1..Len(s) : /\ k \in K => Keeps(s, K)[k] = <<s[k]>> /\ Len(Keeps(s, K)[k]) = 1
                                 /\ k \notin K => Keeps(s, K)[k] = <<>> /\ Len(Keeps(s, K)[k]) = 0
  <1> DEFINE b == Keeps(s, K)
  <1>1. Len(s) \in Nat /\ DOMAIN s = 1..Len(s)
    BY IsSeqMeans
  <1>2. b = [k \in 1..Len(s) |-> IF k \in K THEN <<s[k]>> ELSE <<>>]
    BY <1>1 DEF Keeps
  <1>3. \A k \in 1..Len(s) : b[k] = IF k \in K THEN <<s[k]>> ELSE <<>>
    BY <1>2
  <1>4. DOMAIN b = 1..Len(s) /\ b = [k \in 1..Len(s) |-> b[k]]
    BY <1>2
  <1> HIDE DEF b
  <1>5. IsSeq(b) /\ Len(b) = Len(s)
    BY <1>1, <1>4, Made
  <1>6. \A k \in 1..Len(s) : IsSeq(b[k])
    BY <1>3, One, None
  <1>7. \A k \in 1..Len(s) : /\ k \in K => b[k] = <<s[k]>> /\ Len(b[k]) = 1
                             /\ k \notin K => b[k] = <<>> /\ Len(b[k]) = 0
    BY <1>3, One, None
  <1>8. QED
    BY <1>5, <1>6, <1>7 DEF b, SeqOfSeqs

\* What is kept of two sequences of the same length.
LEMMA KeptOfBoth ==
  ASSUME NEW s, NEW t, IsSeq(s), IsSeq(t), Len(s) = Len(t), NEW K
  PROVE  /\ Len(FlattenSeq(Keeps(s, K))) \in Nat
         /\ Len(FlattenSeq(Keeps(t, K))) = Len(FlattenSeq(Keeps(s, K)))
         /\ \A q \in 1..Len(FlattenSeq(Keeps(s, K))) : \E k \in 1..Len(s) :
               k \in K /\ FlattenSeq(Keeps(s, K))[q] = s[k] /\ FlattenSeq(Keeps(t, K))[q] = t[k]
  <1> DEFINE b == Keeps(s, K)
             c == Keeps(t, K)
  <1>1. /\ SeqOfSeqs(b) /\ Len(b) = Len(s)
        /\ \A k \in 1..Len(s) : /\ k \in K => b[k] = <<s[k]>> /\ Len(b[k]) = 1
                                /\ k \notin K => b[k] = <<>> /\ Len(b[k]) = 0
    BY KeepsAre
  <1>2. /\ SeqOfSeqs(c) /\ Len(c) = Len(s)
        /\ \A k \in 1..Len(s) : /\ k \in K => c[k] = <<t[k]>> /\ Len(c[k]) = 1
                                /\ k \notin K => c[k] = <<>> /\ Len(c[k]) = 0
    BY KeepsAre
  <1> HIDE DEF b, c
  <1>3. \A k \in 1..Len(b) : Len(b[k]) = Len(c[k])
    BY <1>1, <1>2
  <1>4. /\ Len(FlattenSeq(c)) = Len(FlattenSeq(b)) /\ Len(FlattenSeq(b)) \in Nat
        /\ \A k \in 1..Len(b) : Start(b, k) = Start(c, k)
    <2>1. Len(b) \in Nat
      BY <1>1, StartsOf
    <2>2. \A k \in 1..Len(b) : k \in 1..(Len(b) + 1)
      BY <2>1
    <2>3. /\ \A k \in 1..(Len(b) + 1) : Start(b, k) = Start(c, k)
          /\ Len(FlattenSeq(b)) = Len(FlattenSeq(c))
      BY <1>1, <1>2, <1>3, FlatAlike
    <2>4. QED
      BY <1>1, <2>2, <2>3, StartsOf, IsSeqMeans
  <1>5. ASSUME NEW q \in 1..Len(FlattenSeq(b))
        PROVE  \E k \in 1..Len(s) : k \in K /\ FlattenSeq(b)[q] = s[k] /\ FlattenSeq(c)[q] = t[k]
    <2>1. PICK k \in 1..Len(b) : \E j \in 1..Len(b[k]) : q = Start(b, k) + j
      BY <1>1, FlatFrom
    <2>2. PICK j \in 1..Len(b[k]) : q = Start(b, k) + j
      BY <2>1
    <2>3. k \in 1..Len(s) /\ k \in K
      BY <1>1
    <2>4. j = 1 /\ j \in 1..Len(c[k])
      BY <1>1, <1>2, <2>3
    <2>5. FlattenSeq(b)[q] = b[k][j] /\ FlattenSeq(c)[q] = c[k][j]
      <3>1. q = Start(c, k) + j /\ k \in 1..Len(c)
        BY <1>1, <1>2, <1>4, <2>2
      <3>2. FlattenSeq(b)[q] = b[k][j]
        BY <1>1, <2>2, FlatPlaces
      <3>3. FlattenSeq(c)[q] = c[k][j]
        BY <1>2, <2>4, <3>1, FlatPlaces
      <3>4. QED
        BY <3>2, <3>3
    <2>6. b[k][j] = s[k] /\ c[k][j] = t[k]
      BY <1>1, <1>2, <2>3, <2>4, One
    <2>7. QED
      BY <2>3, <2>5, <2>6
  <1>6. QED
    BY <1>4, <1>5 DEF b, c

\* What is kept are elements that should be.
LEMMA KeptAre ==
  ASSUME NEW s, IsSeq(s), NEW K
  PROVE  /\ IsSeq(FlattenSeq(Keeps(s, K))) /\ Len(FlattenSeq(Keeps(s, K))) \in Nat
         /\ \A q \in 1..Len(FlattenSeq(Keeps(s, K))) :
               \E k \in 1..Len(s) : k \in K /\ FlattenSeq(Keeps(s, K))[q] = s[k]
         /\ \A k \in 1..Len(s) : k \in K => Len(FlattenSeq(Keeps(s, K))) # 0
  <1> DEFINE b == Keeps(s, K)
  <1>1. /\ SeqOfSeqs(b) /\ Len(b) = Len(s)
        /\ \A k \in 1..Len(s) : k \in K => Len(b[k]) = 1
    BY KeepsAre
  <1>2. /\ Len(FlattenSeq(b)) \in Nat
        /\ \A q \in 1..Len(FlattenSeq(b)) : \E k \in 1..Len(s) : k \in K /\ FlattenSeq(b)[q] = s[k]
    BY KeptOfBoth
  <1> HIDE DEF b
  <1>3. IsSeq(FlattenSeq(b))
    BY <1>1, StartsOf
  <1>4. ASSUME NEW k \in 1..Len(s), k \in K PROVE Len(FlattenSeq(b)) # 0
    <2>1. 1 \in 1..Len(b[k]) /\ k \in 1..Len(b)
      BY <1>1, <1>4
    <2>2. Start(b, k) + 1 \in 1..Len(FlattenSeq(b))
      BY <1>1, <2>1, FlatPlaces
    <2>3. QED
      BY <1>2, <2>2
  <1>5. QED
    BY <1>2, <1>3, <1>4 DEF b

\* The elements of t are elements of s, each of another place.
Picks(g, t, s) ==
    /\ g \in [1..Len(t) -> 1..Len(s)]
    /\ \A j \in 1..Len(t) : t[j] = s[g[j]]
    /\ \A j, k \in 1..Len(t) : g[j] = g[k] => j = k

\* All steps but those with the ids.
Rids(g, t, s, ids) ==
    /\ Picks(g, t, s)
    /\ \A j \in 1..Len(t) : s[g[j]].id \notin ids
    /\ \A k \in 1..Len(s) : s[k].id \notin ids => \E j \in 1..Len(t) : g[j] = k

\* What is left of a sequence when steps are taken out by their ids.
LEMMA RidOf ==
  ASSUME NEW s, IsSeq(s), NEW ids
  PROVE  /\ IsSeq(Rid(s, ids)) /\ Len(Rid(s, ids)) \in Nat
         /\ \E g : Rids(g, Rid(s, ids), s, ids)
  <1> DEFINE K == {k \in DOMAIN s : s[k].id \notin ids}
             b == Keeps(s, K)
             t == FlattenSeq(b)
             Of(q, k) == k \in K /\ q = Start(b, k) + 1 /\ t[q] = s[k]
             g == [q \in 1..Len(t) |-> CHOOSE k \in 1..Len(s) : Of(q, k)]
  <1>1. Rid(s, ids) = t
    <2>1. [i \in DOMAIN s |-> IF s[i].id \in ids THEN <<>> ELSE <<s[i]>>] = b
      BY DEF Keeps
    <2>2. QED
      BY <2>1 DEF Rid
  <1>2. DOMAIN s = 1..Len(s) /\ Len(s) \in Nat
    BY IsSeqMeans
  <1>3. \A k \in 1..Len(s) : k \in K <=> s[k].id \notin ids
    BY <1>2
  <1> HIDE DEF K
  <1>4. /\ SeqOfSeqs(b) /\ Len(b) = Len(s)
        /\ \A k \in 1..Len(s) : /\ k \in K => b[k] = <<s[k]>> /\ Len(b[k]) = 1
                                /\ k \notin K => b[k] = <<>> /\ Len(b[k]) = 0
    BY KeepsAre
  <1>5. IsSeq(t) /\ Len(t) \in Nat
    BY KeptAre
  <1> HIDE DEF b
  <1>6. ASSUME NEW k \in 1..Len(s), k \in K
        PROVE  Start(b, k) + 1 \in 1..Len(t) /\ Of(Start(b, k) + 1, k)
    <2>1. k \in 1..Len(b) /\ 1 \in 1..Len(b[k]) /\ b[k][1] = s[k]
      BY <1>4, <1>6, One
    <2>2. Start(b, k) + 1 \in 1..Len(t) /\ t[Start(b, k) + 1] = b[k][1]
      BY <1>4, <2>1, FlatPlaces
    <2>3. QED
      BY <1>6, <2>1, <2>2
  <1>7. ASSUME NEW q \in 1..Len(t) PROVE \E k \in 1..Len(s) : Of(q, k)
    <2>1. PICK k \in 1..Len(b) : \E j \in 1..Len(b[k]) : q = Start(b, k) + j
      BY <1>4, FlatFrom
    <2>2. PICK j \in 1..Len(b[k]) : q = Start(b, k) + j
      BY <2>1
    <2>3. k \in 1..Len(s) /\ k \in K /\ j = 1
      <3>1. k \in 1..Len(s)
        BY <1>4
      <3>2. k \in K
        BY <1>4, <3>1
      <3>3. Len(b[k]) = 1
        BY <1>4, <3>1, <3>2
      <3>4. QED
        BY <3>1, <3>2, <3>3
    <2>4. QED
      BY <1>6, <2>2, <2>3
  <1>8. ASSUME NEW k \in 1..Len(s), NEW m \in 1..Len(s), NEW q, Of(q, k), Of(q, m) PROVE k = m
    <2>1. k \in 1..Len(b) /\ m \in 1..Len(b) /\ 1 \in 1..Len(b[k]) /\ 1 \in 1..Len(b[m])
      <3>1. k \in 1..Len(b) /\ m \in 1..Len(b) /\ k \in K /\ m \in K
        BY <1>4, <1>8
      <3>2. Len(b[k]) = 1 /\ Len(b[m]) = 1
        BY <1>4, <1>8
      <3>3. QED
        BY <3>1, <3>2
    <2>2. QED
      BY <1>4, <1>8, <2>1, FlatOnce
  <1> HIDE DEF t
  <1>9. \A q \in 1..Len(t) : g[q] \in 1..Len(s) /\ Of(q, g[q])
    <2> HIDE DEF Of
    <2>1. \A q \in 1..Len(t) : g[q] = CHOOSE k \in 1..Len(s) : Of(q, k)
      OBVIOUS
    <2>2. QED
      BY <1>7, <2>1
  <1>10. g \in [1..Len(t) -> 1..Len(s)]
    BY <1>9
  <1> HIDE DEF g
  <1>11. Picks(g, t, s)
    BY <1>9, <1>10 DEF Picks
  <1>12. ASSUME NEW k \in 1..Len(s), s[k].id \notin ids PROVE \E q \in 1..Len(t) : g[q] = k
    <2>1. k \in K
      BY <1>3, <1>12
    <2>2. PICK q \in 1..Len(t) : Of(q, k)
      BY <1>6, <2>1
    <2>3. g[q] = k
      <3> HIDE DEF Of
      <3> QED BY <1>8, <1>9, <2>2
    <2>4. QED
      BY <2>3
  <1>13. Rids(g, t, s, ids)
    BY <1>3, <1>9, <1>11, <1>12 DEF Rids
  <1>14. QED
    BY <1>1, <1>5, <1>13

\* The places of the accepted ones.
Accepted(claims) == {k \in DOMAIN claims : claims[k].accepted}

\* The expected results shown are the accepted ones.
LEMMA ShownAre ==
  ASSUME NEW claims, IsSeq(claims)
  PROVE  /\ Shown(claims) = FlattenSeq(Keeps(claims, Accepted(claims)))
         /\ IsSeq(Shown(claims)) /\ Len(Shown(claims)) \in Nat
         /\ \A q \in 1..Len(Shown(claims)) : \E k \in 1..Len(claims) :
               claims[k].accepted /\ Shown(claims)[q] = claims[k]
         /\ Len(Shown(claims)) # 0 <=> \E k \in 1..Len(claims) : claims[k].accepted
  <1> DEFINE K == Accepted(claims)
             f == FlattenSeq(Keeps(claims, K))
  <1>1. Len(claims) \in Nat /\ DOMAIN claims = 1..Len(claims)
    BY IsSeqMeans
  <1>2. \A k \in 1..Len(claims) : k \in K <=> claims[k].accepted
    BY <1>1 DEF Accepted
  <1>3. Keeps(claims, K) =
           [k \in DOMAIN claims |-> IF claims[k].accepted THEN <<claims[k]>> ELSE <<>>]
    BY <1>1, <1>2 DEF Keeps
  <1>4. Shown(claims) = f
    BY <1>3 DEF Shown
  <1>5. /\ IsSeq(f) /\ Len(f) \in Nat
        /\ \A q \in 1..Len(f) : \E k \in 1..Len(claims) : k \in K /\ f[q] = claims[k]
        /\ \A k \in 1..Len(claims) : k \in K => Len(f) # 0
    BY KeptAre
  <1> HIDE DEF K, f
  <1>6. Len(f) # 0 => 1 \in 1..Len(f)
    BY <1>5
  <1>7. QED
    BY <1>2, <1>4, <1>5, <1>6 DEF K, f

\* The lines of the expected results of a step.
LEMMA ExpectedAre ==
  ASSUME NEW step, IsStep(step)
  PROVE  /\ IsSeq(Expected(step)) /\ Len(Expected(step)) \in Nat
         /\ Len(Expected(step)) = Len(Shown(step.claims))
         /\ \A q \in 1..Len(Expected(step)) :
               /\ Expected(step)[q] = [keyword |-> IF q = 1 THEN "Then" ELSE "And",
                                       text |-> Shown(step.claims)[q].text,
                                       step |-> step.id, claim |-> Shown(step.claims)[q].id]
               /\ Expected(step)[q].claim # NoClaim
         /\ Len(Expected(step)) # 0 <=> Asserts(step)
  <1> DEFINE e == Expected(step)
             shown == Shown(step.claims)
  <1>1. /\ IsSeq(step.claims) /\ DOMAIN step.claims = 1..Len(step.claims)
        /\ \A k \in 1..Len(step.claims) : step.claims[k].id # NoClaim
    BY IsSeqMeans DEF IsStep, IsClaim
  <1>2. /\ IsSeq(shown) /\ Len(shown) \in Nat
        /\ \A q \in 1..Len(shown) : \E k \in 1..Len(step.claims) :
              step.claims[k].accepted /\ shown[q] = step.claims[k]
        /\ Len(shown) # 0 <=> \E k \in 1..Len(step.claims) : step.claims[k].accepted
    BY <1>1, ShownAre
  <1>3. e = [k \in 1..Len(shown) |-> [keyword |-> IF k = 1 THEN "Then" ELSE "And",
                                      text |-> shown[k].text,
                                      step |-> step.id, claim |-> shown[k].id]]
    <2>1. DOMAIN shown = 1..Len(shown)
      BY <1>2, IsSeqMeans
    <2>2. QED
      BY <2>1 DEF Expected
  <1> HIDE DEF shown
  <1>4. DOMAIN e = 1..Len(shown) /\ e = [k \in 1..Len(shown) |-> e[k]]
    BY <1>3
  <1>5. \A q \in 1..Len(shown) :
            e[q] = [keyword |-> IF q = 1 THEN "Then" ELSE "And", text |-> shown[q].text,
                    step |-> step.id, claim |-> shown[q].id]
    BY <1>3
  <1> HIDE DEF e
  <1>6. IsSeq(e) /\ Len(e) = Len(shown)
    BY <1>2, <1>4, Made
  <1>7. ASSUME NEW q \in 1..Len(shown) PROVE e[q].claim # NoClaim
    <2>1. PICK k \in 1..Len(step.claims) : shown[q] = step.claims[k]
      BY <1>2
    <2>2. e[q].claim = shown[q].id
      <3>1. e[q] = [keyword |-> IF q = 1 THEN "Then" ELSE "And", text |-> shown[q].text,
                    step |-> step.id, claim |-> shown[q].id]
        BY <1>5
      <3>2. QED
        BY <3>1
    <2>3. QED
      BY <1>1, <2>1, <2>2
  <1>8. Len(e) # 0 <=> Asserts(step)
    BY <1>1, <1>2, <1>6 DEF Asserts
  <1>9. QED
    BY <1>2, <1>5, <1>6, <1>7, <1>8 DEF e, shown

Blocks(steps) == [i \in DOMAIN steps |-> <<StepLine(steps, i)>> \o Expected(steps[i])]

\* Each step has one line, and one for each of its expected results.
LEMMA BlocksAre ==
  ASSUME NEW steps, AreSteps(steps)
  PROVE  /\ SeqOfSeqs(Blocks(steps)) /\ Len(Blocks(steps)) = Len(steps)
         /\ LayOut(steps) = FlattenSeq(Blocks(steps))
         /\ \A i \in 1..Len(steps) :
               /\ Len(Blocks(steps)[i]) = 1 + Len(Expected(steps[i]))
               /\ Blocks(steps)[i][1] = StepLine(steps, i)
               /\ \A j \in 1..Len(Expected(steps[i])) : Blocks(steps)[i][1 + j] = Expected(steps[i])[j]
  <1> DEFINE b == Blocks(steps)
  <1>1. Len(steps) \in Nat /\ DOMAIN steps = 1..Len(steps)
    BY IsSeqMeans DEF AreSteps
  <1>2. b = [i \in 1..Len(steps) |-> <<StepLine(steps, i)>> \o Expected(steps[i])]
    BY <1>1 DEF Blocks
  <1>3. \A i \in 1..Len(steps) : b[i] = <<StepLine(steps, i)>> \o Expected(steps[i])
    BY <1>2
  <1>4. DOMAIN b = 1..Len(steps) /\ b = [i \in 1..Len(steps) |-> b[i]]
    BY <1>2
  <1>5. LayOut(steps) = FlattenSeq(b)
    BY DEF LayOut, Blocks
  <1> HIDE DEF b
  <1>6. IsSeq(b) /\ Len(b) = Len(steps)
    BY <1>1, <1>4, Made
  <1>7. ASSUME NEW i \in 1..Len(steps)
        PROVE  /\ IsSeq(b[i]) /\ Len(b[i]) = 1 + Len(Expected(steps[i]))
               /\ b[i][1] = StepLine(steps, i)
               /\ \A j \in 1..Len(Expected(steps[i])) : b[i][1 + j] = Expected(steps[i])[j]
    <2> DEFINE x == <<StepLine(steps, i)>>
               e == Expected(steps[i])
    <2>1. IsSeq(x) /\ Len(x) = 1 /\ x[1] = StepLine(steps, i)
      BY One
    <2>2. IsSeq(e)
      BY ExpectedAre DEF AreSteps
    <2>3. b[i] = x \o e
      BY <1>3
    <2> HIDE DEF x, e
    <2>4. /\ IsSeq(x \o e) /\ Len(x \o e) = Len(x) + Len(e)
          /\ \A j \in 1..Len(x) : (x \o e)[j] = x[j]
          /\ \A j \in 1..Len(e) : (x \o e)[Len(x) + j] = e[j]
      <3>1. IsSeq(x) /\ IsSeq(e)
        BY <2>1, <2>2
      <3>2. QED
        BY <3>1, CatOf
    <2>5. /\ IsSeq(b[i]) /\ Len(b[i]) = Len(x) + Len(e)
          /\ \A j \in 1..Len(x) : b[i][j] = x[j]
          /\ \A j \in 1..Len(e) : b[i][Len(x) + j] = e[j]
      BY <2>3, <2>4, Zenon
    <2>6. QED
      BY <2>1, <2>5 DEF e
  <1>8. QED
    BY <1>5, <1>6, <1>7 DEF b, SeqOfSeqs

\* A line that is laid out is a step's own or one of its expected results.
LEMMA LinesAre ==
  ASSUME NEW steps, AreSteps(steps)
  PROVE  /\ IsSeq(LayOut(steps)) /\ Len(LayOut(steps)) \in Nat
         /\ \A q \in 1..Len(LayOut(steps)) : \E i \in 1..Len(steps) :
               \/ q = Start(Blocks(steps), i) + 1 /\ LayOut(steps)[q] = StepLine(steps, i)
               \/ /\ Asserts(steps[i]) /\ LayOut(steps)[q].claim # NoClaim
                  /\ LayOut(steps)[q].keyword \in {"Then", "And"}
         /\ Len(steps) # 0 => Len(LayOut(steps)) # 0 /\ LayOut(steps)[1] = StepLine(steps, 1)
  <1> DEFINE b == Blocks(steps)
             l == LayOut(steps)
  <1>1. /\ SeqOfSeqs(b) /\ Len(b) = Len(steps) /\ l = FlattenSeq(b)
        /\ \A i \in 1..Len(steps) :
               /\ Len(b[i]) = 1 + Len(Expected(steps[i]))
               /\ b[i][1] = StepLine(steps, i)
               /\ \A j \in 1..Len(Expected(steps[i])) : b[i][1 + j] = Expected(steps[i])[j]
    BY BlocksAre
  <1> HIDE DEF b, l
  <1>2. IsSeq(l) /\ Len(l) \in Nat /\ Start(b, 1) = 0 /\ Len(steps) \in Nat
    BY <1>1, StartsOf, IsSeqMeans
  <1>3. ASSUME NEW q \in 1..Len(l)
        PROVE  \E i \in 1..Len(steps) :
                  \/ q = Start(b, i) + 1 /\ l[q] = StepLine(steps, i)
                  \/ /\ Asserts(steps[i]) /\ l[q].claim # NoClaim
                     /\ l[q].keyword \in {"Then", "And"}
    <2>0. SeqOfSeqs(b) /\ q \in 1..Len(FlattenSeq(b))
      BY <1>1
    <2>1. PICK i \in 1..Len(b) : \E j \in 1..Len(b[i]) : q = Start(b, i) + j
      BY <2>0, FlatFrom
    <2>2. PICK j \in 1..Len(b[i]) : q = Start(b, i) + j
      BY <2>1
    <2>3. l[q] = b[i][j] /\ i \in 1..Len(steps)
      <3>1. FlattenSeq(b)[Start(b, i) + j] = b[i][j]
        BY <2>0, FlatPlaces
      <3>2. QED
        BY <1>1, <2>2, <3>1
    <2>4. CASE j = 1
      BY <1>1, <2>2, <2>3, <2>4
    <2>5. CASE j # 1
      <3> DEFINE e == Expected(steps[i])
      <3>1. /\ Len(e) \in Nat
            /\ \A k \in 1..Len(e) : e[k].claim # NoClaim /\ e[k].keyword \in {"Then", "And"}
            /\ Len(e) # 0 <=> Asserts(steps[i])
        <4>1. IsStep(steps[i])
          BY <2>3 DEF AreSteps
        <4>2. ASSUME NEW k \in 1..Len(e) PROVE e[k].keyword \in {"Then", "And"}
          <5>1. e[k] = [keyword |-> IF k = 1 THEN "Then" ELSE "And",
                        text |-> Shown(steps[i].claims)[k].text,
                        step |-> steps[i].id, claim |-> Shown(steps[i].claims)[k].id]
            BY <4>1, ExpectedAre
          <5>2. QED
            BY <5>1
        <4>3. QED
          BY <4>1, <4>2, ExpectedAre
      <3>2. Len(b[i]) = 1 + Len(e) /\ \A k \in 1..Len(e) : b[i][1 + k] = e[k]
        BY <1>1, <2>3
      <3> HIDE DEF e
      <3>3. j - 1 \in 1..Len(e) /\ 1 + (j - 1) = j /\ Len(e) # 0
        BY <2>5, <3>1, <3>2
      <3>4. b[i][j] = e[j - 1]
        BY <3>2, <3>3
      <3>5. QED
        BY <2>3, <3>1, <3>3, <3>4
    <2>6. QED
      BY <2>4, <2>5
  <1>4. ASSUME Len(steps) # 0 PROVE Len(l) # 0 /\ l[1] = StepLine(steps, 1)
    <2>1. 1 \in 1..Len(steps)
      BY <1>2, <1>4
    <2>2. 1 \in 1..Len(b[1])
      <3>1. Len(Expected(steps[1])) \in Nat
        BY <2>1, ExpectedAre DEF AreSteps
      <3>2. QED
        BY <1>1, <2>1, <3>1
    <2>3. Start(b, 1) + 1 \in 1..Len(l) /\ l[Start(b, 1) + 1] = b[1][1]
      BY <1>1, <2>1, <2>2, FlatPlaces
    <2>4. Start(b, 1) + 1 = 1
      BY <1>2
    <2>5. QED
      BY <1>1, <1>2, <2>1, <2>3, <2>4
  <1>5. QED
    BY <1>2, <1>3, <1>4 DEF b, l

\* What a Background takes of a scenario, and what is left for it.
Lead(steps, lift) == IF lift THEN LeadingSetup(steps) ELSE 0
Upper(steps, lift) == SubSeq(steps, 1, Lead(steps, lift))
Lower(steps, lift) == SubSeq(steps, Lead(steps, lift) + 1, Len(steps))

\* What is lifted and what is left are the steps in order, and something is left.
LEMMA Halves ==
  ASSUME NEW steps, AreSteps(steps), NEW lift
  PROVE  LET m == Lead(steps, lift) IN
         /\ Len(steps) \in Nat /\ m \in 0..Len(steps) /\ (Len(steps) # 0 => m < Len(steps))
         /\ AreSteps(Upper(steps, lift)) /\ Len(Upper(steps, lift)) = m
         /\ \A i \in 1..m : Upper(steps, lift)[i] = steps[i] /\ Precondition(steps[i])
         /\ AreSteps(Lower(steps, lift)) /\ Len(Lower(steps, lift)) = Len(steps) - m
         /\ \A i \in 1..(Len(steps) - m) : Lower(steps, lift)[i] = steps[m + i]
         /\ Lifted(steps, lift) = LayOut(Upper(steps, lift))
         /\ Body(steps, lift) = LayOut(Lower(steps, lift))
         /\ m # 0 => m = OpeningBlock(steps)
  <1> DEFINE m == Lead(steps, lift)
             u == Upper(steps, lift)
             v == Lower(steps, lift)
  <1>1. IsSeq(steps) /\ Len(steps) \in Nat /\ \A i \in 1..Len(steps) : IsStep(steps[i])
    BY IsSeqMeans DEF AreSteps
  <1>2. /\ Ends(steps, OpeningBlock(steps)) /\ OpeningBlock(steps) \in 0..Len(steps)
    BY <1>1, TheEnd
  <1>3. /\ m \in 0..Len(steps) /\ (Len(steps) # 0 => m < Len(steps))
        /\ m # 0 => m = OpeningBlock(steps)
    BY <1>1, <1>2 DEF Lead, LeadingSetup
  <1>4. \A i \in 1..m : Precondition(steps[i])
    <2>1. \A i \in 1..OpeningBlock(steps) : Precondition(steps[i])
      BY <1>2 DEF Ends
    <2>2. CASE m = 0
      BY <2>2
    <2>3. CASE m # 0
      BY <1>3, <2>1, <2>3
    <2>4. QED
      BY <2>2, <2>3
  <1>5. Lifted(steps, lift) = LayOut(u) /\ Body(steps, lift) = LayOut(v)
    <2>1. CASE lift
      BY <2>1 DEF Lifted, Body, Upper, Lower, Lead
    <2>2. CASE ~lift
      <3>1. 0 + 1 = 1
        OBVIOUS
      <3>2. QED
        BY <2>2, <3>1 DEF Lifted, Body, Upper, Lower, Lead
    <2>3. QED
      BY <2>1, <2>2
  <1>6. u = SubSeq(steps, 1, m) /\ v = SubSeq(steps, m + 1, Len(steps))
    BY DEF Upper, Lower
  <1> HIDE DEF m, u, v
  <1>7. IsSeq(u) /\ Len(u) = m /\ \A i \in 1..m : u[i] = steps[i]
    <2>1. 1 \in 1..(Len(steps) + 1) /\ m \in 0..Len(steps) /\ 1 <= m + 1
      BY <1>1, <1>3
    <2>2. /\ IsSeq(u) /\ Len(u) = (m - 1) + 1
          /\ \A i \in 1..((m - 1) + 1) : u[i] = steps[(1 + i) - 1]
      BY <1>1, <1>6, <2>1, PartOf
    <2>3. QED
      BY <1>3, <2>2
  <1>8. IsSeq(v) /\ Len(v) = Len(steps) - m /\ \A i \in 1..(Len(steps) - m) : v[i] = steps[m + i]
    <2>1. m + 1 \in 1..(Len(steps) + 1) /\ Len(steps) \in 0..Len(steps) /\ m + 1 <= Len(steps) + 1
      BY <1>1, <1>3
    <2>2. /\ IsSeq(v) /\ Len(v) = (Len(steps) - (m + 1)) + 1
          /\ \A i \in 1..((Len(steps) - (m + 1)) + 1) : v[i] = steps[((m + 1) + i) - 1]
      BY <1>1, <1>6, <2>1, PartOf
    <2>3. QED
      BY <1>1, <1>3, <2>2
  <1>9. AreSteps(u)
    <2>1. \A i \in 1..m : i \in 1..Len(steps)
      BY <1>1, <1>3
    <2>2. QED
      BY <1>1, <1>7, <2>1 DEF AreSteps
  <1>10. AreSteps(v)
    <2>1. \A i \in 1..(Len(steps) - m) : m + i \in 1..Len(steps)
      BY <1>1, <1>3
    <2>2. QED
      BY <1>1, <1>8, <2>1 DEF AreSteps
  <1>11. QED
    BY <1>1, <1>3, <1>4, <1>5, <1>7, <1>8, <1>9, <1>10 DEF m, u, v

\* The keywords there are, and when one is Given.
LEMMA Keywords ==
  ASSUME NEW steps, AreSteps(steps), NEW i \in 1..Len(steps)
  PROVE  /\ BaseKeyword(steps[i]) \in {"Given", "When"} /\ Placed(steps, i) \in {"Given", "When"}
         /\ Placed(steps, i) = "Given" <=> BaseKeyword(steps[i]) = "Given" /\ i <= OpeningBlock(steps)
         /\ Keyword(steps, i) \in {"Given", "When", "And"}
  <1>1. steps[i].role # "none"
    BY DEF AreSteps, IsStep
  <1>2. BaseKeyword(steps[i]) \in {"Given", "When"}
    BY <1>1 DEF BaseKeyword
  <1>3. OpeningBlock(steps) \in Nat /\ i \in Nat
    <2>1. Len(steps) \in Nat
      BY IsSeqMeans DEF AreSteps
    <2>2. OpeningBlock(steps) \in 0..Len(steps)
      BY TheEnd DEF AreSteps
    <2>3. QED
      BY <2>1, <2>2
  <1>4. /\ Placed(steps, i) \in {"Given", "When"}
        /\ Placed(steps, i) = "Given" <=> BaseKeyword(steps[i]) = "Given" /\ i <= OpeningBlock(steps)
    BY <1>2, <1>3 DEF Placed
  <1>5. QED
    BY <1>2, <1>4 DEF Keyword

\* Where all steps are preconditions the first is Given and the others go on.
LEMMA OpeningKeywords ==
  ASSUME NEW steps, AreSteps(steps), NEW i \in 1..Len(steps),
         \A j \in 1..i : Precondition(steps[j]), i <= OpeningBlock(steps)
  PROVE  Keyword(steps, i) = IF i = 1 THEN "Given" ELSE "And"
  <1>1. i \in Nat /\ OpeningBlock(steps) \in Nat /\ Len(steps) \in Nat
    <2>1. Len(steps) \in Nat
      BY IsSeqMeans DEF AreSteps
    <2>2. OpeningBlock(steps) \in 0..Len(steps)
      BY TheEnd DEF AreSteps
    <2>3. QED
      BY <2>1, <2>2
  <1>2. ASSUME NEW j \in 1..i PROVE Placed(steps, j) = "Given"
    <2>1. j \in 1..Len(steps) /\ j <= OpeningBlock(steps)
      BY <1>1
    <2>2. BaseKeyword(steps[j]) = "Given"
      BY DEF Precondition
    <2>3. QED
      BY <2>1, <2>2, Keywords
  <1>3. CASE i = 1
    <2>1. Previous(steps, i) = "none" /\ Placed(steps, i) = "Given"
      BY <1>2, <1>3 DEF Previous
    <2>2. QED
      BY <1>3, <2>1 DEF Keyword
  <1>4. CASE i # 1
    <2>1. i - 1 \in 1..i
      BY <1>1, <1>4
    <2>2. ~Asserts(steps[i - 1])
      BY <2>1 DEF Precondition
    <2>3. Previous(steps, i) = "Given"
      BY <1>2, <1>4, <2>1, <2>2 DEF Previous
    <2>4. QED
      BY <1>1, <1>2, <1>4, <2>3 DEF Keyword
  <1>5. QED
    BY <1>3, <1>4

\* The lifted steps keep the keywords they had.
LEMMA UpperKeywords ==
  ASSUME NEW steps, AreSteps(steps), NEW lift
  PROVE  \A i \in 1..Lead(steps, lift) :
            /\ Keyword(Upper(steps, lift), i) = Keyword(steps, i)
            /\ Keyword(steps, i) = IF i = 1 THEN "Given" ELSE "And"
  <1> DEFINE m == Lead(steps, lift)
             u == Upper(steps, lift)
  <1>1. /\ Len(steps) \in Nat /\ m \in 0..Len(steps)
        /\ AreSteps(u) /\ Len(u) = m
        /\ \A i \in 1..m : u[i] = steps[i] /\ Precondition(steps[i])
        /\ m # 0 => m = OpeningBlock(steps)
    BY Halves
  <1> HIDE DEF m, u
  <1>2. OpeningBlock(u) = m
    <2>1. Ends(u, m)
      BY <1>1 DEF Ends
    <2>2. QED
      BY <1>1, <2>1, TheEnd DEF AreSteps
  <1>3. ASSUME NEW i \in 1..m
        PROVE  /\ Keyword(u, i) = IF i = 1 THEN "Given" ELSE "And"
               /\ Keyword(steps, i) = IF i = 1 THEN "Given" ELSE "And"
    <2>1. /\ i \in 1..Len(u) /\ i \in 1..Len(steps) /\ \A j \in 1..i : j \in 1..m
          /\ i <= OpeningBlock(u) /\ m # 0 /\ i <= m
      BY <1>1, <1>2
    <2>2. \A j \in 1..i : Precondition(steps[j]) /\ Precondition(u[j])
      BY <1>1, <2>1
    <2>3. i <= OpeningBlock(steps)
      BY <1>1, <2>1
    <2>4. QED
      BY <1>1, <2>1, <2>2, <2>3, OpeningKeywords
  <1>4. QED
    BY <1>3 DEF m, u

\* And so do the others, of which the first begins anew.
LEMMA LowerKeywords ==
  ASSUME NEW steps, AreSteps(steps), NEW lift
  PROVE  \A i \in 1..Len(Lower(steps, lift)) :
            /\ Keyword(Lower(steps, lift), i) = Keyword(steps, Lead(steps, lift) + i)
            /\ i = 1 => Keyword(Lower(steps, lift), i) \in {"Given", "When"}
            /\ Keyword(Lower(steps, lift), i) = "Given" => i = 1
  <1> DEFINE m == Lead(steps, lift)
             v == Lower(steps, lift)
             n == Len(steps) - m
  <1>1. /\ Len(steps) \in Nat /\ m \in 0..Len(steps) /\ (Len(steps) # 0 => m < Len(steps))
        /\ AreSteps(v) /\ Len(v) = n
        /\ \A i \in 1..n : v[i] = steps[m + i]
        /\ \A i \in 1..m : Precondition(steps[i])
        /\ m # 0 => m = OpeningBlock(steps)
    BY Halves
  <1>2. n \in Nat /\ \A i \in 1..n : m + i \in 1..Len(steps)
    BY <1>1
  <1> HIDE DEF m, v
  <1>3. IsSeq(v) /\ IsSeq(steps)
    BY <1>1 DEF AreSteps
  \* Whatever comes behind the opening block is no Given, in the part as in the whole.
  <1>4. ASSUME m # 0 PROVE OpeningBlock(v) = 0
    <2>1. Ends(steps, m) /\ m # Len(steps)
      BY <1>1, <1>3, <1>4, TheEnd
    <2>2. 1 \in 1..n /\ ~Precondition(steps[m + 1])
      BY <1>1, <2>1 DEF Ends
    <2>3. Ends(v, 0)
      BY <1>1, <1>2, <2>2 DEF Ends
    <2>4. QED
      BY <1>3, <2>3, TheEnd
  <1>5. ASSUME NEW i \in 1..n PROVE Placed(v, i) = Placed(steps, m + i)
    <2>1. v[i] = steps[m + i]
      BY <1>1
    <2>2. CASE m = 0
      <3>1. OpeningBlock(v) = OpeningBlock(steps) /\ m + i = i
        <4>1. Len(v) = Len(steps) /\ \A j \in 1..Len(v) : v[j] = steps[j]
          BY <1>1, <2>2
        <4>2. v = steps
          BY <1>3, <4>1, Alike
        <4>3. QED
          BY <1>1, <2>2, <4>2
      <3>2. QED
        BY <2>1, <3>1 DEF Placed
    <2>3. CASE m # 0
      <3>1. ~(i <= OpeningBlock(v)) /\ ~(m + i <= OpeningBlock(steps))
        BY <1>1, <1>2, <1>4, <2>3
      <3>2. /\ Placed(v, i) # "Given" /\ Placed(v, i) \in {"Given", "When"}
            /\ Placed(steps, m + i) # "Given" /\ Placed(steps, m + i) \in {"Given", "When"}
        BY <1>1, <1>2, <3>1, Keywords
      <3>3. QED
        BY <3>2
    <2>4. QED
      BY <2>2, <2>3
  <1>6. ASSUME NEW i \in 1..n, i # 1 PROVE Keyword(v, i) = Keyword(steps, m + i)
    <2>1. i - 1 \in 1..n /\ (m + i) - 1 = m + (i - 1) /\ m + i # 1
      BY <1>1, <1>2, <1>6
    <2>2. v[i - 1] = steps[(m + i) - 1] /\ Placed(v, i - 1) = Placed(steps, (m + i) - 1)
      BY <1>1, <1>5, <2>1
    <2>3. Previous(v, i) = Previous(steps, m + i)
      BY <1>6, <2>1, <2>2 DEF Previous
    <2>4. QED
      BY <1>5, <2>3 DEF Keyword
  <1>7. ASSUME 1 \in 1..n
        PROVE  Keyword(v, 1) = Placed(v, 1) /\ Keyword(steps, m + 1) = Placed(steps, m + 1)
    <2>1. Placed(v, 1) \in {"Given", "When"} /\ Placed(steps, m + 1) \in {"Given", "When"}
      BY <1>1, <1>2, <1>7, Keywords
    <2>2. Previous(v, 1) = "none"
      BY DEF Previous
    <2>3. Keyword(v, 1) = Placed(v, 1)
      BY <2>1, <2>2 DEF Keyword
    <2>4. CASE m = 0
      <3>1. m + 1 = 1 /\ Previous(steps, 1) = "none"
        BY <2>4 DEF Previous
      <3>2. QED
        BY <2>1, <2>3, <3>1 DEF Keyword
    <2>5. CASE m # 0
      <3>1. /\ m \in 1..m /\ m \in 1..Len(steps) /\ (m + 1) - 1 = m /\ m + 1 # 1
            /\ m <= OpeningBlock(steps) /\ ~(m + 1 <= OpeningBlock(steps))
        BY <1>1, <2>5
      <3>2. BaseKeyword(steps[m]) = "Given" /\ ~Asserts(steps[m])
        BY <1>1, <3>1 DEF Precondition
      <3>3. Placed(steps, m) = "Given"
        BY <1>1, <3>1, <3>2, Keywords
      <3>4. Previous(steps, m + 1) = "Given"
        BY <3>1, <3>2, <3>3 DEF Previous
      <3>5. Placed(steps, m + 1) # "Given"
        BY <1>1, <1>2, <1>7, <3>1, Keywords
      <3>6. QED
        BY <2>3, <3>4, <3>5 DEF Keyword
    <2>6. QED
      BY <2>4, <2>5
  <1>8. ASSUME NEW i \in 1..n, Keyword(v, i) = "Given", i # 1 PROVE FALSE
    <2>1. i \in 1..Len(v) /\ i - 1 \in 1..Len(v) /\ i - 1 <= i
      BY <1>1, <1>2, <1>8
    <2>2. Placed(v, i) = "Given" /\ Previous(v, i) # "Given"
      BY <1>8 DEF Keyword
    <2>3. i <= OpeningBlock(v)
      BY <1>1, <2>1, <2>2, Keywords
    <2>4. Ends(v, OpeningBlock(v)) /\ OpeningBlock(v) \in 0..Len(v)
      BY <1>3, TheEnd
    <2>5. i - 1 \in 1..OpeningBlock(v) /\ i - 1 <= OpeningBlock(v)
      BY <1>1, <1>2, <2>1, <2>3, <2>4
    <2>6. Precondition(v[i - 1])
      BY <2>4, <2>5 DEF Ends
    <2>7. Placed(v, i - 1) = "Given" /\ ~Asserts(v[i - 1])
      BY <1>1, <2>1, <2>5, <2>6, Keywords DEF Precondition
    <2>8. Previous(v, i) = "Given"
      BY <1>8, <2>7 DEF Previous
    <2>9. QED
      BY <2>2, <2>8
  <1>9. ASSUME NEW i \in 1..n
        PROVE  /\ Keyword(v, i) = Keyword(steps, m + i)
               /\ i = 1 => Keyword(v, i) \in {"Given", "When"}
               /\ Keyword(v, i) = "Given" => i = 1
    <2>1. CASE i = 1
      <3>1. Placed(v, 1) \in {"Given", "When"}
        BY <1>1, <2>1, Keywords
      <3>2. QED
        BY <1>5, <1>7, <2>1, <3>1
    <2>2. CASE i # 1
      BY <1>6, <1>8, <2>2
    <2>3. QED
      BY <2>1, <2>2
  <1>10. QED
    BY <1>1, <1>9 DEF m, v

\* The lines of a Background are those of steps that are preconditions.
LEMMA UpperLines ==
  ASSUME NEW steps, AreSteps(steps), NEW lift
  PROVE  /\ IsSeq(Lifted(steps, lift)) /\ Len(Lifted(steps, lift)) \in Nat
         /\ \A q \in 1..Len(Lifted(steps, lift)) : \E i \in 1..Len(steps) :
               /\ Lifted(steps, lift)[q] = StepLine(steps, i)
               /\ Keyword(steps, i) \in {"Given", "And"}
  <1> DEFINE m == Lead(steps, lift)
             u == Upper(steps, lift)
             l == Lifted(steps, lift)
  <1>1. /\ Len(steps) \in Nat /\ m \in 0..Len(steps)
        /\ AreSteps(u) /\ Len(u) = m
        /\ \A i \in 1..m : u[i] = steps[i] /\ Precondition(steps[i])
        /\ l = LayOut(u)
    BY Halves
  <1>2. \A i \in 1..m : /\ Keyword(u, i) = Keyword(steps, i)
                        /\ Keyword(steps, i) = IF i = 1 THEN "Given" ELSE "And"
    BY UpperKeywords
  <1> HIDE DEF m, u, l
  <1>3. /\ IsSeq(l) /\ Len(l) \in Nat
        /\ \A q \in 1..Len(l) : \E i \in 1..Len(u) : l[q] = StepLine(u, i) \/ Asserts(u[i])
    BY <1>1, LinesAre
  <1>4. ASSUME NEW q \in 1..Len(l)
        PROVE  \E i \in 1..Len(steps) : /\ l[q] = StepLine(steps, i)
                                        /\ Keyword(steps, i) \in {"Given", "And"}
    <2>1. PICK i \in 1..Len(u) : l[q] = StepLine(u, i) \/ Asserts(u[i])
      BY <1>3
    <2>2. i \in 1..m /\ i \in 1..Len(steps) /\ u[i] = steps[i] /\ ~Asserts(steps[i])
      BY <1>1 DEF Precondition
    <2>3. StepLine(u, i) = StepLine(steps, i)
      BY <1>2, <2>2 DEF StepLine
    <2>4. Keyword(steps, i) \in {"Given", "And"}
      BY <1>2, <2>2
    <2>5. QED
      BY <2>1, <2>2, <2>3, <2>4
  <1>5. QED
    BY <1>3, <1>4 DEF l

\* The lines of a scenario: it has some, it begins none with And, and Given stands
\* at its head only.
LEMMA LowerLines ==
  ASSUME NEW steps, AreSteps(steps), NEW lift
  PROVE  /\ IsSeq(Body(steps, lift)) /\ Len(Body(steps, lift)) \in Nat
         /\ \A q \in 1..Len(Body(steps, lift)) : \E i \in 1..Len(steps) :
               \/ Body(steps, lift)[q] = StepLine(steps, i)
               \/ Asserts(steps[i]) /\ Body(steps, lift)[q].claim # NoClaim
         /\ \A q \in 1..Len(Body(steps, lift)) : Body(steps, lift)[q].keyword = "Given" => q = 1
         /\ Len(steps) # 0 => /\ Len(Body(steps, lift)) # 0
                              /\ Body(steps, lift)[1].keyword \in {"Given", "When"}
  <1> DEFINE m == Lead(steps, lift)
             v == Lower(steps, lift)
             l == Body(steps, lift)
             b == Blocks(v)
  <1>1. /\ Len(steps) \in Nat /\ m \in 0..Len(steps) /\ (Len(steps) # 0 => m < Len(steps))
        /\ AreSteps(v) /\ Len(v) = Len(steps) - m
        /\ \A i \in 1..(Len(steps) - m) : v[i] = steps[m + i]
        /\ l = LayOut(v)
    BY Halves
  <1>2. \A i \in 1..Len(v) :
            /\ Keyword(v, i) = Keyword(steps, m + i)
            /\ i = 1 => Keyword(v, i) \in {"Given", "When"}
            /\ Keyword(v, i) = "Given" => i = 1
    BY LowerKeywords
  <1> HIDE DEF m, v, l
  <1>3. /\ IsSeq(l) /\ Len(l) \in Nat
        /\ \A q \in 1..Len(l) : \E i \in 1..Len(v) :
              \/ q = Start(b, i) + 1 /\ l[q] = StepLine(v, i)
              \/ Asserts(v[i]) /\ l[q].claim # NoClaim /\ l[q].keyword \in {"Then", "And"}
        /\ Len(v) # 0 => Len(l) # 0 /\ l[1] = StepLine(v, 1)
    BY <1>1, LinesAre
  <1>4. Start(b, 1) = 0
    BY <1>1, BlocksAre, StartsOf
  <1> HIDE DEF b
  <1>5. ASSUME NEW i \in 1..Len(v)
        PROVE  m + i \in 1..Len(steps) /\ v[i] = steps[m + i] /\ StepLine(v, i) = StepLine(steps, m + i)
    <2>1. m + i \in 1..Len(steps) /\ v[i] = steps[m + i]
      BY <1>1
    <2>2. QED
      BY <1>2, <2>1 DEF StepLine
  <1>6. ASSUME NEW q \in 1..Len(l)
        PROVE  /\ \E i \in 1..Len(steps) : \/ l[q] = StepLine(steps, i)
                                           \/ Asserts(steps[i]) /\ l[q].claim # NoClaim
               /\ l[q].keyword = "Given" => q = 1
    <2>1. PICK i \in 1..Len(v) :
              \/ q = Start(b, i) + 1 /\ l[q] = StepLine(v, i)
              \/ Asserts(v[i]) /\ l[q].claim # NoClaim /\ l[q].keyword \in {"Then", "And"}
      BY <1>3
    <2>2. CASE q = Start(b, i) + 1 /\ l[q] = StepLine(v, i)
      <3>1. l[q].keyword = Keyword(v, i)
        BY <2>2 DEF StepLine
      <3>2. ASSUME l[q].keyword = "Given" PROVE q = 1
        <4>1. i = 1
          BY <1>2, <3>1, <3>2
        <4>2. Start(b, i) = 0
          BY <1>4, <4>1
        <4>3. QED
          BY <2>2, <4>2
      <3>3. QED
        BY <1>5, <2>2, <3>2
    <2>3. CASE Asserts(v[i]) /\ l[q].claim # NoClaim /\ l[q].keyword \in {"Then", "And"}
      BY <1>5, <2>3
    <2>4. QED
      BY <2>1, <2>2, <2>3
  <1>7. ASSUME Len(steps) # 0 PROVE Len(l) # 0 /\ l[1].keyword \in {"Given", "When"}
    <2>1. Len(v) # 0 /\ 1 \in 1..Len(v)
      BY <1>1, <1>7
    <2>2. l[1].keyword = Keyword(v, 1)
      BY <1>3, <2>1 DEF StepLine
    <2>3. QED
      BY <1>2, <1>3, <2>1, <2>2
  <1>8. QED
    BY <1>3, <1>6, <1>7 DEF l

---------------------------------------------------------------------------
Scenes(doc) == {c \in DOMAIN doc : doc[c].kind = "test_case"}

\* The cases of a document, and their steps.
LEMMA CasesAre ==
  ASSUME NEW doc, IsDocument(doc)
  PROVE  /\ IsSeq(doc) /\ Len(doc) \in Nat /\ DOMAIN doc = 1..Len(doc)
         /\ \A c \in 1..Len(doc) :
               /\ IsCase(doc[c]) /\ IsSeq(doc[c].pre)
               /\ AreSteps(doc[c].steps) /\ DOMAIN doc[c].steps = 1..Len(doc[c].steps)
  <1>1. IsSeq(doc) /\ Len(doc) \in Nat /\ DOMAIN doc = 1..Len(doc)
    BY IsSeqMeans DEF IsDocument
  <1>2. ASSUME NEW c \in 1..Len(doc)
        PROVE  /\ IsCase(doc[c]) /\ IsSeq(doc[c].pre)
               /\ AreSteps(doc[c].steps) /\ DOMAIN doc[c].steps = 1..Len(doc[c].steps)
    <2>1. IsCase(doc[c])
      BY <1>1 DEF IsDocument
    <2>2. /\ IsSeq(doc[c].pre) /\ IsSeq(doc[c].steps)
          /\ \A i \in DOMAIN doc[c].steps : IsStep(doc[c].steps[i])
      BY <2>1 DEF IsCase
    <2>3. DOMAIN doc[c].steps = 1..Len(doc[c].steps)
      BY <2>2, IsSeqMeans
    <2>4. QED
      BY <2>1, <2>2, <2>3 DEF AreSteps
  <1>3. QED
    BY <1>1, <1>2

\* A scenario is a case of the document.
LEMMA ScenariosAre ==
  ASSUME NEW doc, IsDocument(doc)
  PROVE  /\ TestCases(doc) = FlattenSeq(Keeps(doc, Scenes(doc)))
         /\ IsSeq(TestCases(doc)) /\ Len(TestCases(doc)) \in Nat
         /\ \A n \in 1..Len(TestCases(doc)) :
               /\ AreSteps(TestCases(doc)[n].steps) /\ IsSeq(TestCases(doc)[n].pre)
               /\ \E c \in 1..Len(doc) : TestCases(doc)[n] = doc[c]
  <1> DEFINE K == Scenes(doc)
             f == FlattenSeq(Keeps(doc, K))
  <1>1. IsSeq(doc) /\ Len(doc) \in Nat /\ DOMAIN doc = 1..Len(doc)
    BY CasesAre
  <1>2. \A c \in 1..Len(doc) : c \in K <=> doc[c].kind = "test_case"
    BY <1>1 DEF Scenes
  <1>3. Keeps(doc, K) = [c \in DOMAIN doc |-> IF doc[c].kind = "test_case" THEN <<doc[c]>> ELSE <<>>]
    BY <1>1, <1>2 DEF Keeps
  <1>4. TestCases(doc) = f
    BY <1>3 DEF TestCases
  <1>5. /\ IsSeq(f) /\ Len(f) \in Nat
        /\ \A q \in 1..Len(f) : \E c \in 1..Len(doc) : c \in K /\ f[q] = doc[c]
    BY <1>1, KeptAre
  <1> HIDE DEF K, f
  <1>6. ASSUME NEW n \in 1..Len(f)
        PROVE  AreSteps(f[n].steps) /\ IsSeq(f[n].pre) /\ \E c \in 1..Len(doc) : f[n] = doc[c]
    <2>1. PICK c \in 1..Len(doc) : f[n] = doc[c]
      BY <1>5
    <2>2. QED
      BY <2>1, CasesAre
  <1>7. QED
    BY <1>4, <1>5, <1>6 DEF K, f

\* What the file is made of.
Top(pre) == [k \in DOMAIN pre |-> [keyword |-> IF k = 1 THEN "Given" ELSE "And", text |-> pre[k],
                                   step |-> NoStep, claim |-> NoClaim]]
BodySeq(scenarios) == [n \in DOMAIN scenarios |-> BodyLines(scenarios, n)]

\* The scenarios' own lines, one scenario after the other.
LEMMA BodiesAre ==
  ASSUME NEW doc, IsDocument(doc)
  PROVE  LET sc == TestCases(doc) IN
         /\ SeqOfSeqs(BodySeq(sc)) /\ Len(BodySeq(sc)) = Len(sc)
         /\ Bodies(sc) = FlattenSeq(BodySeq(sc))
         /\ \A n \in 1..Len(sc) : BodySeq(sc)[n] = Body(sc[n].steps, Lift(sc, n))
         /\ IsSeq(Bodies(sc)) /\ Len(Bodies(sc)) \in Nat
  <1> DEFINE sc == TestCases(doc)
             b == BodySeq(sc)
  <1>1. IsSeq(sc) /\ Len(sc) \in Nat /\ DOMAIN sc = 1..Len(sc)
    BY ScenariosAre, IsSeqMeans
  <1>0. \A n \in 1..Len(sc) : AreSteps(sc[n].steps)
    BY ScenariosAre
  <1> HIDE DEF sc
  <1>2. b = [n \in 1..Len(sc) |-> Body(sc[n].steps, Lift(sc, n))]
    BY <1>1 DEF BodySeq, BodyLines
  <1>3. \A n \in 1..Len(sc) : b[n] = Body(sc[n].steps, Lift(sc, n))
    BY <1>2
  <1>4. DOMAIN b = 1..Len(sc) /\ b = [n \in 1..Len(sc) |-> b[n]]
    BY <1>2
  <1>5. Bodies(sc) = FlattenSeq(b)
    BY DEF Bodies, BodySeq
  <1> HIDE DEF b
  <1>6. IsSeq(b) /\ Len(b) = Len(sc)
    BY <1>1, <1>4, Made
  <1>7. \A n \in 1..Len(sc) : IsSeq(b[n])
    BY <1>0, <1>3, LowerLines
  <1>8. SeqOfSeqs(b)
    BY <1>6, <1>7 DEF SeqOfSeqs
  <1>9. IsSeq(Bodies(sc)) /\ Len(Bodies(sc)) \in Nat
    BY <1>5, <1>8, StartsOf, IsSeqMeans
  <1>10. QED
    BY <1>3, <1>5, <1>6, <1>8, <1>9 DEF b, sc

\* The inherited lines are those of no step.
LEMMA TopIs ==
  ASSUME NEW pre, IsSeq(pre)
  PROVE  /\ IsSeq(Top(pre)) /\ Len(Top(pre)) = Len(pre)
         /\ \A k \in 1..Len(pre) : /\ Top(pre)[k].step = NoStep
                                   /\ Top(pre)[k].keyword \in {"Given", "And"}
  <1> DEFINE t == Top(pre)
  <1>1. Len(pre) \in Nat /\ DOMAIN pre = 1..Len(pre)
    BY IsSeqMeans
  <1>2. t = [k \in 1..Len(pre) |-> [keyword |-> IF k = 1 THEN "Given" ELSE "And", text |-> pre[k],
                                    step |-> NoStep, claim |-> NoClaim]]
    BY <1>1 DEF Top
  <1>3. \A k \in 1..Len(pre) : t[k].step = NoStep /\ t[k].keyword \in {"Given", "And"}
    BY <1>2
  <1>4. DOMAIN t = 1..Len(pre) /\ t = [k \in 1..Len(pre) |-> t[k]]
    BY <1>2
  <1> HIDE DEF t
  <1>5. QED
    BY <1>1, <1>3, <1>4, Made DEF t

\* A lifted line goes on with the block, and only the first one.
LEMMA ContinuedIs ==
  ASSUME NEW lines, IsSeq(lines), NEW pre
  PROVE  /\ IsSeq(Continued(lines, pre)) /\ Len(Continued(lines, pre)) = Len(lines)
         /\ \A k \in 1..Len(lines) :
               Continued(lines, pre)[k] =
                  IF k = 1 /\ pre # <<>> /\ lines[k].keyword = "Given"
                  THEN [lines[k] EXCEPT !.keyword = "And"] ELSE lines[k]
  <1> DEFINE t == Continued(lines, pre)
  <1>1. Len(lines) \in Nat /\ DOMAIN lines = 1..Len(lines)
    BY IsSeqMeans
  <1>2. t = [k \in 1..Len(lines) |-> IF k = 1 /\ pre # <<>> /\ lines[k].keyword = "Given"
                                     THEN [lines[k] EXCEPT !.keyword = "And"] ELSE lines[k]]
    BY <1>1 DEF Continued
  <1>3. \A k \in 1..Len(lines) : t[k] = IF k = 1 /\ pre # <<>> /\ lines[k].keyword = "Given"
                                        THEN [lines[k] EXCEPT !.keyword = "And"] ELSE lines[k]
    BY <1>2
  <1>4. DOMAIN t = 1..Len(lines) /\ t = [k \in 1..Len(lines) |-> t[k]]
    BY <1>2
  <1> HIDE DEF t
  <1>5. QED
    BY <1>1, <1>3, <1>4, Made DEF t

\* The file is the inherited lines, the lifted ones and the bodies.
LEMMA FileIs ==
  ASSUME NEW doc, IsDocument(doc)
  PROVE  LET sc  == TestCases(doc)
             pre == Inherited(sc)
             lf  == LiftedLines(sc)
             bd  == Bodies(sc)
             fl  == FeatureLines(doc)
         IN
         /\ IsSeq(pre) /\ IsSeq(lf) /\ IsSeq(bd) /\ IsSeq(Background(sc)) /\ IsSeq(fl)
         /\ Len(pre) \in Nat /\ Len(lf) \in Nat /\ Len(bd) \in Nat
         /\ Prefix(doc) = Len(pre) /\ (pre = <<>> <=> Len(pre) = 0)
         /\ Len(Background(sc)) = Len(pre) + Len(lf)
         /\ \A k \in 1..Len(pre) : Background(sc)[k] = Top(pre)[k]
         /\ \A k \in 1..Len(lf) : Background(sc)[Len(pre) + k] = Continued(lf, pre)[k]
         /\ Len(fl) = (Len(pre) + Len(lf)) + Len(bd)
         /\ \A k \in 1..(Len(pre) + Len(lf)) : fl[k] = Background(sc)[k]
         /\ \A k \in 1..Len(bd) : fl[(Len(pre) + Len(lf)) + k] = bd[k]
         /\ sc # <<>> => lf = Lifted(sc[1].steps, Lift(sc, 1)) /\ 1 \in 1..Len(sc)
         /\ sc = <<>> => lf = <<>>
  <1> DEFINE sc  == TestCases(doc)
             pre == Inherited(sc)
             lf  == LiftedLines(sc)
             bd  == Bodies(sc)
             bg  == Background(sc)
             fl  == FeatureLines(doc)
             tp  == Top(pre)
             ct  == Continued(lf, pre)
  <1>1. /\ IsSeq(sc) /\ Len(sc) \in Nat
        /\ \A n \in 1..Len(sc) : AreSteps(sc[n].steps) /\ IsSeq(sc[n].pre)
    BY ScenariosAre
  <1>2. IsSeq(bd) /\ Len(bd) \in Nat
    BY BodiesAre
  <1>3. bg = tp \o ct
    BY DEF Background, Top
  <1>4. fl = bg \o bd
    BY DEF FeatureLines
  <1>5. Prefix(doc) = IF bg # <<>> THEN Len(pre) ELSE 0
    BY DEF Prefix
  <1> HIDE DEF sc, bg, fl, tp, ct
  <1>6. sc # <<>> => 1 \in 1..Len(sc)
    BY <1>1, IsSeqMeans
  <1>7. IsSeq(pre)
    <2>1. CASE sc = <<>>
      BY <2>1, None DEF Inherited
    <2>2. CASE sc # <<>>
      BY <1>1, <1>6, <2>2 DEF Inherited
    <2>3. QED
      BY <2>1, <2>2
  <1>8. IsSeq(lf)
    <2>1. CASE sc = <<>>
      BY <2>1, None DEF LiftedLines
    <2>2. CASE sc # <<>>
      BY <1>1, <1>6, <2>2, UpperLines DEF LiftedLines
    <2>3. QED
      BY <2>1, <2>2
  <1>9. /\ sc # <<>> => lf = Lifted(sc[1].steps, Lift(sc, 1)) /\ 1 \in 1..Len(sc)
        /\ sc = <<>> => lf = <<>>
    BY <1>6 DEF LiftedLines
  <1> HIDE DEF pre, lf, bd
  <1>10. Len(pre) \in Nat /\ Len(lf) \in Nat /\ (pre = <<>> <=> Len(pre) = 0)
    BY <1>7, <1>8, IsSeqMeans
  <1>11. /\ IsSeq(tp) /\ Len(tp) = Len(pre) /\ IsSeq(ct) /\ Len(ct) = Len(lf)
    BY <1>7, <1>8, TopIs, ContinuedIs DEF tp, ct
  <1>12. /\ IsSeq(bg) /\ Len(bg) = Len(pre) + Len(lf)
         /\ \A k \in 1..Len(pre) : bg[k] = tp[k]
         /\ \A k \in 1..Len(lf) : bg[Len(pre) + k] = ct[k]
    <2>1. /\ IsSeq(tp \o ct) /\ Len(tp \o ct) = Len(tp) + Len(ct)
          /\ \A k \in 1..Len(tp) : (tp \o ct)[k] = tp[k]
          /\ \A k \in 1..Len(ct) : (tp \o ct)[Len(tp) + k] = ct[k]
      BY <1>11, CatOf
    <2>2. QED
      BY <1>3, <1>11, <2>1, Zenon
  <1>13. /\ IsSeq(fl) /\ Len(fl) = (Len(pre) + Len(lf)) + Len(bd)
         /\ \A k \in 1..(Len(pre) + Len(lf)) : fl[k] = bg[k]
         /\ \A k \in 1..Len(bd) : fl[(Len(pre) + Len(lf)) + k] = bd[k]
    <2>1. /\ IsSeq(bg \o bd) /\ Len(bg \o bd) = Len(bg) + Len(bd)
          /\ \A k \in 1..Len(bg) : (bg \o bd)[k] = bg[k]
          /\ \A k \in 1..Len(bd) : (bg \o bd)[Len(bg) + k] = bd[k]
      BY <1>2, <1>12, CatOf
    <2>2. QED
      BY <1>4, <1>12, <2>1, Zenon
  <1>14. Prefix(doc) = Len(pre)
    <2>1. bg = <<>> => Len(bg) = 0
      BY None
    <2>2. QED
      BY <1>5, <1>10, <1>12, <2>1
  <1>15. QED
    BY <1>2, <1>7, <1>8, <1>9, <1>10, <1>12, <1>13, <1>14 DEF sc, pre, lf, bd, bg, fl, tp, ct

\* What the edited text is replayed on are the lifted lines and the bodies.
LEMMA TargetsAre ==
  ASSUME NEW doc, IsDocument(doc)
  PROVE  LET sc == TestCases(doc) IN
         /\ sc # <<>> => Targets(doc) = LiftedLines(sc) \o Bodies(sc)
         /\ sc = <<>> => Targets(doc) = <<>> /\ Bodies(sc) = <<>>
  <1> DEFINE sc == TestCases(doc)
             a == LiftedLines(sc)
             b == BodySeq(sc)
             tt == [n \in DOMAIN sc |->
                      (IF n = 1 THEN Lifted(sc[1].steps, EditLift(sc, 1)) ELSE <<>>)
                      \o Body(sc[n].steps, EditLift(sc, n))]
  <1>1. /\ IsSeq(sc) /\ Len(sc) \in Nat /\ DOMAIN sc = 1..Len(sc) /\ (Len(sc) = 0 <=> sc = <<>>)
        /\ \A n \in 1..Len(sc) : AreSteps(sc[n].steps)
    BY ScenariosAre, IsSeqMeans
  <1>2. /\ SeqOfSeqs(b) /\ Len(b) = Len(sc) /\ Bodies(sc) = FlattenSeq(b)
        /\ \A n \in 1..Len(sc) : b[n] = Body(sc[n].steps, Lift(sc, n))
    BY BodiesAre
  <1>3. IsSeq(a) /\ (sc # <<>> => a = Lifted(sc[1].steps, Lift(sc, 1)))
    BY FileIs
  <1>4. Targets(doc) = FlattenSeq(tt)
    BY DEF Targets
  <1> HIDE DEF sc
  <1>5. tt = [n \in 1..Len(sc) |-> (IF n = 1 THEN Lifted(sc[1].steps, Lift(sc, 1)) ELSE <<>>)
                                   \o Body(sc[n].steps, Lift(sc, n))]
    BY <1>1 DEF EditLift, Lift
  <1>6. \A n \in 1..Len(sc) : tt[n] = (IF n = 1 THEN Lifted(sc[1].steps, Lift(sc, 1)) ELSE <<>>)
                                      \o Body(sc[n].steps, Lift(sc, n))
    BY <1>5
  <1>7. DOMAIN tt = 1..Len(sc) /\ tt = [n \in 1..Len(sc) |-> tt[n]]
    BY <1>5
  <1> HIDE DEF a, b, tt
  <1>8. IsSeq(tt) /\ Len(tt) = Len(sc)
    BY <1>1, <1>7, Made
  <1>9. ASSUME sc = <<>> PROVE Targets(doc) = <<>> /\ Bodies(sc) = <<>>
    <2>1. Len(tt) = 0 /\ Len(b) = 0
      BY <1>1, <1>2, <1>8, <1>9
    <2>2. tt = <<>> /\ b = <<>>
      BY <1>2, <1>8, <2>1, IsSeqMeans DEF SeqOfSeqs
    <2>3. FlattenSeq(tt) = tt /\ FlattenSeq(b) = b
      BY <2>1 DEF FlattenSeq
    <2>4. QED
      BY <1>2, <1>4, <2>2, <2>3
  <1>10. ASSUME sc # <<>> PROVE Targets(doc) = a \o Bodies(sc)
    <2>1. Len(sc) # 0 /\ 1 \in 1..Len(sc)
      BY <1>1, <1>10
    <2>2. tt[1] = a \o b[1]
      <3>1. tt[1] = Lifted(sc[1].steps, Lift(sc, 1)) \o Body(sc[1].steps, Lift(sc, 1))
        BY <1>6, <2>1
      <3>2. b[1] = Body(sc[1].steps, Lift(sc, 1)) /\ a = Lifted(sc[1].steps, Lift(sc, 1))
        BY <1>2, <1>3, <1>10, <2>1
      <3>3. QED
        BY <3>1, <3>2, Zenon
    <2>3. ASSUME NEW n \in 2..Len(b) PROVE tt[n] = b[n]
      <3>1. n \in 1..Len(sc) /\ n # 1
        BY <1>1, <1>2
      <3>2. tt[n] = <<>> \o b[n]
        <4>1. b[n] = Body(sc[n].steps, Lift(sc, n))
          BY <1>2, <3>1
        <4>2. tt[n] = <<>> \o Body(sc[n].steps, Lift(sc, n))
          BY <1>6, <3>1
        <4>3. QED
          BY <4>1, <4>2, Zenon
      <3>3. IsSeq(b[n])
        BY <1>2, <3>1 DEF SeqOfSeqs
      <3>4. <<>> \o b[n] = b[n]
        BY <3>3, ConcatEmptySeq DEF IsSeq
      <3>5. QED
        BY <3>2, <3>4, Zenon
    <2>4. SeqOfSeqs(tt)
      <3>1. ASSUME NEW n \in 1..Len(tt) PROVE IsSeq(tt[n])
        <4>1. IsSeq(b[n]) /\ IsSeq(b[1])
          BY <1>2, <1>8, <2>1 DEF SeqOfSeqs
        <4>2. IsSeq(a \o b[1])
          BY <1>3, <4>1, CatOf
        <4>3. CASE n = 1
          BY <2>2, <4>2, <4>3, Zenon
        <4>4. CASE n # 1
          <5>1. n \in 2..Len(b)
            BY <1>1, <1>2, <1>8, <4>4
          <5>2. QED
            BY <2>3, <4>1, <5>1
        <4>5. QED
          BY <4>3, <4>4
      <3>2. QED
        BY <1>8, <3>1 DEF SeqOfSeqs
    <2>5. FlattenSeq(tt) = a \o FlattenSeq(b)
      <3>1. Len(b) = Len(tt) /\ Len(b) # 0
        BY <1>2, <1>8, <2>1
      <3>2. QED
        BY <1>2, <1>3, <2>2, <2>3, <2>4, <3>1, FlatBehind
    <2>6. QED
      BY <1>2, <1>4, <2>5, Zenon
  <1>11. QED
    BY <1>9, <1>10 DEF sc, a

\* The editable lines are those of the document.
LEMMA TheFileLinesUp ==
  ASSUME IsDocument(cases)
  PROVE  FileLinesUp
  <1> DEFINE sc  == TestCases(cases)
             pre == Inherited(sc)
             lf  == LiftedLines(sc)
             bd  == Bodies(sc)
             bg  == Background(sc)
             fl  == FeatureLines(cases)
             tg  == Targets(cases)
  <1>1. /\ IsSeq(pre) /\ IsSeq(lf) /\ IsSeq(bd)
        /\ Len(pre) \in Nat /\ Len(lf) \in Nat /\ Len(bd) \in Nat
        /\ Prefix(cases) = Len(pre) /\ (pre = <<>> <=> Len(pre) = 0)
        /\ \A k \in 1..Len(lf) : bg[Len(pre) + k] = Continued(lf, pre)[k]
        /\ IsSeq(fl) /\ Len(fl) = (Len(pre) + Len(lf)) + Len(bd)
        /\ \A k \in 1..(Len(pre) + Len(lf)) : fl[k] = bg[k]
        /\ \A k \in 1..Len(bd) : fl[(Len(pre) + Len(lf)) + k] = bd[k]
        /\ sc # <<>> => lf = Lifted(sc[1].steps, Lift(sc, 1)) /\ 1 \in 1..Len(sc)
        /\ sc = <<>> => lf = <<>>
    BY FileIs
  <1>2. /\ sc # <<>> => tg = lf \o bd
        /\ sc = <<>> => tg = <<>> /\ bd = <<>>
    BY TargetsAre
  <1>3. \A n \in 1..Len(sc) : AreSteps(sc[n].steps)
    BY ScenariosAre
  <1> HIDE DEF sc, pre, lf, bd, bg, fl, tg
  <1>4. /\ IsSeq(tg) /\ Len(tg) = Len(lf) + Len(bd)
        /\ \A k \in 1..Len(lf) : tg[k] = lf[k]
        /\ \A k \in 1..Len(bd) : tg[Len(lf) + k] = bd[k]
    <2>1. CASE sc = <<>>
      BY <1>1, <1>2, <2>1, None
    <2>2. CASE sc # <<>>
      <3>1. /\ IsSeq(lf \o bd) /\ Len(lf \o bd) = Len(lf) + Len(bd)
            /\ \A k \in 1..Len(lf) : (lf \o bd)[k] = lf[k]
            /\ \A k \in 1..Len(bd) : (lf \o bd)[Len(lf) + k] = bd[k]
        BY <1>1, CatOf
      <3>2. QED
        BY <1>2, <2>2, <3>1, Zenon
    <2>3. QED
      BY <2>1, <2>2
  <1>5. DOMAIN tg = 1..Len(tg)
    BY <1>4, IsSeqMeans
  <1>6. Len(fl) = Prefix(cases) + Len(tg)
    BY <1>1, <1>4
  <1>7. ASSUME NEW k \in 1..Len(tg)
        PROVE  /\ fl[k + Prefix(cases)].text = tg[k].text
               /\ fl[k + Prefix(cases)].step = tg[k].step
               /\ fl[k + Prefix(cases)].claim = tg[k].claim
    <2>1. CASE k \in 1..Len(lf)
      <3>1. k + Prefix(cases) = Len(pre) + k /\ Len(pre) + k \in 1..(Len(pre) + Len(lf))
        BY <1>1, <2>1
      <3>2. fl[k + Prefix(cases)] = Continued(lf, pre)[k] /\ tg[k] = lf[k]
        BY <1>1, <1>4, <2>1, <3>1
      <3>3. Continued(lf, pre)[k] = lf[k] \/ Continued(lf, pre)[k] = [lf[k] EXCEPT !.keyword = "And"]
        <4>1. IsSeq(lf)
          BY <1>1
        <4>2. Continued(lf, pre)[k] = IF k = 1 /\ pre # <<>> /\ lf[k].keyword = "Given"
                                      THEN [lf[k] EXCEPT !.keyword = "And"] ELSE lf[k]
          BY <2>1, <4>1, ContinuedIs
        <4>3. QED
          BY <4>2
      <3>4. \E step, i : lf[k] = StepLine(step, i)
        <4>1. sc # <<>>
          <5>1. lf = <<>> => Len(lf) = 0
            BY None
          <5>2. QED
            BY <1>1, <2>1, <5>1
        <4>2. lf = Lifted(sc[1].steps, Lift(sc, 1)) /\ AreSteps(sc[1].steps)
          BY <1>1, <1>3, <4>1
        <4>3. \E i \in 1..Len(sc[1].steps) : lf[k] = StepLine(sc[1].steps, i)
          BY <2>1, <4>2, UpperLines
        <4>4. QED
          BY <4>3
      <3>5. PICK step, i : lf[k] = StepLine(step, i)
        BY <3>4
      <3>6. /\ [lf[k] EXCEPT !.keyword = "And"].text = lf[k].text
            /\ [lf[k] EXCEPT !.keyword = "And"].step = lf[k].step
            /\ [lf[k] EXCEPT !.keyword = "And"].claim = lf[k].claim
        BY <3>5 DEF StepLine
      <3>7. QED
        BY <3>2, <3>3, <3>6
    <2>2. CASE k \notin 1..Len(lf)
      <3>1. /\ k - Len(lf) \in 1..Len(bd) /\ Len(lf) + (k - Len(lf)) = k
            /\ k + Prefix(cases) = (Len(pre) + Len(lf)) + (k - Len(lf))
        BY <1>1, <1>4, <2>2
      <3>2. fl[k + Prefix(cases)] = bd[k - Len(lf)]
        <4>1. fl[(Len(pre) + Len(lf)) + (k - Len(lf))] = bd[k - Len(lf)]
          BY <1>1, <3>1
        <4>2. QED
          BY <3>1, <4>1
      <3>3. tg[k] = bd[k - Len(lf)]
        BY <1>4, <3>1
      <3>4. QED
        BY <3>2, <3>3
    <2>3. QED
      BY <2>1, <2>2
  <1>8. QED
    BY <1>5, <1>6, <1>7 DEF fl, tg, FileLinesUp

\* The file is a well-formed feature.
LEMMA TheScenariosAreWellShaped ==
  ASSUME IsDocument(cases)
  PROVE  ScenariosAreWellShaped
  <1> DEFINE sc  == TestCases(cases)
             pre == Inherited(sc)
             lf  == LiftedLines(sc)
             bg  == Background(sc)
  <1>1. /\ IsSeq(pre) /\ IsSeq(lf) /\ IsSeq(bg)
        /\ Len(pre) \in Nat /\ Len(lf) \in Nat
        /\ Len(bg) = Len(pre) + Len(lf)
        /\ \A k \in 1..Len(pre) : bg[k] = Top(pre)[k]
        /\ \A k \in 1..Len(lf) : bg[Len(pre) + k] = Continued(lf, pre)[k]
        /\ sc # <<>> => lf = Lifted(sc[1].steps, Lift(sc, 1)) /\ 1 \in 1..Len(sc)
        /\ sc = <<>> => lf = <<>>
    BY FileIs
  <1>2. /\ IsSeq(sc) /\ DOMAIN sc = 1..Len(sc)
        /\ \A n \in 1..Len(sc) : AreSteps(sc[n].steps) /\ \E c \in 1..Len(cases) : sc[n] = cases[c]
    BY ScenariosAre, IsSeqMeans
  <1> HIDE DEF sc, pre, lf, bg
  <1>3. ASSUME NEW k \in 1..Len(bg) PROVE bg[k].keyword \in {"Given", "And"}
    <2>1. CASE k \in 1..Len(pre)
      BY <1>1, <2>1, TopIs
    <2>2. CASE k \notin 1..Len(pre)
      <3> DEFINE j == k - Len(pre)
      <3>1. j \in 1..Len(lf) /\ Len(pre) + j = k
        BY <1>1, <2>2
      <3> HIDE DEF j
      <3>2. bg[k] = Continued(lf, pre)[j]
        BY <1>1, <3>1
      <3>3. Continued(lf, pre)[j] = lf[j] \/ Continued(lf, pre)[j] = [lf[j] EXCEPT !.keyword = "And"]
        BY <1>1, <3>1, ContinuedIs
      <3>4. sc # <<>>
        <4>1. lf = <<>> => Len(lf) = 0
          BY None
        <4>2. QED
          BY <1>1, <3>1, <4>1
      <3>5. PICK i \in 1..Len(sc[1].steps) : /\ lf[j] = StepLine(sc[1].steps, i)
                                             /\ Keyword(sc[1].steps, i) \in {"Given", "And"}
        <4>1. lf = Lifted(sc[1].steps, Lift(sc, 1)) /\ AreSteps(sc[1].steps)
          BY <1>1, <1>2, <3>4
        <4>2. QED
          BY <3>1, <4>1, UpperLines
      <3>6. lf[j].keyword \in {"Given", "And"} /\ [lf[j] EXCEPT !.keyword = "And"].keyword = "And"
        BY <3>5 DEF StepLine
      <3>7. QED
        BY <3>2, <3>3, <3>6
    <2>3. QED
      BY <2>1, <2>2
  <1>4. ASSUME NEW n \in 1..Len(sc)
        PROVE  LET body == BodyLines(sc, n) IN
               /\ sc[n].steps # <<>> => body # <<>> /\ body[1].keyword \in {"Given", "When"}
               /\ \A k \in DOMAIN body : body[k].keyword = "Given" => k = 1
    <2> DEFINE steps == sc[n].steps
               body == Body(steps, Lift(sc, n))
    <2>1. AreSteps(steps) /\ (steps # <<>> => Len(steps) # 0)
      BY <1>2, IsSeqMeans DEF AreSteps
    <2>2. BodyLines(sc, n) = body
      BY DEF BodyLines
    <2> HIDE DEF steps
    <2>3. /\ IsSeq(body) /\ \A q \in 1..Len(body) : body[q].keyword = "Given" => q = 1
          /\ Len(steps) # 0 => Len(body) # 0 /\ body[1].keyword \in {"Given", "When"}
      BY <2>1, LowerLines
    <2> HIDE DEF body
    <2>4. DOMAIN body = 1..Len(body) /\ (Len(body) # 0 => body # <<>>)
      BY <2>3, IsSeqMeans
    <2>5. QED
      BY <2>1, <2>2, <2>3, <2>4 DEF steps
  <1>5. DOMAIN bg = 1..Len(bg)
    BY <1>1, IsSeqMeans
  <1>6. QED
    BY <1>2, <1>3, <1>4, <1>5 DEF sc, bg, ScenariosAreWellShaped

\* The stored keywords are those of the file.
LEMMA TheKeywordsAgree ==
  ASSUME IsDocument(cases), Resync(cases) = cases
  PROVE  KeywordsAgree
  <1> DEFINE sc  == TestCases(cases)
             pre == Inherited(sc)
             lf  == LiftedLines(sc)
             bd  == Bodies(sc)
             bg  == Background(sc)
             fl  == FeatureLines(cases)
             b   == BodySeq(sc)
  <1>1. /\ IsSeq(pre) /\ IsSeq(lf) /\ IsSeq(bd) /\ IsSeq(fl)
        /\ Len(pre) \in Nat /\ Len(lf) \in Nat /\ Len(bd) \in Nat
        /\ Prefix(cases) = Len(pre) /\ (pre = <<>> <=> Len(pre) = 0)
        /\ \A k \in 1..Len(pre) : bg[k] = Top(pre)[k]
        /\ \A k \in 1..Len(lf) : bg[Len(pre) + k] = Continued(lf, pre)[k]
        /\ Len(fl) = (Len(pre) + Len(lf)) + Len(bd)
        /\ \A k \in 1..(Len(pre) + Len(lf)) : fl[k] = bg[k]
        /\ \A k \in 1..Len(bd) : fl[(Len(pre) + Len(lf)) + k] = bd[k]
        /\ sc # <<>> => lf = Lifted(sc[1].steps, Lift(sc, 1)) /\ 1 \in 1..Len(sc)
        /\ sc = <<>> => lf = <<>>
    BY FileIs
  <1>2. \A n \in 1..Len(sc) : AreSteps(sc[n].steps) /\ \E c \in 1..Len(cases) : sc[n] = cases[c]
    BY ScenariosAre
  <1>3. /\ SeqOfSeqs(b) /\ Len(b) = Len(sc) /\ bd = FlattenSeq(b)
        /\ \A n \in 1..Len(sc) : b[n] = Body(sc[n].steps, Lift(sc, n))
    BY BodiesAre
  <1>4. /\ DOMAIN cases = 1..Len(cases)
        /\ \A c \in 1..Len(cases) : AreSteps(cases[c].steps) /\ DOMAIN cases[c].steps = 1..Len(cases[c].steps)
    BY CasesAre
  <1>5. ASSUME NEW c \in 1..Len(cases), NEW i \in 1..Len(cases[c].steps)
        PROVE  cases[c].steps[i].keyword = Keyword(cases[c].steps, i)
    <2>1. cases[c] = [cases[c] EXCEPT !.steps = Sync(cases[c].steps)]
      BY <1>4 DEF Resync
    <2>2. IsCase(cases[c])
      BY CasesAre
    <2>3. cases[c].steps = Sync(cases[c].steps)
      BY <2>1, <2>2 DEF IsCase
    <2>4. Sync(cases[c].steps)[i] = Rekeyed(cases[c].steps[i], Keyword(cases[c].steps, i))
      BY <1>4, Synced
    <2>5. Rekeyed(cases[c].steps[i], Keyword(cases[c].steps, i)).keyword = Keyword(cases[c].steps, i)
      BY <1>4, StepWithKeyword DEF AreSteps
    <2>6. QED
      BY <2>3, <2>4, <2>5
  \* Where a line comes from.
  <1>6. ASSUME NEW n \in 1..Len(sc), NEW j \in 1..Len(sc[n].steps)
        PROVE  \E c \in DOMAIN cases : \E i \in DOMAIN cases[c].steps :
                  cases[c].steps[i] = sc[n].steps[j] /\ cases[c].steps[i].keyword = Keyword(sc[n].steps, j)
    <2>1. PICK c \in 1..Len(cases) : sc[n] = cases[c]
      BY <1>2
    <2>2. c \in DOMAIN cases /\ j \in DOMAIN cases[c].steps /\ j \in 1..Len(cases[c].steps)
      BY <1>4, <2>1
    <2>3. cases[c].steps[j].keyword = Keyword(cases[c].steps, j)
      BY <1>5, <2>2
    <2>4. QED
      BY <2>1, <2>2, <2>3
  <1> HIDE DEF sc, pre, lf, bd, bg, fl, b
  <1> DEFINE Own(q) == \E c \in DOMAIN cases : \E i \in DOMAIN cases[c].steps :
                          /\ fl[q].step = cases[c].steps[i].id /\ fl[q].text = cases[c].steps[i].text
                          /\ fl[q].keyword = cases[c].steps[i].keyword
  <1>7. SUFFICES ASSUME NEW q \in DOMAIN fl, fl[q].step # NoStep, fl[q].claim = NoClaim,
                        ~(q = Prefix(cases) + 1 /\ Prefix(cases) > 0 /\ Len(lf) > 0)
                 PROVE  Own(q)
    BY DEF KeywordsAgree, fl, lf, sc
  \* The line of a step of a scenario.
  <1>8. ASSUME NEW n \in 1..Len(sc), NEW k \in 1..Len(sc[n].steps), fl[q] = StepLine(sc[n].steps, k)
        PROVE  Own(q)
    <2>1. /\ fl[q].step = sc[n].steps[k].id /\ fl[q].text = sc[n].steps[k].text
          /\ fl[q].keyword = Keyword(sc[n].steps, k)
      BY <1>8 DEF StepLine
    <2>2. QED
      BY <1>6, <2>1
  <1> HIDE DEF Own
  <1>0. q \in 1..Len(fl)
    BY <1>1, IsSeqMeans
  <1>9. CASE q \in 1..Len(pre)
    <2>1. fl[q].step = NoStep
      <3>1. q \in 1..(Len(pre) + Len(lf))
        BY <1>1, <1>9
      <3>2. fl[q] = Top(pre)[q]
        BY <1>1, <1>9, <3>1
      <3>3. QED
        BY <1>1, <1>9, <3>2, TopIs
    <2>2. QED
      BY <1>7, <2>1
  <1>10. CASE q \notin 1..Len(pre) /\ q \in 1..(Len(pre) + Len(lf))
    <2> DEFINE j == q - Len(pre)
    <2>1. j \in 1..Len(lf) /\ Len(pre) + j = q
      BY <1>0, <1>1, <1>10
    <2> HIDE DEF j
    <2>2. fl[q] = Continued(lf, pre)[j]
      BY <1>1, <1>10, <2>1
    <2>3. Continued(lf, pre)[j] = lf[j]
      <3>1. ~(j = 1 /\ pre # <<>>)
        BY <1>1, <1>7, <2>1
      <3>2. IsSeq(lf)
        BY <1>1
      <3>3. Continued(lf, pre)[j] = IF j = 1 /\ pre # <<>> /\ lf[j].keyword = "Given"
                                    THEN [lf[j] EXCEPT !.keyword = "And"] ELSE lf[j]
        BY <2>1, <3>2, ContinuedIs
      <3>4. QED
        BY <3>1, <3>3
    <2>4. sc # <<>>
      <3>1. lf = <<>> => Len(lf) = 0
        BY None
      <3>2. QED
        BY <1>1, <2>1, <3>1
    <2>5. PICK k \in 1..Len(sc[1].steps) : lf[j] = StepLine(sc[1].steps, k)
      <3>1. lf = Lifted(sc[1].steps, Lift(sc, 1)) /\ AreSteps(sc[1].steps)
        BY <1>1, <1>2, <2>4
      <3>2. QED
        BY <2>1, <3>1, UpperLines
    <2>6. fl[q] = StepLine(sc[1].steps, k) /\ 1 \in 1..Len(sc)
      BY <1>1, <2>2, <2>3, <2>4, <2>5
    <2>7. QED
      BY <1>8, <2>6
  <1>11. CASE q \notin 1..(Len(pre) + Len(lf))
    <2> DEFINE j == q - (Len(pre) + Len(lf))
    <2>1. j \in 1..Len(bd) /\ (Len(pre) + Len(lf)) + j = q
      BY <1>0, <1>1, <1>11
    <2> HIDE DEF j
    <2>2. fl[q] = bd[j]
      BY <1>1, <2>1
    <2>3. PICK n \in 1..Len(b) : \E p \in 1..Len(b[n]) : j = Start(b, n) + p
      BY <1>3, <2>1, FlatFrom
    <2>4. PICK p \in 1..Len(b[n]) : j = Start(b, n) + p
      BY <2>3
    <2>5. bd[j] = b[n][p]
      BY <1>3, <2>4, FlatPlaces
    <2>6. n \in 1..Len(sc) /\ AreSteps(sc[n].steps) /\ b[n] = Body(sc[n].steps, Lift(sc, n))
      BY <1>2, <1>3
    <2>7. PICK k \in 1..Len(sc[n].steps) : \/ b[n][p] = StepLine(sc[n].steps, k)
                                           \/ b[n][p].claim # NoClaim
      <3>1. p \in 1..Len(Body(sc[n].steps, Lift(sc, n)))
        BY <2>6
      <3>2. PICK k \in 1..Len(sc[n].steps) :
                \/ Body(sc[n].steps, Lift(sc, n))[p] = StepLine(sc[n].steps, k)
                \/ /\ Asserts(sc[n].steps[k])
                   /\ Body(sc[n].steps, Lift(sc, n))[p].claim # NoClaim
        BY <2>6, <3>1, LowerLines
      <3>3. QED
        BY <2>6, <3>2
    <2>8. fl[q] = StepLine(sc[n].steps, k)
      BY <1>7, <2>2, <2>5, <2>7
    <2>9. QED
      BY <1>8, <2>6, <2>8
  <1>12. QED
    BY <1>9, <1>10, <1>11

\* Laying the keywords out again changes keywords only, and a second time
\* nothing.
LEMMA Resynced ==
  ASSUME NEW doc, IsDocument(doc)
  PROVE  LET new == Resync(doc) IN
         /\ IsDocument(new) /\ Resync(new) = new
         /\ Len(new) = Len(doc) /\ DOMAIN new = DOMAIN doc
         /\ \A c \in 1..Len(doc) :
               /\ new[c].kind = doc[c].kind /\ new[c].title = doc[c].title /\ new[c].pre = doc[c].pre
               /\ new[c].steps = Sync(doc[c].steps)
               /\ Len(new[c].steps) = Len(doc[c].steps)
               /\ DOMAIN new[c].steps = DOMAIN doc[c].steps
               /\ \A i \in 1..Len(doc[c].steps) :
                     new[c].steps[i] = Rekeyed(doc[c].steps[i], Keyword(doc[c].steps, i))
  <1> DEFINE new == Resync(doc)
  <1>1. /\ IsSeq(doc) /\ Len(doc) \in Nat /\ DOMAIN doc = 1..Len(doc)
        /\ \A c \in 1..Len(doc) :
              /\ IsCase(doc[c]) /\ IsSeq(doc[c].pre)
              /\ AreSteps(doc[c].steps) /\ DOMAIN doc[c].steps = 1..Len(doc[c].steps)
    BY CasesAre
  <1>2. new = [c \in 1..Len(doc) |-> [doc[c] EXCEPT !.steps = Sync(doc[c].steps)]]
    BY <1>1 DEF Resync
  <1>3. \A c \in 1..Len(doc) : new[c] = [doc[c] EXCEPT !.steps = Sync(doc[c].steps)]
    BY <1>2
  <1>4. DOMAIN new = 1..Len(doc) /\ new = [c \in 1..Len(doc) |-> new[c]]
    BY <1>2
  <1> HIDE DEF new
  <1>5. IsSeq(new) /\ Len(new) = Len(doc)
    BY <1>1, <1>4, Made
  <1>6. ASSUME NEW c \in 1..Len(doc)
        PROVE  /\ new[c].kind = doc[c].kind /\ new[c].title = doc[c].title
               /\ new[c].pre = doc[c].pre /\ new[c].steps = Sync(doc[c].steps)
               /\ new[c] = [kind |-> new[c].kind, title |-> new[c].title, pre |-> new[c].pre,
                            steps |-> new[c].steps]
    <2>1. doc[c] = [kind |-> doc[c].kind, title |-> doc[c].title, pre |-> doc[c].pre,
                    steps |-> doc[c].steps]
      BY <1>1 DEF IsCase
    <2>2. new[c] = [kind |-> doc[c].kind, title |-> doc[c].title, pre |-> doc[c].pre,
                    steps |-> Sync(doc[c].steps)]
      BY <1>3, <2>1
    <2>3. QED
      BY <2>2
  <1>7. ASSUME NEW c \in 1..Len(doc)
        PROVE  /\ AreSteps(new[c].steps) /\ Len(new[c].steps) = Len(doc[c].steps)
               /\ DOMAIN new[c].steps = DOMAIN doc[c].steps
               /\ Sync(new[c].steps) = new[c].steps
               /\ \A i \in 1..Len(doc[c].steps) :
                     new[c].steps[i] = Rekeyed(doc[c].steps[i], Keyword(doc[c].steps, i))
    <2>1. AreSteps(doc[c].steps) /\ new[c].steps = Sync(doc[c].steps)
      BY <1>1, <1>6
    <2>2. AreSteps(new[c].steps) /\ Len(new[c].steps) = Len(doc[c].steps)
      BY <2>1, Synced
    <2>3. DOMAIN new[c].steps = DOMAIN doc[c].steps
      BY <1>1, <2>2, IsSeqMeans DEF AreSteps
    <2>4. QED
      BY <2>1, <2>2, <2>3, Synced
  <1>8. IsDocument(new)
    <2>1. ASSUME NEW c \in 1..Len(doc) PROVE IsCase(new[c])
      <3>1. IsSeq(new[c].pre)
        BY <1>1, <1>6
      <3>2. \A i \in DOMAIN new[c].steps : IsStep(new[c].steps[i])
        BY <1>1, <1>7 DEF AreSteps
      <3>3. IsSeq(new[c].steps)
        BY <1>7 DEF AreSteps
      <3>4. QED
        BY <1>6, <3>1, <3>2, <3>3 DEF IsCase
    <2>2. QED
      BY <1>4, <1>5, <2>1 DEF IsDocument
  <1>9. Resync(new) = new
    <2>1. Resync(new) = [c \in 1..Len(doc) |-> [new[c] EXCEPT !.steps = Sync(new[c].steps)]]
      BY <1>4 DEF Resync
    <2>2. ASSUME NEW c \in 1..Len(doc) PROVE [new[c] EXCEPT !.steps = Sync(new[c].steps)] = new[c]
      <3>1. new[c] = [kind |-> new[c].kind, title |-> new[c].title, pre |-> new[c].pre,
                      steps |-> new[c].steps]
        BY <1>6
      <3>2. Sync(new[c].steps) = new[c].steps
        BY <1>7
      <3>3. QED
        BY <3>1, <3>2
    <2>3. QED
      BY <1>4, <2>1, <2>2
  <1>10. QED
    BY <1>1, <1>4, <1>5, <1>6, <1>7, <1>8, <1>9 DEF new

\* A document of which one case has other steps.
LEMMA OtherSteps ==
  ASSUME NEW doc, IsDocument(doc), NEW c \in 1..Len(doc), NEW s, AreSteps(s)
  PROVE  LET new == [doc EXCEPT ![c].steps = s] IN
         /\ IsDocument(new) /\ Len(new) = Len(doc) /\ DOMAIN new = DOMAIN doc
         /\ new[c].steps = s /\ new[c].kind = doc[c].kind /\ new[c].pre = doc[c].pre
         /\ new[c].title = doc[c].title
         /\ \A d \in 1..Len(doc) : d # c => new[d] = doc[d]
  <1> DEFINE x == [doc[c] EXCEPT !.steps = s]
             new == [doc EXCEPT ![c].steps = s]
  <1>1. /\ IsSeq(doc) /\ Len(doc) \in Nat /\ DOMAIN doc = 1..Len(doc)
        /\ \A d \in 1..Len(doc) : IsCase(doc[d])
    BY CasesAre
  <1>2. new = [doc EXCEPT ![c] = x]
    OBVIOUS
  <1>3. x = [kind |-> doc[c].kind, title |-> doc[c].title, pre |-> doc[c].pre, steps |-> s]
    <2>1. doc[c] = [kind |-> doc[c].kind, title |-> doc[c].title, pre |-> doc[c].pre,
                    steps |-> doc[c].steps]
      BY <1>1 DEF IsCase
    <2>2. QED
      BY <2>1
  <1> HIDE DEF x, new
  <1>4. x.steps = s /\ x.kind = doc[c].kind /\ x.pre = doc[c].pre /\ x.title = doc[c].title
    BY <1>3
  <1>5. IsCase(x)
    <2>1. IsSeq(doc[c].pre)
      BY <1>1 DEF IsCase
    <2>2. DOMAIN s = 1..Len(s)
      BY IsSeqMeans DEF AreSteps
    <2>3. x = [kind |-> x.kind, title |-> x.title, pre |-> x.pre, steps |-> x.steps]
      BY <1>3, <1>4
    <2>4. QED
      BY <1>4, <2>1, <2>2, <2>3 DEF IsCase, AreSteps
  <1>6. /\ IsSeq(new) /\ Len(new) = Len(doc) /\ new[c] = x
        /\ \A d \in 1..Len(doc) : d # c => new[d] = doc[d]
    BY <1>1, <1>2, ReplacedAt
  <1>7. DOMAIN new = 1..Len(doc)
    BY <1>6, IsSeqMeans
  <1>8. \A d \in 1..Len(doc) : IsCase(new[d])
    BY <1>1, <1>5, <1>6
  <1>9. QED
    BY <1>1, <1>4, <1>6, <1>7, <1>8 DEF IsDocument, new

---------------------------------------------------------------------------
\* The places of a document where steps are.
Places(doc) == {p \in (DOMAIN doc) \X Nat : p[2] \in DOMAIN doc[p[1]].steps}
At(doc, p)  == doc[p[1]].steps[p[2]]

\* A step as it was, but for the keyword, or one that has a label.
SameStep(now, was, label) ==
    now.id = was.id /\ (now.id = label \/ \E w : now = Rekeyed(was, w))

\* Every step of a document comes from one of another, no two from the same, and
\* is like it and in the same case unless it has the label.
Traced(f, old, new, label) ==
    /\ f \in [Places(new) -> Places(old)]
    /\ \A p, q \in Places(new) : f[p] = f[q] => p = q
    /\ \A p \in Places(new) : /\ SameStep(At(new, p), At(old, f[p]), label)
                              /\ At(new, p).id # label => p[1] = f[p][1]

Follows(old, new, label) == \E f : Traced(f, old, new, label)

\* The places of the steps of a document.
LEMMA PlacesAre ==
  ASSUME NEW doc, IsDocument(doc)
  PROVE  /\ \A c \in DOMAIN doc : \A i \in DOMAIN doc[c].steps :
               <<c, i>> \in Places(doc) /\ At(doc, <<c, i>>) = doc[c].steps[i]
         /\ \A p \in Places(doc) :
               /\ p[1] \in DOMAIN doc /\ p[2] \in DOMAIN doc[p[1]].steps /\ p = <<p[1], p[2]>>
               /\ p[1] \in 1..Len(doc) /\ p[2] \in 1..Len(doc[p[1]].steps)
               /\ IsStep(At(doc, p))
  <1>1. /\ DOMAIN doc = 1..Len(doc)
        /\ \A c \in 1..Len(doc) : /\ AreSteps(doc[c].steps)
                                  /\ DOMAIN doc[c].steps = 1..Len(doc[c].steps)
    BY CasesAre
  <1>2. ASSUME NEW c \in DOMAIN doc, NEW i \in DOMAIN doc[c].steps
        PROVE  <<c, i>> \in Places(doc) /\ At(doc, <<c, i>>) = doc[c].steps[i]
    <2>1. i \in Nat
      <3>1. Len(doc[c].steps) \in Nat /\ i \in 1..Len(doc[c].steps)
        BY <1>1, IsSeqMeans DEF AreSteps
      <3>2. QED
        BY <3>1
    <2>2. <<c, i>> \in (DOMAIN doc) \X Nat /\ <<c, i>>[1] = c /\ <<c, i>>[2] = i
      BY <2>1
    <2>3. QED
      BY <2>2 DEF Places, At
  <1>3. ASSUME NEW p \in Places(doc)
        PROVE  /\ p[1] \in DOMAIN doc /\ p[2] \in DOMAIN doc[p[1]].steps /\ p = <<p[1], p[2]>>
               /\ p[1] \in 1..Len(doc) /\ p[2] \in 1..Len(doc[p[1]].steps)
               /\ IsStep(At(doc, p))
    <2>1. p \in (DOMAIN doc) \X Nat /\ p[2] \in DOMAIN doc[p[1]].steps
      BY DEF Places
    <2>2. p[1] \in DOMAIN doc /\ p = <<p[1], p[2]>>
      BY <2>1
    <2>3. QED
      BY <1>1, <2>1, <2>2 DEF AreSteps, At
  <1>4. QED
    BY <1>2, <1>3

\* Laying out the keywords changes nothing else.
LEMMA ResyncFollows ==
  ASSUME NEW old, NEW doc, IsDocument(old), IsDocument(doc), NEW label, Follows(old, doc, label)
  PROVE  Follows(old, Resync(doc), label)
  <1> DEFINE new == Resync(doc)
  <1>1. /\ IsDocument(new) /\ DOMAIN new = DOMAIN doc /\ DOMAIN doc = 1..Len(doc)
        /\ \A c \in 1..Len(doc) :
              /\ DOMAIN new[c].steps = DOMAIN doc[c].steps
              /\ \A i \in 1..Len(doc[c].steps) :
                    new[c].steps[i] = Rekeyed(doc[c].steps[i], Keyword(doc[c].steps, i))
    BY Resynced, CasesAre
  <1> HIDE DEF new
  <1>2. Places(new) = Places(doc)
    <2>1. \A p : p \in (DOMAIN doc) \X Nat => p[1] \in 1..Len(doc)
      BY <1>1
    <2>2. QED
      BY <1>1, <2>1 DEF Places
  <1>3. PICK f : Traced(f, old, doc, label)
    BY DEF Follows
  <1>4. ASSUME NEW p \in Places(new)
        PROVE  /\ SameStep(At(new, p), At(old, f[p]), label)
               /\ At(new, p).id # label => p[1] = f[p][1]
    <2>1. /\ SameStep(At(doc, p), At(old, f[p]), label)
          /\ At(doc, p).id # label => p[1] = f[p][1]
          /\ f[p] \in Places(old)
      BY <1>2, <1>3 DEF Traced
    <2>2. IsStep(At(doc, p)) /\ IsStep(At(old, f[p])) /\ p[1] \in 1..Len(doc) /\ p[2] \in 1..Len(doc[p[1]].steps)
      BY <1>2, <2>1, PlacesAre
    <2>3. PICK v : At(new, p) = Rekeyed(At(doc, p), v)
      BY <1>1, <2>2 DEF At
    <2>4. At(new, p).id = At(doc, p).id
      BY <2>2, <2>3, StepWithKeyword
    <2>5. ASSUME NEW w, At(doc, p) = Rekeyed(At(old, f[p]), w)
          PROVE  At(new, p) = Rekeyed(At(old, f[p]), v)
      BY <2>2, <2>3, <2>5, StepWithKeyword
    <2>6. QED
      BY <2>1, <2>4, <2>5 DEF SameStep
  <1>5. Traced(f, old, new, label)
    BY <1>2, <1>3, <1>4 DEF Traced
  <1>6. QED
    BY <1>5 DEF new, Follows

\* The expected results a person stands for, one by one.
LEMMA ConfirmedAre ==
  ASSUME NEW doc, NEW claim
  PROVE  claim \in Confirmed(doc) <=>
            /\ claim.by = "confirmed"
            /\ \E c \in DOMAIN doc : \E i \in DOMAIN doc[c].steps : claim \in ToSet(doc[c].steps[i].claims)
  BY DEF Confirmed

\* Laying the keywords out loses nothing.
LEMMA ResyncKeeps ==
  ASSUME NEW doc, IsDocument(doc)
  PROVE  /\ Events(Resync(doc)) = Events(doc) /\ (ClaimedOnce(doc) => ClaimedOnce(Resync(doc)))
         /\ Confirmed(Resync(doc)) = Confirmed(doc)
         /\ NoEmptyCase(doc) => NoEmptyCase(Resync(doc))
  <1> DEFINE new == Resync(doc)
  <1>1. /\ DOMAIN new = DOMAIN doc /\ DOMAIN doc = 1..Len(doc)
        /\ \A c \in 1..Len(doc) :
              /\ DOMAIN new[c].steps = DOMAIN doc[c].steps
              /\ Len(new[c].steps) = Len(doc[c].steps)
              /\ \A i \in 1..Len(doc[c].steps) :
                    new[c].steps[i] = Rekeyed(doc[c].steps[i], Keyword(doc[c].steps, i))
        /\ IsDocument(new)
    BY Resynced, CasesAre
  <1>2. \A c \in 1..Len(doc) : /\ AreSteps(doc[c].steps) /\ DOMAIN doc[c].steps = 1..Len(doc[c].steps)
                               /\ AreSteps(new[c].steps)
    BY <1>1, CasesAre
  <1> HIDE DEF new
  <1>3. ASSUME NEW c \in DOMAIN doc
        PROVE  /\ DOMAIN new[c].steps = DOMAIN doc[c].steps
               /\ \A i \in DOMAIN doc[c].steps : /\ new[c].steps[i].events = doc[c].steps[i].events
                                                 /\ new[c].steps[i].claims = doc[c].steps[i].claims
               /\ doc[c].steps # <<>> => new[c].steps # <<>>
    <2>1. ASSUME NEW i \in DOMAIN doc[c].steps
          PROVE  /\ new[c].steps[i].events = doc[c].steps[i].events
                 /\ new[c].steps[i].claims = doc[c].steps[i].claims
      <3>1. new[c].steps[i] = Rekeyed(doc[c].steps[i], Keyword(doc[c].steps, i)) /\ IsStep(doc[c].steps[i])
        BY <1>1, <1>2 DEF AreSteps
      <3>2. QED
        BY <3>1, StepWithKeyword
    <2>2. doc[c].steps # <<>> => new[c].steps # <<>>
      BY <1>1, <1>2, IsSeqMeans DEF AreSteps
    <2>3. QED
      BY <1>1, <2>1, <2>2
  <1>4. Events(new) = Events(doc)
    BY <1>1, <1>3, SMTT(20) DEF Events
  <1>5. ASSUME ClaimedOnce(doc), NEW c \in DOMAIN new, NEW d \in DOMAIN new,
               NEW i \in DOMAIN new[c].steps, NEW j \in DOMAIN new[d].steps,
               new[c].steps[i].events \cap new[d].steps[j].events # {}
        PROVE  c = d /\ i = j
    <2>1. /\ c \in DOMAIN doc /\ d \in DOMAIN doc
          /\ i \in DOMAIN doc[c].steps /\ j \in DOMAIN doc[d].steps
          /\ new[c].steps[i].events = doc[c].steps[i].events
          /\ new[d].steps[j].events = doc[d].steps[j].events
      BY <1>1, <1>3
    <2>2. QED
      BY <1>5, <2>1 DEF ClaimedOnce
  <1>6. Confirmed(new) = Confirmed(doc)
    <2>1. ASSUME NEW claim PROVE claim \in Confirmed(new) <=> claim \in Confirmed(doc)
      <3>1. (\E c \in DOMAIN doc : \E i \in DOMAIN doc[c].steps : claim \in ToSet(doc[c].steps[i].claims))
            <=> \E c \in DOMAIN new : \E i \in DOMAIN new[c].steps : claim \in ToSet(new[c].steps[i].claims)
        BY <1>1, <1>3
      <3>2. QED
        BY <3>1, ConfirmedAre
    <2>2. QED
      BY <2>1
  <1>7. NoEmptyCase(doc) => NoEmptyCase(new)
    BY <1>1, <1>3 DEF NoEmptyCase
  <1>8. QED
    BY <1>4, <1>5, <1>6, <1>7 DEF new, ClaimedOnce

\* A step is the same as itself.
LEMMA AsItWas ==
  ASSUME NEW step, IsStep(step), NEW label
  PROVE  SameStep(step, step, label)
  <1>1. Rekeyed(step, step.keyword) = step
    BY StepWithKeyword
  <1>2. QED
    BY <1>1 DEF SameStep

\* A case with some of its steps leaves a document with some of its steps.
LEMMA OneCaseFollows ==
  ASSUME NEW doc, IsDocument(doc), NEW c \in 1..Len(doc), NEW s, AreSteps(s), NEW label,
         NEW g \in [1..Len(s) -> 1..Len(doc[c].steps)],
         \A j, k \in 1..Len(s) : g[j] = g[k] => j = k,
         \A j \in 1..Len(s) : SameStep(s[j], doc[c].steps[g[j]], label)
  PROVE  Follows(doc, [doc EXCEPT ![c].steps = s], label)
  <1> DEFINE new == [doc EXCEPT ![c].steps = s]
             f == [p \in Places(new) |-> <<p[1], IF p[1] = c THEN g[p[2]] ELSE p[2]>>]
  <1>1. /\ IsDocument(new) /\ DOMAIN new = DOMAIN doc /\ Len(new) = Len(doc) /\ new[c].steps = s
        /\ \A d \in 1..Len(doc) : d # c => new[d] = doc[d]
    BY OtherSteps
  <1>2. DOMAIN doc = 1..Len(doc) /\ DOMAIN s = 1..Len(s)
        /\ \A d \in 1..Len(doc) : DOMAIN doc[d].steps = 1..Len(doc[d].steps)
    BY CasesAre, IsSeqMeans DEF AreSteps
  <1>0. DOMAIN f = Places(new) /\ \A p \in Places(new) : f[p] = <<p[1], IF p[1] = c THEN g[p[2]] ELSE p[2]>>
    OBVIOUS
  <1>9. f \in [Places(new) -> {f[p] : p \in Places(new)}]
    OBVIOUS
  <1> HIDE DEF new, f
  <1>3. ASSUME NEW p \in Places(new)
        PROVE  /\ p[1] \in 1..Len(doc) /\ p = <<p[1], p[2]>> /\ f[p][1] = p[1]
               /\ p[1] = c => p[2] \in 1..Len(s) /\ f[p][2] = g[p[2]] /\ At(new, p) = s[p[2]]
               /\ p[1] # c => f[p] = p /\ At(new, p) = At(doc, p)
               /\ f[p] \in Places(doc) /\ At(doc, f[p]) = doc[f[p][1]].steps[f[p][2]]
    <2>1. /\ p[1] \in 1..Len(doc) /\ p = <<p[1], p[2]>> /\ p[2] \in DOMAIN new[p[1]].steps
          /\ p[1] \in DOMAIN doc
      BY <1>1, <1>2, PlacesAre
    <2>2. CASE p[1] = c
      <3>1. f[p] = <<c, g[p[2]]>>
        BY <1>0, <2>2
      <3>2. p[2] \in 1..Len(s) /\ At(new, p) = s[p[2]]
        BY <1>1, <1>2, <2>1, <2>2 DEF At
      <3>3. g[p[2]] \in DOMAIN doc[c].steps /\ c \in DOMAIN doc
        BY <1>2, <3>2
      <3>4. f[p] \in Places(doc)
        BY <3>1, <3>3, PlacesAre
      <3>5. f[p][1] = c /\ f[p][2] = g[p[2]]
        BY <3>1
      <3>6. QED
        BY <2>1, <2>2, <3>2, <3>4, <3>5 DEF At
    <2>3. CASE p[1] # c
      <3>1. f[p] = p
        BY <1>0, <2>1, <2>3
      <3>2. new[p[1]] = doc[p[1]]
        BY <1>1, <2>1, <2>3
      <3>3. p \in Places(doc)
        BY <2>1, <3>2, PlacesAre
      <3>4. QED
        BY <2>1, <2>3, <3>1, <3>2, <3>3 DEF At
    <2>4. QED
      BY <2>2, <2>3
  <1>4. f \in [Places(new) -> Places(doc)]
    BY <1>3, <1>9
  <1>5. ASSUME NEW p \in Places(new), NEW q \in Places(new), f[p] = f[q] PROVE p = q
    <2>1. p[1] = q[1]
      BY <1>3, <1>5
    <2>2. p[2] = q[2]
      <3>1. CASE p[1] = c
        BY <1>3, <1>5, <2>1, <3>1
      <3>2. CASE p[1] # c
        BY <1>3, <1>5, <2>1, <3>2
      <3>3. QED
        BY <3>1, <3>2
    <2>3. QED
      BY <1>3, <2>1, <2>2
  <1>6. ASSUME NEW p \in Places(new)
        PROVE  SameStep(At(new, p), At(doc, f[p]), label) /\ p[1] = f[p][1]
    <2>1. CASE p[1] = c
      BY <1>3, <2>1
    <2>2. CASE p[1] # c
      <3>1. f[p] \in Places(doc) /\ At(new, p) = At(doc, f[p]) /\ p[1] = f[p][1]
        BY <1>3, <2>2
      <3>2. IsStep(At(doc, f[p]))
        BY <3>1, PlacesAre
      <3>3. QED
        BY <3>1, <3>2, AsItWas
    <2>3. QED
      BY <2>1, <2>2
  <1>7. Traced(f, doc, new, label)
    BY <1>4, <1>5, <1>6 DEF Traced
  <1>8. QED
    BY <1>7 DEF Follows, new

\* The events of a document, one by one.
LEMMA EventsAre ==
  ASSUME NEW doc, NEW e
  PROVE  e \in Events(doc) <=> \E c \in DOMAIN doc : \E i \in DOMAIN doc[c].steps : e \in doc[c].steps[i].events
  BY DEF Events

\* A case with no new events leaves a document with none.
LEMMA OneCaseEvents ==
  ASSUME NEW doc, IsDocument(doc), NEW c \in 1..Len(doc), NEW s, AreSteps(s),
         \A j \in 1..Len(s) : \A e \in s[j].events :
            \E i \in 1..Len(doc[c].steps) : e \in doc[c].steps[i].events
  PROVE  Events([doc EXCEPT ![c].steps = s]) \subseteq Events(doc)
  <1> DEFINE new == [doc EXCEPT ![c].steps = s]
  <1>1. /\ DOMAIN new = DOMAIN doc /\ new[c].steps = s
        /\ \A d \in 1..Len(doc) : d # c => new[d] = doc[d]
    BY OtherSteps
  <1>2. DOMAIN doc = 1..Len(doc) /\ DOMAIN s = 1..Len(s)
        /\ DOMAIN doc[c].steps = 1..Len(doc[c].steps)
    BY CasesAre, IsSeqMeans DEF AreSteps
  <1> HIDE DEF new
  <1>3. ASSUME NEW d \in DOMAIN doc, NEW j \in DOMAIN new[d].steps, NEW e \in new[d].steps[j].events
        PROVE  \E i \in DOMAIN doc[d].steps : e \in doc[d].steps[i].events
    <2>1. CASE d = c
      BY <1>1, <1>2, <2>1
    <2>2. CASE d # c
      BY <1>1, <1>2, <2>2
    <2>3. QED
      BY <2>1, <2>2
  <1>4. ASSUME NEW e \in Events(new) PROVE e \in Events(doc)
    <2>1. PICK d \in DOMAIN doc : \E j \in DOMAIN new[d].steps : e \in new[d].steps[j].events
      BY <1>1, EventsAre
    <2>2. \E i \in DOMAIN doc[d].steps : e \in doc[d].steps[i].events
      BY <1>3, <2>1
    <2>3. QED
      BY <2>2, EventsAre
  <1>5. QED
    BY <1>4 DEF new

\* A case that gives up some events and shares none leaves a document that does
\* so.
LEMMA OneCaseOnce ==
  ASSUME NEW doc, IsDocument(doc), NEW c \in 1..Len(doc), NEW s, AreSteps(s), NEW lost,
         \A j \in 1..Len(s) : \A e \in s[j].events :
            \E i \in 1..Len(doc[c].steps) : e \in doc[c].steps[i].events,
         \A i \in 1..Len(doc[c].steps) : \A e \in doc[c].steps[i].events :
            e \in lost \/ \E j \in 1..Len(s) : e \in s[j].events,
         \A e \in lost : e \in Events(doc),
         (\A i, k \in 1..Len(doc[c].steps) :
             doc[c].steps[i].events \cap doc[c].steps[k].events # {} => i = k)
         => \A i, k \in 1..Len(s) : s[i].events \cap s[k].events # {} => i = k
  PROVE  LET new == [doc EXCEPT ![c].steps = s] IN
         /\ Events(new) \cup lost = Events(doc)
         /\ ClaimedOnce(doc) => ClaimedOnce(new)
  <1> DEFINE new == [doc EXCEPT ![c].steps = s]
  <1>1. /\ DOMAIN new = DOMAIN doc /\ new[c].steps = s
        /\ \A d \in 1..Len(doc) : d # c => new[d] = doc[d]
    BY OtherSteps
  <1>2. DOMAIN doc = 1..Len(doc) /\ DOMAIN s = 1..Len(s)
        /\ DOMAIN doc[c].steps = 1..Len(doc[c].steps)
    BY CasesAre, IsSeqMeans DEF AreSteps
  <1>3. Events(new) \subseteq Events(doc)
    BY OneCaseEvents
  <1> HIDE DEF new
  <1>4. ASSUME NEW d \in DOMAIN doc, NEW i \in DOMAIN doc[d].steps, NEW e \in doc[d].steps[i].events
        PROVE  e \in lost \/ \E j \in DOMAIN new[d].steps : e \in new[d].steps[j].events
    <2>1. CASE d = c
      BY <1>1, <1>2, <2>1
    <2>2. CASE d # c
      BY <1>1, <1>2, <2>2
    <2>3. QED
      BY <2>1, <2>2
  <1>5. Events(new) \cup lost = Events(doc)
    <2>1. ASSUME NEW e \in Events(doc) PROVE e \in lost \/ e \in Events(new)
      BY <1>1, <1>4, EventsAre
    <2>2. QED
      BY <1>3, <2>1
  <1>6. ASSUME ClaimedOnce(doc) PROVE ClaimedOnce(new)
    <2>1. \A i, k \in 1..Len(doc[c].steps) :
              doc[c].steps[i].events \cap doc[c].steps[k].events # {} => i = k
      BY <1>2, <1>6 DEF ClaimedOnce
    <2>2. \A i, k \in 1..Len(s) : s[i].events \cap s[k].events # {} => i = k
      BY <2>1
    <2>3. ASSUME NEW d \in DOMAIN doc, NEW i \in DOMAIN doc[d].steps, d # c,
                 NEW j \in 1..Len(s), doc[d].steps[i].events \cap s[j].events # {}
          PROVE  FALSE
      <3>1. PICK e \in s[j].events : e \in doc[d].steps[i].events
        BY <2>3
      <3>2. PICK k \in 1..Len(doc[c].steps) : e \in doc[c].steps[k].events
        OBVIOUS
      <3>3. doc[d].steps[i].events \cap doc[c].steps[k].events # {}
        BY <3>1, <3>2
      <3>4. QED
        BY <1>2, <1>6, <2>3, <3>3 DEF ClaimedOnce
    <2>4. SUFFICES ASSUME NEW a \in DOMAIN new, NEW b \in DOMAIN new,
                          NEW i \in DOMAIN new[a].steps, NEW j \in DOMAIN new[b].steps,
                          new[a].steps[i].events \cap new[b].steps[j].events # {}
                   PROVE  a = b /\ i = j
      BY DEF ClaimedOnce
    <2>5. CASE a = c /\ b = c
      BY <1>1, <1>2, <2>2, <2>4, <2>5
    <2>6. CASE a = c /\ b # c
      <3>1. doc[b].steps[j].events \cap s[i].events # {} /\ i \in 1..Len(s)
            /\ b \in DOMAIN doc /\ j \in DOMAIN doc[b].steps
        BY <1>1, <1>2, <2>4, <2>6
      <3>2. QED
        BY <2>3, <2>6, <3>1
    <2>7. CASE a # c /\ b = c
      <3>1. doc[a].steps[i].events \cap s[j].events # {} /\ j \in 1..Len(s)
            /\ a \in DOMAIN doc /\ i \in DOMAIN doc[a].steps
        BY <1>1, <1>2, <2>4, <2>7
      <3>2. QED
        BY <2>3, <2>7, <3>1
    <2>8. CASE a # c /\ b # c
      <3>1. new[a] = doc[a] /\ new[b] = doc[b] /\ a \in DOMAIN doc /\ b \in DOMAIN doc
        BY <1>1, <1>2, <2>8
      <3>2. QED
        BY <1>6, <2>4, <3>1 DEF ClaimedOnce
    <2>9. QED
      BY <2>5, <2>6, <2>7, <2>8
  <1>7. QED
    BY <1>5, <1>6 DEF new

\* What a person stands for was there, with the same id.
Testified(old, new) == \A claim \in Confirmed(new) : \E was \in Confirmed(old) : was.id = claim.id

\* A case with no new testimony leaves a document with none.
LEMMA OneCaseTestified ==
  ASSUME NEW doc, IsDocument(doc), NEW c \in 1..Len(doc), NEW s, AreSteps(s),
         \A j \in 1..Len(s) : \A claim \in ToSet(s[j].claims) : claim.by = "confirmed" =>
            \E i \in 1..Len(doc[c].steps) : \E was \in ToSet(doc[c].steps[i].claims) :
               was.id = claim.id /\ was.by = "confirmed"
  PROVE  Testified(doc, [doc EXCEPT ![c].steps = s])
  <1> DEFINE new == [doc EXCEPT ![c].steps = s]
  <1>1. /\ DOMAIN new = DOMAIN doc /\ new[c].steps = s
        /\ \A d \in 1..Len(doc) : d # c => new[d] = doc[d]
    BY OtherSteps
  <1>2. DOMAIN doc = 1..Len(doc) /\ DOMAIN s = 1..Len(s)
        /\ DOMAIN doc[c].steps = 1..Len(doc[c].steps)
    BY CasesAre, IsSeqMeans DEF AreSteps
  <1> HIDE DEF new
  <1>3. SUFFICES ASSUME NEW claim \in Confirmed(new) PROVE \E was \in Confirmed(doc) : was.id = claim.id
    BY DEF Testified, new
  <1>4. PICK d \in DOMAIN doc : claim.by = "confirmed"
                /\ \E j \in DOMAIN new[d].steps : claim \in ToSet(new[d].steps[j].claims)
    BY <1>1, ConfirmedAre
  <1>5. PICK j \in DOMAIN new[d].steps : claim \in ToSet(new[d].steps[j].claims)
    BY <1>4
  <1>6. CASE d = c
    <2>1. j \in 1..Len(s) /\ claim \in ToSet(s[j].claims)
      BY <1>1, <1>2, <1>5, <1>6
    <2>2. PICK i \in 1..Len(doc[c].steps) : \E was \in ToSet(doc[c].steps[i].claims) :
               was.id = claim.id /\ was.by = "confirmed"
      BY <1>4, <2>1
    <2>3. PICK was \in ToSet(doc[c].steps[i].claims) : was.id = claim.id /\ was.by = "confirmed"
      BY <2>2
    <2>4. was \in Confirmed(doc)
      BY <1>2, <2>3, ConfirmedAre
    <2>5. QED
      BY <2>3, <2>4
  <1>7. CASE d # c
    <2>1. claim \in Confirmed(doc)
      BY <1>1, <1>2, <1>4, <1>5, <1>7, ConfirmedAre
    <2>2. QED
      BY <2>1
  <1>8. QED
    BY <1>6, <1>7

---------------------------------------------------------------------------
\* The steps of a document that come from another's bring no id, and have ids of
\* their own if those have.
LEMMA FollowingIsDistinct ==
  ASSUME NEW old, NEW new, IsDocument(old), IsDocument(new), NEW label, Follows(old, new, label)
  PROVE  StepIds(new) \subseteq StepIds(old) /\ (DistinctSteps(old) => DistinctSteps(new))
  <1>1. PICK f : Traced(f, old, new, label)
    BY DEF Follows
  <1>2. ASSUME NEW c \in DOMAIN new, NEW i \in DOMAIN new[c].steps
        PROVE  /\ <<c, i>> \in Places(new) /\ f[<<c, i>>] \in Places(old)
               /\ new[c].steps[i].id = At(old, f[<<c, i>>]).id
    <2>1. <<c, i>> \in Places(new) /\ At(new, <<c, i>>) = new[c].steps[i]
      BY PlacesAre
    <2>2. QED
      BY <1>1, <2>1 DEF Traced, SameStep
  <1>3. ASSUME DistinctSteps(old), NEW p \in Places(old), NEW q \in Places(old),
               At(old, p).id = At(old, q).id
        PROVE  p = q
    <2>1. /\ p[1] \in DOMAIN old /\ p[2] \in DOMAIN old[p[1]].steps /\ p = <<p[1], p[2]>>
          /\ q[1] \in DOMAIN old /\ q[2] \in DOMAIN old[q[1]].steps /\ q = <<q[1], q[2]>>
      BY PlacesAre
    <2>2. p[1] = q[1] /\ p[2] = q[2]
      BY <1>3, <2>1 DEF DistinctSteps, At
    <2>3. QED
      BY <2>1, <2>2
  <1>4. ASSUME DistinctSteps(old),
               NEW c \in DOMAIN new, NEW d \in DOMAIN new, NEW i \in DOMAIN new[c].steps,
               NEW j \in DOMAIN new[d].steps, new[c].steps[i].id = new[d].steps[j].id
        PROVE  c = d /\ i = j
    <2>1. f[<<c, i>>] = f[<<d, j>>]
      BY <1>2, <1>3, <1>4
    <2>2. <<c, i>> = <<d, j>>
      BY <1>1, <1>2, <2>1 DEF Traced
    <2>3. QED
      BY <2>2
  <1>5. ASSUME NEW c \in DOMAIN new, NEW i \in DOMAIN new[c].steps PROVE new[c].steps[i].id \in StepIds(old)
    <2>1. PICK p \in Places(old) : new[c].steps[i].id = At(old, p).id
      BY <1>2
    <2>2. p[1] \in DOMAIN old /\ p[2] \in DOMAIN old[p[1]].steps
      BY PlacesAre
    <2>3. QED
      BY <2>1, <2>2 DEF StepIds, At
  <1>6. QED
    BY <1>4, <1>5 DEF DistinctSteps, StepIds

\* What is not as it was left has a label, if what is not as it was one edit ago
\* gets one.
LEMMA FollowingIsLabelled ==
  ASSUME IsDocument(cases), IsDocument(cases'), IsDocument(original), original' = original,
         ChangedStepsAreLabelled, NEW label, Follows(cases, cases', label),
         DOMAIN cases' = DOMAIN cases, DOMAIN cases = DOMAIN original,
         label = NoStep \/ label \in EditedStepIds', EditedStepIds \subseteq EditedStepIds'
  PROVE  ChangedStepsAreLabelled'
  <1>1. PICK f : Traced(f, cases, cases', label)
    BY DEF Follows
  <1>2. SUFFICES ASSUME NEW c \in DOMAIN cases', NEW i \in DOMAIN cases'[c].steps,
                        cases'[c].steps[i].id \notin EditedStepIds'
                 PROVE  \E j \in DOMAIN original[c].steps :
                           cases'[c].steps[i] = Rekeyed(original[c].steps[j], cases'[c].steps[i].keyword)
    BY DEF ChangedStepsAreLabelled, Rekeyed
  <1> DEFINE now == cases'[c].steps[i]
             p == <<c, i>>
             q == f[p]
             before == At(cases, q)
  <1>3. /\ p \in Places(cases') /\ At(cases', p) = now /\ IsStep(now)
    BY PlacesAre
  <1>4. /\ q \in Places(cases) /\ SameStep(now, before, label) /\ (now.id # label => p[1] = q[1])
    BY <1>1, <1>3 DEF Traced
  <1>5. /\ q[1] \in DOMAIN cases /\ q[2] \in DOMAIN cases[q[1]].steps /\ IsStep(before)
        /\ before = cases[q[1]].steps[q[2]] /\ p[1] = c
    BY <1>4, PlacesAre DEF At
  <1>6. now.id # label
    BY <1>2, <1>3 DEF IsStep
  <1> HIDE DEF p, q, before
  <1>7. PICK w : now = Rekeyed(before, w)
    BY <1>4, <1>6 DEF SameStep
  <1>8. before.id \notin EditedStepIds /\ q[1] = c
    BY <1>2, <1>4, <1>5, <1>6 DEF SameStep
  <1>9. PICK j \in DOMAIN original[c].steps : before = Rekeyed(original[c].steps[j], before.keyword)
    BY <1>5, <1>8 DEF ChangedStepsAreLabelled, Rekeyed
  <1>10. IsStep(original[c].steps[j])
    <2>1. c \in DOMAIN original
      BY <1>5, <1>8
    <2>2. QED
      BY <2>1, PlacesAre
  <1>11. now = Rekeyed(original[c].steps[j], w) /\ now.keyword = w
    BY <1>5, <1>7, <1>9, <1>10, StepWithKeyword
  <1>12. QED
    BY <1>11

\* What Append gives.
LEMMA Appended ==
  ASSUME NEW s, IsSeq(s), NEW e
  PROVE  /\ IsSeq(Append(s, e)) /\ Len(Append(s, e)) = Len(s) + 1
         /\ \A i \in 1..Len(s) : Append(s, e)[i] = s[i]
         /\ Append(s, e)[Len(s) + 1] = e /\ Last(Append(s, e)) = e /\ Append(s, e) # s
  <1> DEFINE S == ToSet(s) \cup {e}
             t == Append(s, e)
  <1>1. s \in Seq(S) /\ e \in S
    BY SeqMonotonic DEF IsSeq
  <1>2. Len(s) \in Nat
    BY IsSeqMeans
  <1> HIDE DEF S
  <1>3. /\ t \in Seq(S) /\ Len(t) = Len(s) + 1
        /\ \A i \in 1..Len(s) : t[i] = s[i]
        /\ t[Len(s) + 1] = e
    BY <1>1, AppendProperties
  <1> HIDE DEF t
  <1>4. IsSeq(t)
    BY <1>3, InSeq
  <1>5. t # s
    BY <1>2, <1>3
  <1>6. QED
    BY <1>3, <1>4, <1>5 DEF Last, t

---------------------------------------------------------------------------
\* Documents as they are saved, and the record as it is kept.
Shape ==
    /\ IsDocument(cases) /\ IsDocument(original) /\ DOMAIN cases = DOMAIN original
    /\ Resync(cases) = cases
    /\ DistinctSteps(original) => DistinctSteps(cases) /\ NoEmptyCase(cases)
    /\ IsSeq(edits)

IInv ==
    /\ Shape
    /\ ReviewTypeOK
    /\ Events(cases) \subseteq Events(original)
    /\ EventsAreAccountedFor
    /\ ChangedStepsAreLabelled

\* What an edit leaves, before the keywords are laid out: some steps of the
\* document, and no others but for those with the label.
Left(doc, label) ==
    /\ IsDocument(doc) /\ DOMAIN doc = DOMAIN cases
    /\ DistinctSteps(cases) /\ NoEmptyCase(cases) => NoEmptyCase(doc)
    /\ Follows(cases, doc, label)
    /\ Events(doc) \subseteq Events(cases)

\* All events are still there, but for those that are given up.
Kept(doc, lost) ==
    /\ Events(doc) \cup lost = Events(cases)
    /\ ClaimedOnce(cases) => ClaimedOnce(doc)

\* What the record has of an edit.
Noted(label) ==
    \E kind \in EditKinds, c \in DOMAIN cases : \E claim : Record(kind, c, label, claim)

\* The record after an edit.
LEMMA NotedMeans ==
  ASSUME IsSeq(edits), NEW label, Noted(label)
  PROVE  /\ IsSeq(edits') /\ Len(edits') <= MaxEdits /\ label \in EditedStepIds'
         /\ EditedStepIds \subseteq EditedStepIds' /\ edits' # edits
         /\ \A n \in DOMAIN edits' :
               \/ n \in DOMAIN edits /\ edits'[n] = edits[n]
               \/ edits'[n].kind \in EditKinds /\ edits'[n].case \in DOMAIN cases /\ edits'[n].step = label
  <1>0. PICK kind \in EditKinds, c \in DOMAIN cases : \E claim : Record(kind, c, label, claim)
    BY DEF Noted
  <1>1. PICK claim : Record(kind, c, label, claim)
    BY <1>0
  <1> DEFINE r == [kind |-> kind, case |-> c, step |-> label, claim |-> claim]
  <1>2. edits' = Append(edits, r) /\ Len(edits) < MaxEdits
    BY <1>1 DEF Record
  <1>3. r.kind \in EditKinds /\ r.case \in DOMAIN cases /\ r.step = label
    BY <1>1
  <1> HIDE DEF r
  <1>4. /\ IsSeq(edits') /\ Len(edits') = Len(edits) + 1
        /\ \A i \in 1..Len(edits) : edits'[i] = edits[i]
        /\ edits'[Len(edits) + 1] = r /\ edits' # edits
    BY <1>2, Appended
  <1>5. /\ Len(edits) \in Nat /\ DOMAIN edits = 1..Len(edits) /\ DOMAIN edits' = 1..(Len(edits) + 1)
        /\ MaxEdits \in Nat
    BY <1>4, IsSeqMeans, DocumentsAssumption
  <1>6. \A n \in DOMAIN edits' : \/ n \in DOMAIN edits /\ edits'[n] = edits[n]
                                 \/ edits'[n] = r
    BY <1>4, <1>5
  <1>7. label \in EditedStepIds' /\ EditedStepIds \subseteq EditedStepIds'
    <2>1. Len(edits) + 1 \in DOMAIN edits' /\ edits'[Len(edits) + 1].step = label
      BY <1>3, <1>4, <1>5
    <2>2. \A n \in DOMAIN edits : n \in DOMAIN edits' /\ edits'[n].step = edits[n].step
      BY <1>4, <1>5
    <2>3. QED
      BY <2>1, <2>2 DEF EditedStepIds
  <1>8. Len(edits') <= MaxEdits
    <2>1. Len(edits) < MaxEdits
      BY <1>2
    <2>2. \A m, n \in Nat : m < n => m + 1 <= n
      OBVIOUS
    <2>3. Len(edits) + 1 <= MaxEdits
      BY <1>5, <2>1, <2>2
    <2>4. QED
      BY <1>4, <2>3
  <1>9. QED
    BY <1>3, <1>4, <1>6, <1>7, <1>8

\* A document that is saved after an edit is one as it should be.
LEMMA SavedIsShaped ==
  ASSUME Shape, NEW doc, NEW label, Left(doc, label), Save(doc), IsSeq(edits')
  PROVE  /\ Shape' /\ Follows(cases, cases', label)
         /\ StepIds(cases') \subseteq StepIds(cases)
         /\ Events(cases') = Events(doc) /\ (ClaimedOnce(doc) => ClaimedOnce(cases'))
         /\ Confirmed(cases') = Confirmed(doc)
  <1>1. cases' = Resync(doc) /\ original' = original
    BY DEF Save
  <1>2. /\ IsDocument(cases) /\ IsDocument(doc) /\ DOMAIN doc = DOMAIN cases
        /\ Follows(cases, doc, label)
        /\ DistinctSteps(original) => DistinctSteps(cases) /\ NoEmptyCase(doc)
    BY DEF Shape, Left
  <1>3. IsDocument(cases') /\ Resync(cases') = cases' /\ DOMAIN cases' = DOMAIN cases
    BY <1>1, <1>2, Resynced
  <1>4. Follows(cases, cases', label)
    BY <1>1, <1>2, ResyncFollows
  <1>5. /\ Events(cases') = Events(doc) /\ (ClaimedOnce(doc) => ClaimedOnce(cases'))
        /\ Confirmed(cases') = Confirmed(doc) /\ (NoEmptyCase(doc) => NoEmptyCase(cases'))
    BY <1>1, <1>2, ResyncKeeps
  <1>6. (DistinctSteps(cases) => DistinctSteps(cases')) /\ StepIds(cases') \subseteq StepIds(cases)
    BY <1>2, <1>3, <1>4, FollowingIsDistinct
  <1>7. Shape'
    BY <1>1, <1>2, <1>3, <1>5, <1>6 DEF Shape
  <1>8. QED
    BY <1>4, <1>5, <1>6, <1>7

\* An edit that is saved and noted keeps the invariant.
LEMMA EditKeepsIInv ==
  ASSUME IInv, NEW doc, NEW label, Left(doc, label), Save(doc), Noted(label),
         label \in StepIds(cases) \cup {NoStep},
         NEW lost, lost \subseteq Events(cases), gone' = gone \cup lost,
         plain' \in BOOLEAN, plain' => plain /\ Kept(doc, lost)
  PROVE  IInv'
  <1>1. Shape /\ IsSeq(edits)
    BY DEF IInv, Shape
  <1>2. /\ IsSeq(edits') /\ Len(edits') <= MaxEdits /\ label \in EditedStepIds'
        /\ EditedStepIds \subseteq EditedStepIds'
        /\ \A n \in DOMAIN edits' :
              \/ n \in DOMAIN edits /\ edits'[n] = edits[n]
              \/ edits'[n].kind \in EditKinds /\ edits'[n].case \in DOMAIN cases /\ edits'[n].step = label
    BY <1>1, NotedMeans
  <1>3. /\ Shape' /\ Follows(cases, cases', label)
        /\ StepIds(cases') \subseteq StepIds(cases)
        /\ Events(cases') = Events(doc) /\ (ClaimedOnce(doc) => ClaimedOnce(cases'))
    BY <1>1, <1>2, SavedIsShaped
  <1>4. original' = original
    BY DEF Save
  <1>5. /\ IsDocument(cases) /\ IsDocument(original) /\ IsDocument(cases')
        /\ DOMAIN cases = DOMAIN original /\ DOMAIN cases' = DOMAIN cases
    BY <1>1, <1>3, <1>4 DEF Shape
  <1>6. Events(cases') \subseteq Events(original')
    BY <1>3, <1>4 DEF Left, IInv
  <1>7. ReviewTypeOK'
    <2>1. StepIds(cases') \subseteq StepIds(original')
      BY <1>3, <1>4 DEF IInv, ReviewTypeOK
    <2>2. label \in StepIds(original') \cup {NoStep}
      BY <1>4 DEF IInv, ReviewTypeOK
    <2>3. ASSUME NEW n \in DOMAIN edits'
          PROVE  /\ edits'[n].kind \in EditKinds /\ edits'[n].case \in DOMAIN cases'
                 /\ edits'[n].step \in StepIds(original') \cup {NoStep}
      <3>1. CASE n \in DOMAIN edits /\ edits'[n] = edits[n]
        BY <1>4, <1>5, <3>1 DEF IInv, ReviewTypeOK
      <3>2. CASE edits'[n].kind \in EditKinds /\ edits'[n].case \in DOMAIN cases /\ edits'[n].step = label
        BY <1>5, <2>2, <3>2
      <3>3. QED
        BY <1>2, <3>1, <3>2
    <2>4. gone' \subseteq Events(original')
      BY <1>4 DEF IInv, ReviewTypeOK
    <2>5. QED
      BY <1>2, <1>4, <1>5, <2>1, <2>3, <2>4 DEF ReviewTypeOK
  <1>8. EventsAreAccountedFor'
    <2>1. SUFFICES ASSUME plain'
                   PROVE  /\ Events(cases') \cup gone' = Events(original')
                          /\ ClaimedOnce(original') => ClaimedOnce(cases')
      BY DEF EventsAreAccountedFor
    <2>2. /\ Events(cases) \cup gone = Events(original) /\ (ClaimedOnce(original) => ClaimedOnce(cases))
          /\ Events(doc) \cup lost = Events(cases) /\ (ClaimedOnce(cases) => ClaimedOnce(doc))
      BY <2>1 DEF IInv, EventsAreAccountedFor, Kept
    <2>3. Events(cases') \cup gone' = Events(original')
      BY <1>3, <1>4, <2>2
    <2>4. QED
      BY <1>3, <1>4, <2>2, <2>3
  <1>9. ChangedStepsAreLabelled'
    <2>1. ChangedStepsAreLabelled
      BY DEF IInv
    <2>2. QED
      BY <1>2, <1>3, <1>4, <1>5, <2>1, FollowingIsLabelled
  <1>10. QED
    BY <1>3, <1>6, <1>7, <1>8, <1>9 DEF IInv

\* Min is of the set and the least.
LEMMA TheMin ==
  ASSUME NEW T \in SUBSET Nat, T # {}
  PROVE  Min(T) \in T /\ \A m \in T : Min(T) <= m
  <1>1. \E n \in T : \A m \in T : n <= m
    BY LeastOf
  <1>2. QED
    BY <1>1 DEF Min

\* The place of an expected result that the step has.
LEMMA PlaceIs ==
  ASSUME NEW step, IsStep(step), NEW claim \in ClaimIds(step)
  PROVE  /\ Place(step, claim) \in DOMAIN step.claims /\ Place(step, claim) \in 1..Len(step.claims)
         /\ step.claims[Place(step, claim)].id = claim
  <1> DEFINE T == {k \in DOMAIN step.claims : step.claims[k].id = claim}
  <1>1. Len(step.claims) \in Nat /\ DOMAIN step.claims = 1..Len(step.claims)
    BY IsSeqMeans DEF IsStep
  <1>2. T \in SUBSET Nat /\ T # {}
    BY <1>1 DEF ClaimIds
  <1>3. Place(step, claim) = Min(T)
    BY DEF Place
  <1>4. Min(T) \in T
    <2> HIDE DEF T
    <2> QED BY <1>2, TheMin
  <1>5. QED
    BY <1>1, <1>3, <1>4

---------------------------------------------------------------------------
\* A step with other expected results.
Reclaimed(step, claims) == [step EXCEPT !.claims = claims]

\* A step with other expected results.
LEMMA StepWithClaims ==
  ASSUME NEW step, IsStep(step), NEW claims, IsSeq(claims), \A k \in 1..Len(claims) : IsClaim(claims[k])
  PROVE  LET new == Reclaimed(step, claims) IN
         /\ IsStep(new) /\ new.claims = claims
         /\ new.id = step.id /\ new.text = step.text /\ new.role = step.role /\ new.keyword = step.keyword
         /\ new.events = step.events /\ new.asked = step.asked /\ new.low = step.low
  <1> DEFINE new == Reclaimed(step, claims)
  <1>1. step = [id |-> step.id, text |-> step.text, role |-> step.role, keyword |-> step.keyword,
               events |-> step.events, claims |-> step.claims, asked |-> step.asked, low |-> step.low]
    BY DEF IsStep
  <1>2. new = [id |-> step.id, text |-> step.text, role |-> step.role, keyword |-> step.keyword,
               events |-> step.events, claims |-> claims, asked |-> step.asked, low |-> step.low]
    BY <1>1 DEF Reclaimed
  <1> HIDE DEF new
  <1>3. /\ new.claims = claims
         /\ new.id = step.id /\ new.text = step.text /\ new.role = step.role /\ new.keyword = step.keyword
         /\ new.events = step.events /\ new.asked = step.asked /\ new.low = step.low
    BY <1>2
  <1>4. new = [id |-> new.id, text |-> new.text, role |-> new.role, keyword |-> new.keyword,
               events |-> new.events, claims |-> new.claims, asked |-> new.asked, low |-> new.low]
    BY <1>2, <1>3
  <1>5. DOMAIN claims = 1..Len(claims)
    BY IsSeqMeans
  <1>6. IsStep(new)
    BY <1>3, <1>4, <1>5 DEF IsStep
  <1>7. QED
    BY <1>3, <1>6 DEF new

\* One expected result in the place of another.
LEMMA ClaimReplaced ==
  ASSUME NEW step, IsStep(step), NEW k \in DOMAIN step.claims, NEW claim, IsClaim(claim)
  PROVE  LET claims == [step.claims EXCEPT ![k] = claim] IN
         /\ IsSeq(claims) /\ Len(claims) = Len(step.claims) /\ claims[k] = claim
         /\ \A m \in 1..Len(claims) : IsClaim(claims[m])
         /\ \A m \in 1..Len(claims) : m # k => claims[m] = step.claims[m]
  <1> DEFINE claims == [step.claims EXCEPT ![k] = claim]
  <1>1. IsSeq(step.claims) /\ DOMAIN step.claims = 1..Len(step.claims)
        /\ \A m \in 1..Len(step.claims) : IsClaim(step.claims[m])
    BY IsSeqMeans DEF IsStep
  <1>2. k \in 1..Len(step.claims)
    BY <1>1
  <1>3. /\ IsSeq(claims) /\ Len(claims) = Len(step.claims) /\ claims[k] = claim
        /\ \A m \in 1..Len(step.claims) : m # k => claims[m] = step.claims[m]
    BY <1>1, <1>2, ReplacedAt
  <1> HIDE DEF claims
  <1>4. \A m \in 1..Len(step.claims) : IsClaim(claims[m])
    BY <1>1, <1>3
  <1>5. QED
    BY <1>3, <1>4 DEF claims

\* An expected result in other words.
LEMMA ClaimReworded ==
  ASSUME NEW claim, IsClaim(claim), NEW word
  PROVE  LET new == [claim EXCEPT !.text = word] IN
         /\ IsClaim(new) /\ new.id = claim.id /\ new.accepted = claim.accepted /\ new.by = claim.by
         /\ new.text = word
  <1> DEFINE new == [claim EXCEPT !.text = word]
  <1>1. new = [id |-> claim.id, text |-> word, accepted |-> claim.accepted, by |-> claim.by]
    BY DEF IsClaim
  <1> HIDE DEF new
  <1>2. /\ new.id = claim.id /\ new.accepted = claim.accepted /\ new.by = claim.by
        /\ new.text = word
    BY <1>1
  <1>3. IsClaim(new)
    BY <1>1, <1>2 DEF IsClaim
  <1>4. QED
    BY <1>2, <1>3 DEF new

\* An expected result that is accepted or rejected.
LEMMA ClaimDecided ==
  ASSUME NEW claim, IsClaim(claim), NEW accepted \in BOOLEAN
  PROVE  LET new == [claim EXCEPT !.accepted = accepted] IN
         IsClaim(new) /\ new.id = claim.id /\ new.by = claim.by
  <1> DEFINE new == [claim EXCEPT !.accepted = accepted]
  <1>1. new = [id |-> claim.id, text |-> claim.text, accepted |-> accepted, by |-> claim.by]
    BY DEF IsClaim
  <1> HIDE DEF new
  <1>2. new.id = claim.id /\ new.accepted = accepted /\ new.by = claim.by /\ new.text = claim.text
    BY <1>1
  <1>3. IsClaim(new)
    BY <1>1, <1>2 DEF IsClaim
  <1>4. QED
    BY <1>2, <1>3 DEF new

\* One case has other steps, each of them one that was there.
LEMMA OneCaseLeft ==
  ASSUME Shape, NEW c \in DOMAIN cases, NEW s, AreSteps(s), NEW label,
         DistinctSteps(cases) /\ NoEmptyCase(cases) => Len(s) # 0,
         NEW g \in [1..Len(s) -> 1..Len(cases[c].steps)],
         \A j, k \in 1..Len(s) : g[j] = g[k] => j = k,
         \A j \in 1..Len(s) : SameStep(s[j], cases[c].steps[g[j]], label),
         \A j \in 1..Len(s) : \A e \in s[j].events :
            \E i \in 1..Len(cases[c].steps) : e \in cases[c].steps[i].events
  PROVE  Left(WithSteps(c, s), label)
  <1> DEFINE new == [cases EXCEPT ![c].steps = s]
  <1>1. IsDocument(cases)
    BY DEF Shape
  <1>2. DOMAIN cases = 1..Len(cases) /\ c \in 1..Len(cases)
    BY <1>1, CasesAre
  <1>3. /\ IsDocument(new) /\ DOMAIN new = DOMAIN cases /\ new[c].steps = s
        /\ \A d \in 1..Len(cases) : d # c => new[d] = cases[d]
    BY <1>1, <1>2, OtherSteps
  <1>4. Follows(cases, new, label)
    BY <1>1, <1>2, OneCaseFollows
  <1>5. Events(new) \subseteq Events(cases)
    BY <1>1, <1>2, OneCaseEvents
  <1>6. Len(s) # 0 => s # <<>>
    BY IsSeqMeans DEF AreSteps
  <1> HIDE DEF new
  <1>7. DistinctSteps(cases) /\ NoEmptyCase(cases) => NoEmptyCase(new)
    BY <1>2, <1>3, <1>6 DEF NoEmptyCase
  <1>8. Left(new, label)
    BY <1>3, <1>4, <1>5, <1>7 DEF Left
  <1>9. QED
    BY <1>8 DEF WithSteps, new

\* A step's id and events are the document's.
LEMMA Somewhere ==
  ASSUME NEW doc, NEW c \in DOMAIN doc, NEW i \in DOMAIN doc[c].steps
  PROVE  /\ doc[c].steps[i].id \in StepIds(doc) /\ doc[c].steps[i].events \subseteq Events(doc)
  BY DEF StepIds, Events

\* A step in the place of one with the same id and events.
LEMMA InPlace ==
  ASSUME Shape, NEW c \in DOMAIN cases, NEW i \in DOMAIN cases[c].steps, NEW step, IsStep(step),
         step.id = cases[c].steps[i].id, step.events = cases[c].steps[i].events
  PROVE  /\ Left(WithStep(c, i, step), step.id) /\ Kept(WithStep(c, i, step), {})
         /\ (\A claim \in ToSet(step.claims) : claim.by = "confirmed" =>
                \E was \in ToSet(cases[c].steps[i].claims) : was.id = claim.id /\ was.by = "confirmed")
            => Testified(cases, WithStep(c, i, step))
  <1> DEFINE old == cases[c].steps
             s == [old EXCEPT ![i] = step]
             g == [j \in 1..Len(s) |-> j]
  <1>1. IsDocument(cases)
    BY DEF Shape
  <1>2. /\ DOMAIN cases = 1..Len(cases) /\ c \in 1..Len(cases)
        /\ AreSteps(old) /\ DOMAIN old = 1..Len(old) /\ i \in 1..Len(old)
    BY <1>1, CasesAre
  <1>3. WithStep(c, i, step) = WithSteps(c, s)
    BY DEF WithStep, WithSteps
  <1>4. \A j \in 1..Len(old) : IsStep(old[j])
    BY <1>2 DEF AreSteps
  <1> HIDE DEF old
  <1>5. /\ IsSeq(s) /\ Len(s) = Len(old) /\ s[i] = step /\ Len(old) # 0
        /\ \A j \in 1..Len(old) : j # i => s[j] = old[j]
    <2>1. IsSeq(old) /\ i \in 1..Len(old)
      BY <1>2 DEF AreSteps
    <2>2. Len(old) \in Nat
      BY <2>1, IsSeqMeans
    <2>3. Len(old) # 0
      BY <2>1, <2>2
    <2>4. QED
      BY <2>1, <2>3, ReplacedAt
  <1> HIDE DEF s
  <1>6. AreSteps(s)
    BY <1>4, <1>5 DEF AreSteps
  <1>7. \A j \in 1..Len(s) : s[j].events = old[j].events
    BY <1>2, <1>5 DEF old
  <1>8. \A j \in 1..Len(s) : SameStep(s[j], old[j], step.id)
    <2>1. ASSUME NEW j \in 1..Len(s) PROVE SameStep(s[j], old[j], step.id)
      <3>1. CASE j = i
        BY <1>5, <3>1 DEF SameStep, old
      <3>2. CASE j # i
        BY <1>4, <1>5, <3>2, AsItWas
      <3>3. QED
        BY <3>1, <3>2
    <2>2. QED
      BY <2>1
  <1>9. /\ g \in [1..Len(s) -> 1..Len(old)]
        /\ \A j \in 1..Len(s) : g[j] = j
    BY <1>5
  <1> HIDE DEF g
  <1>10. Left(WithSteps(c, s), step.id)
    <2>1. /\ \A j, k \in 1..Len(s) : g[j] = g[k] => j = k
          /\ \A j \in 1..Len(s) : SameStep(s[j], old[g[j]], step.id)
          /\ \A j \in 1..Len(s) : \A e \in s[j].events : \E k \in 1..Len(old) : e \in old[k].events
      BY <1>5, <1>7, <1>8, <1>9
    <2>2. QED
      BY <1>5, <1>6, <1>9, <2>1, OneCaseLeft DEF old
  <1>11. Kept(WithSteps(c, s), {})
    <2>1. /\ \A j \in 1..Len(s) : \A e \in s[j].events : \E k \in 1..Len(old) : e \in old[k].events
          /\ \A j \in 1..Len(old) : \A e \in old[j].events :
                e \in {} \/ \E k \in 1..Len(s) : e \in s[k].events
          /\ \A e \in {} : e \in Events(cases)
      BY <1>5, <1>7
    <2>2. (\A j, k \in 1..Len(old) : old[j].events \cap old[k].events # {} => j = k)
          => \A j, k \in 1..Len(s) : s[j].events \cap s[k].events # {} => j = k
      BY <1>5, <1>7
    <2>3. QED
      BY <1>1, <1>2, <1>6, <2>1, <2>2, OneCaseOnce DEF old, Kept, WithSteps
  <1>12. ASSUME \A claim \in ToSet(step.claims) : claim.by = "confirmed" =>
                   \E was \in ToSet(old[i].claims) : was.id = claim.id /\ was.by = "confirmed"
         PROVE  Testified(cases, WithSteps(c, s))
    <2>1. ASSUME NEW j \in 1..Len(s), NEW claim \in ToSet(s[j].claims), claim.by = "confirmed"
          PROVE  \E k \in 1..Len(old) : \E was \in ToSet(old[k].claims) :
                    was.id = claim.id /\ was.by = "confirmed"
      <3>1. CASE j = i
        BY <1>2, <1>5, <1>12, <2>1, <3>1
      <3>2. CASE j # i
        BY <1>5, <2>1, <3>2
      <3>3. QED
        BY <3>1, <3>2
    <2>2. QED
      BY <1>1, <1>2, <1>6, <2>1, OneCaseTestified DEF old, WithSteps
  <1>13. QED
    BY <1>3, <1>10, <1>11, <1>12 DEF old

---------------------------------------------------------------------------
\* An edit that is saved and recorded, and what is given up by it.
Edited(label, lost) ==
    \E doc :
        /\ Left(doc, label) /\ Save(doc) /\ Noted(label)
        /\ label \in StepIds(cases) \cup {NoStep}
        /\ lost \subseteq Events(cases) /\ gone' = gone \cup lost
        /\ plain' \in BOOLEAN /\ (plain' => plain /\ Kept(doc, lost))

\* The same, of an edit.
LEMMA EditedKeepsIInv ==
  ASSUME IInv, NEW label, NEW lost, Edited(label, lost)
  PROVE  IInv'
  <1>1. PICK doc :
           /\ Left(doc, label) /\ Save(doc) /\ Noted(label)
           /\ label \in StepIds(cases) \cup {NoStep}
           /\ lost \subseteq Events(cases) /\ gone' = gone \cup lost
           /\ plain' \in BOOLEAN /\ (plain' => plain /\ Kept(doc, lost))
    BY DEF Edited
  <1>2. QED
    BY <1>1, EditKeepsIInv

\* Saving makes no testimony.
LEMMA SavedTestifies ==
  ASSUME Shape, NEW doc, NEW label, Left(doc, label), Save(doc), Noted(label), Testified(cases, doc)
  PROVE  Testified(cases, cases')
  <1>1. IsSeq(edits')
    BY NotedMeans DEF Shape
  <1>2. Confirmed(cases') = Confirmed(doc)
    BY <1>1, SavedIsShaped
  <1>3. QED
    BY <1>2 DEF Testified

\* An edit that leaves the other steps as they are.
LEMMA SavedInPlace ==
  ASSUME IInv, NEW c \in DOMAIN cases, NEW i \in DOMAIN cases[c].steps, NEW step, IsStep(step),
         step.id = cases[c].steps[i].id, step.events = cases[c].steps[i].events,
         Save(WithStep(c, i, step)), NEW kind \in EditKinds, NEW claim, Record(kind, c, step.id, claim),
         UNCHANGED <<gone, plain>>
  PROVE  /\ Edited(step.id, {})
         /\ (\A x \in ToSet(step.claims) : x.by = "confirmed" =>
                \E was \in ToSet(cases[c].steps[i].claims) : was.id = x.id /\ was.by = "confirmed")
            => Testified(cases, cases')
  <1>1. Shape /\ plain \in BOOLEAN
    BY DEF IInv, ReviewTypeOK
  <1>2. /\ Left(WithStep(c, i, step), step.id) /\ Kept(WithStep(c, i, step), {})
        /\ (\A x \in ToSet(step.claims) : x.by = "confirmed" =>
               \E was \in ToSet(cases[c].steps[i].claims) : was.id = x.id /\ was.by = "confirmed")
           => Testified(cases, WithStep(c, i, step))
    BY <1>1, InPlace
  <1>3. Noted(step.id)
    BY DEF Noted
  <1>4. step.id \in StepIds(cases)
    BY Somewhere
  <1>5. {} \subseteq Events(cases) /\ gone' = gone \cup {} /\ plain' = plain
    OBVIOUS
  <1>6. Edited(step.id, {})
    BY <1>1, <1>2, <1>3, <1>4, <1>5 DEF Edited
  <1>7. QED
    BY <1>1, <1>2, <1>3, <1>6, SavedTestifies

\* The steps of a case of a document that is saved.
LEMMA TheCase ==
  ASSUME Shape, NEW c \in DOMAIN cases
  PROVE  /\ AreSteps(cases[c].steps) /\ DOMAIN cases[c].steps = 1..Len(cases[c].steps)
         /\ IsSeq(cases[c].steps) /\ Len(cases[c].steps) \in Nat
         /\ \A i \in 1..Len(cases[c].steps) : IsStep(cases[c].steps[i])
         /\ DOMAIN cases = 1..Len(cases) /\ c \in 1..Len(cases) /\ IsDocument(cases)
  <1>1. IsDocument(cases)
    BY DEF Shape
  <1>2. /\ DOMAIN cases = 1..Len(cases) /\ c \in 1..Len(cases)
        /\ AreSteps(cases[c].steps) /\ DOMAIN cases[c].steps = 1..Len(cases[c].steps)
    BY <1>1, CasesAre
  <1>3. IsSeq(cases[c].steps) /\ \A i \in 1..Len(cases[c].steps) : IsStep(cases[c].steps[i])
    BY <1>2 DEF AreSteps
  <1>4. QED
    BY <1>1, <1>2, <1>3, IsSeqMeans

\* A step in other words.
LEMMA StepWithText ==
  ASSUME NEW step, IsStep(step), NEW word
  PROVE  LET new == [step EXCEPT !.text = word] IN
         /\ IsStep(new) /\ new.text = word
         /\ new.id = step.id /\ new.role = step.role /\ new.keyword = step.keyword
         /\ new.events = step.events /\ new.claims = step.claims
         /\ new.asked = step.asked /\ new.low = step.low
  <1> DEFINE new == [step EXCEPT !.text = word]
  <1>1. step = [id |-> step.id, text |-> step.text, role |-> step.role, keyword |-> step.keyword,
               events |-> step.events, claims |-> step.claims, asked |-> step.asked, low |-> step.low]
    BY DEF IsStep
  <1>2. new = [id |-> step.id, text |-> word, role |-> step.role, keyword |-> step.keyword,
               events |-> step.events, claims |-> step.claims, asked |-> step.asked, low |-> step.low]
    BY <1>1
  <1> HIDE DEF new
  <1>3. /\ new.text = word
        /\ new.id = step.id /\ new.role = step.role /\ new.keyword = step.keyword
        /\ new.events = step.events /\ new.claims = step.claims
        /\ new.asked = step.asked /\ new.low = step.low
    BY <1>2
  <1>4. new = [id |-> new.id, text |-> new.text, role |-> new.role, keyword |-> new.keyword,
               events |-> new.events, claims |-> new.claims, asked |-> new.asked, low |-> new.low]
    BY <1>2, <1>3
  <1>5. IsStep(new)
    BY <1>3, <1>4 DEF IsStep
  <1>6. QED
    BY <1>3, <1>5 DEF new

---------------------------------------------------------------------------
\* EditStepText.
LEMMA StepTextEdited ==
  ASSUME IInv, NEW c \in DOMAIN cases, NEW i \in DOMAIN cases[c].steps, NEW word,
         EditStepText(c, i, word)
  PROVE  Edited(cases[c].steps[i].id, {}) /\ Testified(cases, cases')
  <1> DEFINE step == cases[c].steps[i]
             new == [step EXCEPT !.text = word]
  <1>1. Shape /\ IsStep(step)
    BY TheCase DEF IInv
  <1>2. /\ Save(WithStep(c, i, new)) /\ Record("step_text", c, step.id, NoClaim)
        /\ UNCHANGED <<gone, plain>>
    BY DEF EditStepText
  <1> HIDE DEF step
  <1>3. IsStep(new) /\ new.id = step.id /\ new.events = step.events /\ new.claims = step.claims
    BY <1>1, StepWithText
  <1>4. "step_text" \in EditKinds
    BY DEF EditKinds
  <1> HIDE DEF new
  <1>5. Edited(new.id, {}) /\ Testified(cases, cases')
    <2>1. Record("step_text", c, new.id, NoClaim) /\ \A x \in ToSet(new.claims) : x.by = "confirmed" =>
                \E was \in ToSet(cases[c].steps[i].claims) : was.id = x.id /\ was.by = "confirmed"
      BY <1>2, <1>3 DEF step
    <2>2. new.id = cases[c].steps[i].id /\ new.events = cases[c].steps[i].events
      BY <1>3 DEF step
    <2>3. QED
      BY <1>2, <1>3, <1>4, <2>1, <2>2, SavedInPlace
  <1>6. QED
    BY <1>3, <1>5 DEF step

\* A step one expected result of which is as good as it was.
LEMMA ClaimEdited ==
  ASSUME IInv, NEW c \in DOMAIN cases, NEW i \in DOMAIN cases[c].steps,
         NEW k \in DOMAIN cases[c].steps[i].claims, NEW claim, IsClaim(claim),
         claim.id = cases[c].steps[i].claims[k].id, claim.by = cases[c].steps[i].claims[k].by,
         Save(WithStep(c, i, Reclaimed(cases[c].steps[i], [cases[c].steps[i].claims EXCEPT ![k] = claim]))),
         NEW kind \in EditKinds, NEW noted, Record(kind, c, cases[c].steps[i].id, noted),
         UNCHANGED <<gone, plain>>
  PROVE  Edited(cases[c].steps[i].id, {}) /\ Testified(cases, cases')
  <1> DEFINE step == cases[c].steps[i]
             claims == [step.claims EXCEPT ![k] = claim]
             new == Reclaimed(step, claims)
  <1>1. Shape /\ IsStep(step)
    BY TheCase DEF IInv
  <1>2. Save(WithStep(c, i, new))
    OBVIOUS
  <1> HIDE DEF step
  <1>3. /\ IsSeq(claims) /\ Len(claims) = Len(step.claims) /\ claims[k] = claim
        /\ \A m \in 1..Len(claims) : IsClaim(claims[m])
        /\ \A m \in 1..Len(claims) : m # k => claims[m] = step.claims[m]
    BY <1>1, ClaimReplaced DEF step
  <1> HIDE DEF claims
  <1>4. IsStep(new) /\ new.id = step.id /\ new.events = step.events /\ new.claims = claims
    BY <1>1, <1>3, StepWithClaims
  <1> HIDE DEF new
  <1>5. DOMAIN step.claims = 1..Len(step.claims) /\ DOMAIN claims = 1..Len(claims)
    BY <1>1, <1>3, IsSeqMeans DEF IsStep
  <1>6. ASSUME NEW x \in ToSet(claims), x.by = "confirmed"
        PROVE  \E was \in ToSet(step.claims) : was.id = x.id /\ was.by = "confirmed"
    <2>1. PICK m \in 1..Len(claims) : x = claims[m]
      BY <1>5 DEF ToSet
    <2>2. m \in DOMAIN step.claims /\ step.claims[m] \in ToSet(step.claims)
      BY <1>3, <1>5 DEF ToSet
    <2>3. step.claims[m].id = x.id /\ step.claims[m].by = x.by
      <3>1. CASE m = k
        BY <1>3, <2>1, <3>1 DEF step
      <3>2. CASE m # k
        BY <1>3, <2>1, <3>2
      <3>3. QED
        BY <3>1, <3>2
    <2>4. QED
      BY <1>6, <2>2, <2>3
  <1>7. /\ Record(kind, c, new.id, noted)
        /\ \A x \in ToSet(new.claims) : x.by = "confirmed" =>
                \E was \in ToSet(cases[c].steps[i].claims) : was.id = x.id /\ was.by = "confirmed"
        /\ new.id = cases[c].steps[i].id /\ new.events = cases[c].steps[i].events
    BY <1>4, <1>6 DEF step
  <1>8. Edited(new.id, {}) /\ Testified(cases, cases')
    BY <1>2, <1>4, <1>7, SavedInPlace, ZenonT(30)
  <1>9. QED
    BY <1>7, <1>8

\* SetAssertion.
LEMMA AssertionSet ==
  ASSUME IInv, NEW c \in DOMAIN cases, NEW i \in DOMAIN cases[c].steps,
         NEW claim \in ClaimIds(cases[c].steps[i]), NEW accepted \in BOOLEAN,
         SetAssertion(c, i, claim, accepted)
  PROVE  Edited(cases[c].steps[i].id, {}) /\ Testified(cases, cases')
  <1> DEFINE step == cases[c].steps[i]
             k == Place(step, claim)
             x == [step.claims[k] EXCEPT !.accepted = accepted]
             kind == IF accepted THEN "assertion_accepted" ELSE "assertion_rejected"
  <1>1. Shape /\ IsStep(step)
    BY TheCase DEF IInv
  <1>2. k \in DOMAIN step.claims /\ IsClaim(step.claims[k])
    BY <1>1, PlaceIs DEF IsStep
  <1>3. IsClaim(x) /\ x.id = step.claims[k].id /\ x.by = step.claims[k].by
    <2> HIDE DEF step, k
    <2> QED BY <1>2, ClaimDecided
  <1>4. Save(WithStep(c, i, Reclaimed(step, [step.claims EXCEPT ![k] = x])))
    BY DEF SetAssertion, Reclaimed
  <1>5. Record(kind, c, step.id, claim) /\ UNCHANGED <<gone, plain>>
    BY DEF SetAssertion
  <1>6. kind \in EditKinds
    BY DEF EditKinds
  <1> HIDE DEF k, x, kind
  <1>7. QED
    BY <1>2, <1>3, <1>4, <1>5, <1>6, ClaimEdited

\* EditAssertionText.
LEMMA AssertionTextEdited ==
  ASSUME IInv, NEW c \in DOMAIN cases, NEW i \in DOMAIN cases[c].steps,
         NEW claim \in ClaimIds(cases[c].steps[i]), NEW word,
         EditAssertionText(c, i, claim, word)
  PROVE  Edited(cases[c].steps[i].id, {}) /\ Testified(cases, cases')
  <1> DEFINE step == cases[c].steps[i]
             k == Place(step, claim)
             x == [step.claims[k] EXCEPT !.text = word]
  <1>1. Shape /\ IsStep(step)
    BY TheCase DEF IInv
  <1>2. k \in DOMAIN step.claims /\ IsClaim(step.claims[k])
    BY <1>1, PlaceIs DEF IsStep
  <1>3. IsClaim(x) /\ x.id = step.claims[k].id /\ x.by = step.claims[k].by
    <2> HIDE DEF step, k
    <2> QED BY <1>2, ClaimReworded
  <1>4. Save(WithStep(c, i, Reclaimed(step, [step.claims EXCEPT ![k] = x])))
    BY DEF EditAssertionText, Reclaimed
  <1>5. Record("assertion_text", c, step.id, claim) /\ UNCHANGED <<gone, plain>>
    BY DEF EditAssertionText
  <1>6. "assertion_text" \in EditKinds
    BY DEF EditKinds
  <1> HIDE DEF k, x
  <1>7. QED
    BY <1>2, <1>3, <1>4, <1>5, <1>6, ClaimEdited

\* A person stands for what was stood for, and for what a step that is put in
\* place has.
LEMMA InPlaceConfirmed ==
  ASSUME Shape, NEW c \in DOMAIN cases, NEW i \in DOMAIN cases[c].steps, NEW step, IsStep(step),
         NEW claim \in Confirmed(WithStep(c, i, step))
  PROVE  claim.by = "confirmed" /\ (claim \in Confirmed(cases) \/ claim \in ToSet(step.claims))
  <1> DEFINE old == cases[c].steps
             s == [old EXCEPT ![i] = step]
             new == [cases EXCEPT ![c].steps = s]
  <1>1. /\ IsDocument(cases) /\ DOMAIN cases = 1..Len(cases) /\ c \in 1..Len(cases)
        /\ IsSeq(old) /\ DOMAIN old = 1..Len(old) /\ i \in 1..Len(old)
        /\ \A j \in 1..Len(old) : IsStep(old[j])
    BY TheCase
  <1>2. WithStep(c, i, step) = new
    BY DEF WithStep
  <1> HIDE DEF old
  <1>3. /\ IsSeq(s) /\ Len(s) = Len(old) /\ s[i] = step
        /\ \A j \in 1..Len(old) : j # i => s[j] = old[j]
    <2>1. IsSeq(old) /\ i \in 1..Len(old)
      BY <1>1
    <2>2. QED
      BY <2>1, ReplacedAt
  <1> HIDE DEF s
  <1>4. AreSteps(s)
    BY <1>1, <1>3 DEF AreSteps
  <1>5. /\ DOMAIN new = DOMAIN cases /\ new[c].steps = s
        /\ \A d \in 1..Len(cases) : d # c => new[d] = cases[d]
    BY <1>1, <1>4, OtherSteps
  <1>6. DOMAIN s = 1..Len(s)
    BY <1>3, IsSeqMeans
  <1> HIDE DEF new
  <1>7. claim.by = "confirmed" /\ \E d \in DOMAIN new : \E j \in DOMAIN new[d].steps : claim \in ToSet(new[d].steps[j].claims)
    BY <1>2, ConfirmedAre
  <1>12. PICK d \in DOMAIN new : \E j \in DOMAIN new[d].steps : claim \in ToSet(new[d].steps[j].claims)
    BY <1>7
  <1>8. PICK j \in DOMAIN new[d].steps : claim \in ToSet(new[d].steps[j].claims)
    BY <1>12
  <1>9. CASE d = c
    <2>1. j \in 1..Len(old) /\ claim \in ToSet(s[j].claims)
      BY <1>3, <1>5, <1>6, <1>8, <1>9
    <2>2. CASE j = i
      BY <1>3, <1>7, <2>1, <2>2
    <2>3. CASE j # i
      <3>1. claim \in ToSet(cases[c].steps[j].claims) /\ j \in DOMAIN cases[c].steps
        BY <1>1, <1>3, <2>1, <2>3 DEF old
      <3>2. QED
        BY <1>7, <3>1, ConfirmedAre
    <2>4. QED
      BY <2>2, <2>3
  <1>10. CASE d # c
    <2>1. d \in DOMAIN cases /\ j \in DOMAIN cases[d].steps /\ claim \in ToSet(cases[d].steps[j].claims)
      BY <1>1, <1>5, <1>8, <1>10
    <2>2. QED
      BY <1>7, <2>1, ConfirmedAre
  <1>11. QED
    BY <1>9, <1>10

\* An expected result somebody stands for.
LEMMA ClaimVouched ==
  ASSUME NEW claim, IsClaim(claim)
  PROVE  LET new == [claim EXCEPT !.by = "confirmed"] IN
         IsClaim(new) /\ new.id = claim.id /\ new.accepted = claim.accepted
  <1> DEFINE new == [claim EXCEPT !.by = "confirmed"]
  <1>1. new = [id |-> claim.id, text |-> claim.text, accepted |-> claim.accepted, by |-> "confirmed"]
    BY DEF IsClaim
  <1> HIDE DEF new
  <1>2. /\ new.id = claim.id /\ new.accepted = claim.accepted /\ new.by = "confirmed"
        /\ new.text = claim.text
    BY <1>1
  <1>3. IsClaim(new)
    BY <1>1, <1>2 DEF IsClaim
  <1>4. QED
    BY <1>2, <1>3 DEF new

\* The reviewer's word stands for what is accepted, and the rest is as it was.
LEMMA VouchedAre ==
  ASSUME NEW claims, IsSeq(claims), \A k \in 1..Len(claims) : IsClaim(claims[k])
  PROVE  /\ IsSeq(Vouched(claims)) /\ Len(Vouched(claims)) = Len(claims)
         /\ \A k \in 1..Len(claims) :
               /\ IsClaim(Vouched(claims)[k]) /\ Vouched(claims)[k].id = claims[k].id
               /\ Vouched(claims)[k].accepted = claims[k].accepted
               /\ Vouched(claims)[k].accepted \/ Vouched(claims)[k] = claims[k]
  <1> DEFINE t == Vouched(claims)
  <1>1. Len(claims) \in Nat /\ DOMAIN claims = 1..Len(claims)
    BY IsSeqMeans
  <1>2. t = [k \in 1..Len(claims) |-> IF claims[k].accepted THEN [claims[k] EXCEPT !.by = "confirmed"]
                                      ELSE claims[k]]
    BY <1>1 DEF Vouched
  <1>3. /\ DOMAIN t = 1..Len(claims) /\ t = [k \in 1..Len(claims) |-> t[k]]
        /\ \A k \in 1..Len(claims) : t[k] = IF claims[k].accepted THEN [claims[k] EXCEPT !.by = "confirmed"]
                                            ELSE claims[k]
    BY <1>2
  <1> HIDE DEF t
  <1>4. IsSeq(t) /\ Len(t) = Len(claims)
    BY <1>1, <1>3, Made
  <1>5. ASSUME NEW k \in 1..Len(claims)
        PROVE  /\ IsClaim(t[k]) /\ t[k].id = claims[k].id /\ t[k].accepted = claims[k].accepted
               /\ t[k].accepted \/ t[k] = claims[k]
    <2>1. CASE claims[k].accepted
      <3>1. t[k] = [claims[k] EXCEPT !.by = "confirmed"] /\ IsClaim(claims[k])
        BY <1>3, <2>1
      <3>2. IsClaim(t[k]) /\ t[k].id = claims[k].id /\ t[k].accepted = claims[k].accepted
        BY <3>1, ClaimVouched
      <3>3. QED
        BY <2>1, <3>2
    <2>2. CASE ~claims[k].accepted
      BY <1>3, <2>2
    <2>3. QED
      BY <2>1, <2>2
  <1>6. QED
    BY <1>4, <1>5 DEF t

\* A step whose question is settled.
Settled(step, asked, low, claims) == [step EXCEPT !.asked = asked, !.low = low, !.claims = claims]

\* A step whose question is answered.
LEMMA StepSettled ==
  ASSUME NEW step, IsStep(step), NEW asked, NEW low, NEW claims, IsSeq(claims),
         \A k \in 1..Len(claims) : IsClaim(claims[k])
  PROVE  LET new == Settled(step, asked, low, claims) IN
         IsStep(new) /\ new.id = step.id /\ new.events = step.events /\ new.claims = claims
  <1> DEFINE new == Settled(step, asked, low, claims)
  <1>1. step = [id |-> step.id, text |-> step.text, role |-> step.role, keyword |-> step.keyword,
               events |-> step.events, claims |-> step.claims, asked |-> step.asked, low |-> step.low]
    BY DEF IsStep
  <1>2. new = [id |-> step.id, text |-> step.text, role |-> step.role, keyword |-> step.keyword,
               events |-> step.events, claims |-> claims, asked |-> asked, low |-> low]
    <2> DEFINE a == [step EXCEPT !.asked = asked]
               b == [a EXCEPT !.low = low]
    <2>1. a = [id |-> step.id, text |-> step.text, role |-> step.role, keyword |-> step.keyword,
               events |-> step.events, claims |-> step.claims, asked |-> asked, low |-> step.low]
      BY <1>1
    <2>2. b = [id |-> step.id, text |-> step.text, role |-> step.role, keyword |-> step.keyword,
               events |-> step.events, claims |-> step.claims, asked |-> asked, low |-> low]
      <3> HIDE DEF a
      <3> QED BY <2>1
    <2>3. new = [b EXCEPT !.claims = claims]
      BY DEF Settled
    <2> HIDE DEF b, new
    <2>4. QED
      BY <2>2, <2>3
  <1> HIDE DEF new
  <1>3. /\ new.id = step.id /\ new.text = step.text /\ new.role = step.role
        /\ new.keyword = step.keyword /\ new.events = step.events /\ new.claims = claims
        /\ new.asked = asked /\ new.low = low
    BY <1>2
  <1>4. new = [id |-> new.id, text |-> new.text, role |-> new.role, keyword |-> new.keyword,
               events |-> new.events, claims |-> new.claims, asked |-> new.asked, low |-> new.low]
    BY <1>2, <1>3
  <1>5. DOMAIN claims = 1..Len(claims)
    BY IsSeqMeans
  <1>6. IsStep(new)
    BY <1>3, <1>4, <1>5 DEF IsStep
  <1>7. QED
    BY <1>3, <1>6 DEF new

\* AnswerEscalation: accepted results of the step become testimony.
LEMMA EscalationAnswered ==
  ASSUME IInv, NEW c \in DOMAIN cases, NEW i \in DOMAIN cases[c].steps, AnswerEscalation(c, i)
  PROVE  /\ Edited(cases[c].steps[i].id, {})
         /\ \A claim \in Confirmed(cases') :
               \/ \E old \in Confirmed(cases) : old.id = claim.id
               \/ claim.accepted /\ claim.id \in ClaimIds(cases[c].steps[i])
  <1> DEFINE step == cases[c].steps[i]
             claims == Vouched(step.claims)
             new == [step EXCEPT !.asked = FALSE, !.low = FALSE, !.claims = claims]
  <1>1. Shape /\ IsStep(step)
    BY TheCase DEF IInv
  <1>2. /\ Save(WithStep(c, i, new)) /\ Record("escalation_answered", c, step.id, NoClaim)
        /\ UNCHANGED <<gone, plain>>
    BY DEF AnswerEscalation
  <1> HIDE DEF step
  <1>3. /\ IsSeq(step.claims) /\ DOMAIN step.claims = 1..Len(step.claims)
        /\ \A k \in 1..Len(step.claims) : IsClaim(step.claims[k])
    BY <1>1, IsSeqMeans DEF IsStep
  <1>4. /\ IsSeq(claims) /\ Len(claims) = Len(step.claims)
        /\ \A k \in 1..Len(step.claims) :
               /\ IsClaim(claims[k]) /\ claims[k].id = step.claims[k].id
               /\ claims[k].accepted = step.claims[k].accepted
               /\ claims[k].accepted \/ claims[k] = step.claims[k]
    BY <1>3, VouchedAre
  <1>5. IsStep(new) /\ new.id = step.id /\ new.events = step.events /\ new.claims = claims
    <2> HIDE DEF claims
    <2>0. PICK no : no = FALSE
      OBVIOUS
    <2>1. new = Settled(step, no, no, claims)
      BY <2>0, Zenon DEF Settled
    <2>2. \A k \in 1..Len(claims) : IsClaim(claims[k])
      BY <1>4
    <2>3. IsStep(step) /\ IsSeq(claims)
      BY <1>1, <1>4
    <2>4. LET x == Settled(step, no, no, claims) IN
          IsStep(x) /\ x.id = step.id /\ x.events = step.events /\ x.claims = claims
      BY <2>2, <2>3, StepSettled
    <2> HIDE DEF new
    <2>5. QED
      BY <2>1, <2>4, Zenon
  <1> HIDE DEF new
  <1>6. "escalation_answered" \in EditKinds
    BY DEF EditKinds
  <1>7. Record("escalation_answered", c, new.id, NoClaim)
        /\ new.id = cases[c].steps[i].id /\ new.events = cases[c].steps[i].events
    BY <1>2, <1>5 DEF step
  <1>8. Edited(new.id, {})
    BY <1>2, <1>5, <1>6, <1>7, SavedInPlace
  <1>9. ASSUME NEW claim \in Confirmed(cases')
        PROVE  \/ \E old \in Confirmed(cases) : old.id = claim.id
               \/ claim.accepted /\ claim.id \in ClaimIds(step)
    <2>1. Left(WithStep(c, i, new), new.id)
      BY <1>1, <1>5, <1>7, InPlace
    <2>2. Noted(new.id)
      BY <1>6, <1>7 DEF Noted
    <2>3. IsSeq(edits')
      BY <1>1, <2>2, NotedMeans DEF Shape
    <2>4. claim \in Confirmed(WithStep(c, i, new))
      BY <1>1, <1>2, <2>1, <2>3, SavedIsShaped
    <2>5. claim.by = "confirmed" /\ (claim \in Confirmed(cases) \/ claim \in ToSet(claims))
      BY <1>1, <1>5, <2>4, InPlaceConfirmed
    <2>6. CASE claim \in ToSet(claims)
      <3> HIDE DEF claims
      <3>1. PICK k \in 1..Len(step.claims) : claim = claims[k]
        BY <1>4, <2>6, IsSeqMeans DEF ToSet
      <3>2. claim.id \in ClaimIds(step)
        BY <1>3, <1>4, <3>1 DEF ClaimIds
      <3>3. CASE claim = step.claims[k]
        <4>1. claim \in ToSet(cases[c].steps[i].claims)
          BY <1>3, <3>3 DEF ToSet, step
        <4>2. claim \in Confirmed(cases)
          BY <2>5, <4>1, ConfirmedAre
        <4>3. QED
          BY <4>2
      <3>4. CASE claim # step.claims[k]
        BY <1>4, <3>1, <3>2, <3>4
      <3>5. QED
        BY <3>3, <3>4
    <2>7. QED
      BY <2>5, <2>6
  <1>10. QED
    BY <1>7, <1>8, <1>9 DEF step

---------------------------------------------------------------------------
\* The steps of s are steps of old, each another, and have nothing from elsewhere.
Pulled(g, s, old, label) ==
    /\ g \in [1..Len(s) -> 1..Len(old)]
    /\ \A j, k \in 1..Len(s) : g[j] = g[k] => j = k
    /\ \A j \in 1..Len(s) : SameStep(s[j], old[g[j]], label)
    /\ \A j \in 1..Len(s) : \A e \in s[j].events : \E i \in 1..Len(old) : e \in old[i].events
    /\ \A j \in 1..Len(s) : \A claim \in ToSet(s[j].claims) :
          \E i \in 1..Len(old) : claim \in ToSet(old[i].claims)

\* Steps that are left when one has taken over from others are pulled from those
\* there were.
LEMMA RidPulled ==
  ASSUME NEW old, AreSteps(old), NEW r, IsSeq(r), Len(r) = Len(old), NEW label, NEW ids,
         \A j \in 1..Len(old) :
            /\ IsStep(r[j]) /\ SameStep(r[j], old[j], label)
            /\ \A e \in r[j].events : \E i \in 1..Len(old) : e \in old[i].events
            /\ \A claim \in ToSet(r[j].claims) : \E i \in 1..Len(old) : claim \in ToSet(old[i].claims)
  PROVE  /\ AreSteps(Rid(r, ids)) /\ Len(Rid(r, ids)) \in Nat
         /\ \E h : Rids(h, Rid(r, ids), r, ids) /\ Pulled(h, Rid(r, ids), old, label)
  <1> DEFINE s == Rid(r, ids)
  <1>1. IsSeq(s) /\ Len(s) \in Nat /\ \E h : Rids(h, s, r, ids)
    BY RidOf
  <1> HIDE DEF s
  <1>2. PICK h : Rids(h, s, r, ids)
    BY <1>1
  <1>3. \A j \in 1..Len(s) : h[j] \in 1..Len(old) /\ s[j] = r[h[j]]
    BY <1>2 DEF Rids, Picks
  <1>4. h \in [1..Len(s) -> 1..Len(old)] /\ \A j, k \in 1..Len(s) : h[j] = h[k] => j = k
    BY <1>2 DEF Rids, Picks
  <1>5. AreSteps(s)
    BY <1>1, <1>3 DEF AreSteps
  <1>6. /\ \A j \in 1..Len(s) : SameStep(s[j], old[h[j]], label)
        /\ \A j \in 1..Len(s) : \A e \in s[j].events : \E i \in 1..Len(old) : e \in old[i].events
        /\ \A j \in 1..Len(s) : \A claim \in ToSet(s[j].claims) :
              \E i \in 1..Len(old) : claim \in ToSet(old[i].claims)
    BY <1>3
  <1>7. Pulled(h, s, old, label)
    BY <1>4, <1>6 DEF Pulled
  <1>8. QED
    BY <1>1, <1>2, <1>5, <1>7 DEF s

\* The steps as they were.
LEMMA RidOfSame ==
  ASSUME NEW old, AreSteps(old), NEW label, NEW ids
  PROVE  /\ AreSteps(Rid(old, ids)) /\ Len(Rid(old, ids)) \in Nat
         /\ \E h : Rids(h, Rid(old, ids), old, ids) /\ Pulled(h, Rid(old, ids), old, label)
  <1>1. \A j \in 1..Len(old) :
            /\ IsStep(old[j]) /\ SameStep(old[j], old[j], label)
            /\ \A e \in old[j].events : \E i \in 1..Len(old) : e \in old[i].events
            /\ \A claim \in ToSet(old[j].claims) : \E i \in 1..Len(old) : claim \in ToSet(old[i].claims)
    BY AsItWas DEF AreSteps
  <1>2. IsSeq(old)
    BY DEF AreSteps
  <1>3. QED
    BY <1>1, <1>2, RidPulled

\* One of them has taken over from others.
LEMMA RidOfGrown ==
  ASSUME NEW old, AreSteps(old), NEW first \in 1..Len(old), NEW x, IsStep(x), x.id = old[first].id,
         \A e \in x.events : \E i \in 1..Len(old) : e \in old[i].events,
         \A claim \in ToSet(x.claims) : \E i \in 1..Len(old) : claim \in ToSet(old[i].claims),
         NEW r, IsSeq(r), Len(r) = Len(old), r[first] = x,
         \A j \in 1..Len(old) : j # first => r[j] = old[j],
         NEW ids
  PROVE  /\ AreSteps(Rid(r, ids)) /\ Len(Rid(r, ids)) \in Nat
         /\ \E h : Rids(h, Rid(r, ids), r, ids) /\ Pulled(h, Rid(r, ids), old, old[first].id)
  <1>1. ASSUME NEW j \in 1..Len(old)
        PROVE  /\ IsStep(r[j]) /\ SameStep(r[j], old[j], old[first].id)
               /\ \A e \in r[j].events : \E i \in 1..Len(old) : e \in old[i].events
               /\ \A claim \in ToSet(r[j].claims) : \E i \in 1..Len(old) : claim \in ToSet(old[i].claims)
    <2>1. CASE j = first
      BY <2>1 DEF SameStep
    <2>2. CASE j # first
      BY <2>2, AsItWas DEF AreSteps
    <2>3. QED
      BY <2>1, <2>2
  <1>2. QED
    BY <1>1, RidPulled

\* An edit that leaves a case with steps pulled from its own.
LEMMA PulledEdited ==
  ASSUME IInv, NEW c \in DOMAIN cases, NEW s, AreSteps(s), NEW label \in StepIds(cases),
         NEW g, Pulled(g, s, cases[c].steps, label),
         DistinctSteps(cases) /\ NoEmptyCase(cases) => Len(s) # 0,
         Save(WithSteps(c, s)), NEW kind \in EditKinds, NEW d \in DOMAIN cases, NEW noted,
         Record(kind, d, label, noted), NEW lost, lost \subseteq Events(cases), gone' = gone \cup lost,
         plain' \in BOOLEAN, plain' => plain /\ Kept(WithSteps(c, s), lost)
  PROVE  Edited(label, lost) /\ Testified(cases, cases')
  <1>1. Shape /\ IsDocument(cases) /\ c \in 1..Len(cases)
    BY TheCase DEF IInv
  <1>2. Left(WithSteps(c, s), label)
    BY <1>1, OneCaseLeft DEF Pulled
  <1>3. Noted(label)
    BY DEF Noted
  <1>4. Edited(label, lost)
    BY <1>2, <1>3 DEF Edited
  <1>5. \A j \in 1..Len(s) : \A claim \in ToSet(s[j].claims) : claim.by = "confirmed" =>
            \E i \in 1..Len(cases[c].steps) : \E was \in ToSet(cases[c].steps[i].claims) :
               was.id = claim.id /\ was.by = "confirmed"
    BY DEF Pulled
  <1>6. Testified(cases, WithSteps(c, s))
    BY <1>1, <1>5, OneCaseTestified DEF WithSteps
  <1>7. QED
    BY <1>1, <1>2, <1>3, <1>4, <1>6, SavedTestifies

\* Where there are several there is another.
LEMMA Another ==
  ASSUME NEW n \in Nat, n # 1, NEW i \in 1..n
  PROVE  \E k \in 1..n : k # i
  <1>1. 1 \in 1..n /\ 2 \in 1..n
    OBVIOUS
  <1>2. QED
    BY <1>1

\* DeleteStep gives up the events of the steps with the id.
LEMMA StepDeleted ==
  ASSUME IInv, NEW c \in DOMAIN cases, NEW i \in DOMAIN cases[c].steps, DeleteStep(c, i)
  PROVE  \E lost : Edited(cases[c].steps[i].id, lost) /\ Testified(cases, cases')
  <1> DEFINE old == cases[c].steps
             ids == {old[i].id}
             s == Rid(old, ids)
             lost == UNION {old[k].events : k \in {k \in DOMAIN old : old[k].id = old[i].id}}
  <1>1. /\ Shape /\ AreSteps(old) /\ DOMAIN old = 1..Len(old) /\ Len(old) \in Nat
        /\ IsDocument(cases) /\ c \in 1..Len(cases) /\ i \in 1..Len(old)
    BY TheCase DEF IInv
  <1>2. /\ Len(old) # 1 /\ Save(WithSteps(c, s)) /\ Record("step_deleted", c, old[i].id, NoClaim)
        /\ gone' = gone \cup lost /\ plain' = plain
    BY DEF DeleteStep
  <1>3. /\ AreSteps(s) /\ Len(s) \in Nat
        /\ \E h : Rids(h, s, old, ids) /\ Pulled(h, s, old, old[i].id)
    BY <1>1, RidOfSame
  <1> HIDE DEF s
  <1>4. PICK h : Rids(h, s, old, ids) /\ Pulled(h, s, old, old[i].id)
    BY <1>3
  <1>5. \A k \in 1..Len(old) : old[k].id = old[i].id \/ \E j \in 1..Len(s) : h[j] = k
    BY <1>4 DEF Rids
  <1>6. DistinctSteps(cases) => Len(s) # 0
    <2>1. ASSUME DistinctSteps(cases) PROVE \E k \in 1..Len(old) : old[k].id # old[i].id
      <3>1. Len(old) \in Nat /\ i \in 1..Len(old) /\ Len(old) # 1
        BY <1>1, <1>2
      <3> HIDE DEF old
      <3>2. PICK k \in 1..Len(old) : k # i
        BY <3>1, Another
      <3>3. QED
        BY <1>1, <2>1, <3>2 DEF DistinctSteps, old
    <2>2. QED
      BY <1>3, <1>5, <2>1
  <1>7. \A e : e \in lost <=> \E k \in 1..Len(old) : old[k].id = old[i].id /\ e \in old[k].events
    BY <1>1
  <1> HIDE DEF lost
  <1>8. lost \subseteq Events(cases) /\ old[i].id \in StepIds(cases)
    <2>1. \A k \in 1..Len(old) : old[k].events \subseteq Events(cases)
      BY <1>1, Somewhere
    <2>2. QED
      BY <1>7, <2>1, Somewhere
  <1> HIDE DEF old, ids
  <1>9. Kept(WithSteps(c, s), lost)
    <2>1. /\ \A j \in 1..Len(s) : \A e \in s[j].events : \E k \in 1..Len(old) : e \in old[k].events
          /\ \A j \in 1..Len(s) : h[j] \in 1..Len(old) /\ s[j] = old[h[j]]
          /\ \A j, k \in 1..Len(s) : h[j] = h[k] => j = k
      BY <1>4 DEF Pulled, Rids, Picks
    <2>2. \A k \in 1..Len(old) : \A e \in old[k].events : e \in lost \/ \E j \in 1..Len(s) : e \in s[j].events
      BY <1>5, <1>7, <2>1
    <2>3. (\A j, k \in 1..Len(old) : old[j].events \cap old[k].events # {} => j = k)
          => \A j, k \in 1..Len(s) : s[j].events \cap s[k].events # {} => j = k
      <3>1. ASSUME \A j, k \in 1..Len(old) : old[j].events \cap old[k].events # {} => j = k,
                   NEW j \in 1..Len(s), NEW k \in 1..Len(s), s[j].events \cap s[k].events # {}
            PROVE  j = k
        <4>1. h[j] = h[k]
          BY <2>1, <3>1
        <4>2. QED
          BY <2>1, <4>1
      <3>2. QED
        BY <3>1
    <2>4. \A e \in lost : e \in Events(cases)
      BY <1>8
    <2>5. QED
      BY <1>1, <1>3, <2>1, <2>2, <2>3, <2>4, OneCaseOnce DEF old, Kept, WithSteps
  <1>10. "step_deleted" \in EditKinds /\ plain' \in BOOLEAN
    BY <1>2 DEF EditKinds, IInv, ReviewTypeOK
  <1>11. Edited(old[i].id, lost) /\ Testified(cases, cases')
    BY <1>2, <1>3, <1>4, <1>6, <1>8, <1>9, <1>10, PulledEdited DEF old
  <1>12. QED
    BY <1>11 DEF old

\* A step that has taken over the events and the expected results of others.
Grown(step, events, claims, text) ==
    [[step EXCEPT !.events = events, !.claims = claims] EXCEPT !.text = text]

\* A step with more events and expected results, and another wording.
LEMMA StepGrown ==
  ASSUME NEW step, IsStep(step), NEW events, NEW text, NEW claims, IsSeq(claims),
         \A k \in 1..Len(claims) : IsClaim(claims[k])
  PROVE  LET new == Grown(step, events, claims, text) IN
         IsStep(new) /\ new.id = step.id /\ new.events = events /\ new.claims = claims
  <1> DEFINE new == Grown(step, events, claims, text)
             a == [step EXCEPT !.events = events]
             b == [a EXCEPT !.claims = claims]
  <1>1. step = [id |-> step.id, text |-> step.text, role |-> step.role, keyword |-> step.keyword,
               events |-> step.events, claims |-> step.claims, asked |-> step.asked, low |-> step.low]
    BY DEF IsStep
  <1>2. new = [id |-> step.id, text |-> text, role |-> step.role, keyword |-> step.keyword,
               events |-> events, claims |-> claims, asked |-> step.asked, low |-> step.low]
    <2>1. a = [id |-> step.id, text |-> step.text, role |-> step.role, keyword |-> step.keyword,
               events |-> events, claims |-> step.claims, asked |-> step.asked, low |-> step.low]
      BY <1>1
    <2>2. b = [id |-> step.id, text |-> step.text, role |-> step.role, keyword |-> step.keyword,
               events |-> events, claims |-> claims, asked |-> step.asked, low |-> step.low]
      <3> HIDE DEF a
      <3> QED BY <2>1
    <2>3. new = [b EXCEPT !.text = text]
      BY DEF Grown
    <2> HIDE DEF b, new
    <2>4. QED
      BY <2>2, <2>3
  <1> HIDE DEF new
  <1>3. /\ new.id = step.id /\ new.text = text /\ new.role = step.role
        /\ new.keyword = step.keyword /\ new.events = events /\ new.claims = claims
        /\ new.asked = step.asked /\ new.low = step.low
    BY <1>2
  <1>4. new = [id |-> new.id, text |-> new.text, role |-> new.role, keyword |-> new.keyword,
               events |-> new.events, claims |-> new.claims, asked |-> new.asked, low |-> new.low]
    BY <1>2, <1>3
  <1>5. DOMAIN claims = 1..Len(claims)
    BY IsSeqMeans
  <1>6. IsStep(new)
    BY <1>3, <1>4, <1>5 DEF IsStep
  <1>7. QED
    BY <1>3, <1>6 DEF new

\* The expected results of several steps, one after the other.
LEMMA ClaimsTogether ==
  ASSUME NEW steps, AreSteps(steps), NEW first \in 1..Len(steps), NEW last \in 1..Len(steps), first < last
  PROVE  LET claims == FlattenSeq([i \in 1..(last - first + 1) |-> steps[first + i - 1].claims]) IN
         /\ IsSeq(claims) /\ \A k \in 1..Len(claims) : IsClaim(claims[k])
         /\ \A claim \in ToSet(claims) : \E i \in 1..Len(steps) : claim \in ToSet(steps[i].claims)
  <1> DEFINE n == last - first + 1
             ss == [i \in 1..n |-> steps[first + i - 1].claims]
             claims == FlattenSeq(ss)
  <1>1. /\ IsSeq(steps) /\ Len(steps) \in Nat /\ \A i \in 1..Len(steps) : IsStep(steps[i])
    BY IsSeqMeans DEF AreSteps
  <1>2. n \in Nat /\ \A i \in 1..n : first + i - 1 \in 1..Len(steps)
    BY <1>1
  <1>3. DOMAIN ss = 1..n /\ ss = [i \in 1..n |-> ss[i]] /\ \A i \in 1..n : ss[i] = steps[first + i - 1].claims
    OBVIOUS
  <1> HIDE DEF n, ss
  <1>4. IsSeq(ss) /\ Len(ss) = n
    BY <1>2, <1>3, Made
  <1>5. ASSUME NEW i \in 1..n
        PROVE  /\ IsSeq(ss[i]) /\ \A k \in DOMAIN ss[i] : IsClaim(ss[i][k])
               /\ \E j \in 1..Len(steps) : ss[i] = steps[j].claims
    <2>1. IsStep(steps[first + i - 1]) /\ first + i - 1 \in 1..Len(steps)
      BY <1>1, <1>2
    <2>2. QED
      BY <1>3, <2>1 DEF IsStep
  <1>6. SeqOfSeqs(ss)
    BY <1>4, <1>5 DEF SeqOfSeqs
  <1>7. IsSeq(claims)
    BY <1>6, StartsOf
  <1>8. \A x : x \in ToSet(claims) <=> \E i \in 1..n : x \in ToSet(ss[i])
    BY <1>4, <1>6, FlatRange
  <1> HIDE DEF claims
  <1>9. ASSUME NEW x \in ToSet(claims)
        PROVE  IsClaim(x) /\ \E j \in 1..Len(steps) : x \in ToSet(steps[j].claims)
    <2>1. PICK i \in 1..n : x \in ToSet(ss[i])
      BY <1>8
    <2>2. PICK k \in DOMAIN ss[i] : x = ss[i][k]
      BY <2>1 DEF ToSet
    <2>3. PICK j \in 1..Len(steps) : ss[i] = steps[j].claims
      BY <1>5
    <2>4. QED
      BY <1>5, <2>1, <2>2, <2>3
  <1>10. \A k \in 1..Len(claims) : claims[k] \in ToSet(claims)
    BY <1>7, IsSeqMeans
  <1>11. QED
    BY <1>7, <1>9, <1>10 DEF claims, ss, n

\* Nothing comes from elsewhere.
LEMMA CatHas ==
  ASSUME NEW s, NEW t, IsSeq(s), IsSeq(t)
  PROVE  IsSeq(s \o t) /\ \A x \in ToSet(s \o t) : x \in ToSet(s) \/ x \in ToSet(t)
  <1> DEFINE r == s \o t
  <1>1. /\ IsSeq(r) /\ Len(r) = Len(s) + Len(t)
        /\ \A i \in 1..Len(s) : r[i] = s[i]
        /\ \A i \in 1..Len(t) : r[Len(s) + i] = t[i]
        /\ \A q \in 1..(Len(s) + Len(t)) : q \in 1..Len(s) \/ q - Len(s) \in 1..Len(t)
    BY CatOf
  <1>2. /\ Len(s) \in Nat /\ DOMAIN s = 1..Len(s) /\ Len(t) \in Nat /\ DOMAIN t = 1..Len(t)
    BY IsSeqMeans
  <1> HIDE DEF r
  <1>3. DOMAIN r = 1..Len(r)
    BY <1>1, IsSeqMeans
  <1>4. ASSUME NEW x \in ToSet(r) PROVE x \in ToSet(s) \/ x \in ToSet(t)
    <2>1. PICK q \in 1..(Len(s) + Len(t)) : x = r[q]
      BY <1>1, <1>3 DEF ToSet
    <2>2. CASE q \in 1..Len(s)
      BY <1>1, <1>2, <2>1, <2>2 DEF ToSet
    <2>3. CASE q - Len(s) \in 1..Len(t)
      <3>1. r[Len(s) + (q - Len(s))] = t[q - Len(s)] /\ Len(s) + (q - Len(s)) = q
        BY <1>1, <1>2, <2>3
      <3>2. x = t[q - Len(s)]
        BY <2>1, <3>1
      <3>3. QED
        BY <1>2, <2>3, <3>2 DEF ToSet
    <2>4. QED
      BY <1>1, <2>2, <2>3
  <1>5. QED
    BY <1>1, <1>4 DEF r

Taken(step, events, claims) == [step EXCEPT !.events = events, !.claims = claims]

\* A step that has taken something over keeps its wording.
LEMMA StepKept ==
  ASSUME NEW step, IsStep(step), NEW events, NEW claims
  PROVE  LET new == Taken(step, events, claims) IN
         new.text = step.text /\ new = [new EXCEPT !.text = new.text]
  <1> DEFINE new == Taken(step, events, claims)
             a == [step EXCEPT !.events = events]
  <1>1. step = [id |-> step.id, text |-> step.text, role |-> step.role, keyword |-> step.keyword,
               events |-> step.events, claims |-> step.claims, asked |-> step.asked, low |-> step.low]
    BY DEF IsStep
  <1>2. a = [id |-> step.id, text |-> step.text, role |-> step.role, keyword |-> step.keyword,
             events |-> events, claims |-> step.claims, asked |-> step.asked, low |-> step.low]
    BY <1>1
  <1>3. new = [a EXCEPT !.claims = claims]
    BY DEF Taken
  <1> HIDE DEF a, new
  <1>4. new = [id |-> step.id, text |-> step.text, role |-> step.role, keyword |-> step.keyword,
               events |-> events, claims |-> claims, asked |-> step.asked, low |-> step.low]
    BY <1>2, <1>3
  <1>5. new.text = step.text /\ new = [new EXCEPT !.text = new.text]
    BY <1>4
  <1>6. QED
    BY <1>5 DEF new

\* MergeSteps.
LEMMA StepsMerged ==
  ASSUME IInv, NEW c \in DOMAIN cases, NEW first \in DOMAIN cases[c].steps,
         NEW last \in DOMAIN cases[c].steps, NEW text, MergeSteps(c, first, last, text)
  PROVE  Edited(cases[c].steps[first].id, {}) /\ Testified(cases, cases')
  <1> DEFINE old == cases[c].steps
             events == UNION {old[i].events : i \in first..last}
             claims == FlattenSeq([i \in 1..(last - first + 1) |-> old[first + i - 1].claims])
             x == Grown(old[first], events, claims, text)
             r == [old EXCEPT ![first] = x]
             ids == {old[k].id : k \in (first + 1)..last}
             s == Rid(r, ids)
  <1>1. /\ Shape /\ AreSteps(old) /\ DOMAIN old = 1..Len(old) /\ Len(old) \in Nat
        /\ \A j \in 1..Len(old) : IsStep(old[j])
        /\ IsDocument(cases) /\ c \in 1..Len(cases)
        /\ first \in 1..Len(old) /\ last \in 1..Len(old)
    BY TheCase DEF IInv
  <1>2. /\ first < last /\ Save(WithSteps(c, s)) /\ Record("steps_merged", c, old[first].id, NoClaim)
        /\ gone' = gone /\ plain' = (plain /\ \A k \in (first + 1)..last : Alone(old, k))
    BY DEF MergeSteps, Together, Grown
  <1>3. \A k \in first..last : \A j \in 1..Len(old) : old[j].id = old[k].id => j <= k
    BY <1>1 DEF MergeSteps, Mergeable
  <1> HIDE DEF old
  <1>4. /\ IsSeq(claims) /\ \A k \in 1..Len(claims) : IsClaim(claims[k])
        /\ \A claim \in ToSet(claims) : \E i \in 1..Len(old) : claim \in ToSet(old[i].claims)
    BY <1>1, <1>2, ClaimsTogether
  <1>5. \A e : e \in events <=> \E i \in first..last : e \in old[i].events
    OBVIOUS
  <1> HIDE DEF claims, events
  <1>6. IsStep(x) /\ x.id = old[first].id /\ x.events = events /\ x.claims = claims
    BY <1>1, <1>4, StepGrown
  <1>7. /\ first..last \subseteq 1..Len(old) /\ first \in first..last
        /\ (first + 1)..last \subseteq first..last
        /\ \A k \in first..last : k = first \/ k \in (first + 1)..last
    <2>1. /\ Len(old) \in Nat /\ first \in 1..Len(old) /\ last \in 1..Len(old) /\ first < last
      BY <1>1, <1>2
    <2>2. QED
      BY <2>1
  <1> HIDE DEF x
  <1>8. /\ \A e \in x.events : \E i \in 1..Len(old) : e \in old[i].events
        /\ \A claim \in ToSet(x.claims) : \E i \in 1..Len(old) : claim \in ToSet(old[i].claims)
    BY <1>4, <1>5, <1>6, <1>7
  <1>9. \A k \in 1..Len(old) : old[k].id \in ids <=> \E m \in (first + 1)..last : old[k].id = old[m].id
    OBVIOUS
  <1> HIDE DEF ids
  <1>24. r = Changed(old, first, x) /\ IsSeq(old) /\ first \in 1..Len(old)
    BY <1>1 DEF AreSteps, Changed
  <1> HIDE DEF r
  <1>25. IsSeq(r) /\ Len(r) = Len(old) /\ r[first] = x /\ \A j \in 1..Len(old) : j # first => r[j] = old[j]
    BY <1>24, ChangedIs
  <1>10. /\ Len(r) = Len(old) /\ r[first] = x /\ \A j \in 1..Len(old) : j # first => r[j] = old[j]
         /\ AreSteps(s) /\ Len(s) \in Nat
         /\ \E h : Rids(h, s, r, ids) /\ Pulled(h, s, old, old[first].id)
    BY <1>1, <1>6, <1>8, <1>25, RidOfGrown
  <1> HIDE DEF s
  <1>11. PICK h : Rids(h, s, r, ids) /\ Pulled(h, s, old, old[first].id)
    BY <1>10
  \* The step that takes over is still there.
  <1>12. PICK at \in 1..Len(s) : h[at] = first
    <2>1. old[first].id \notin ids
      <3>1. \A m \in (first + 1)..last : old[m].id # old[first].id
        BY <1>1, <1>3, <1>7
      <3>2. QED
        BY <1>1, <1>9, <3>1
    <2>2. r[first].id \notin ids /\ first \in 1..Len(r)
      BY <1>1, <1>6, <1>10, <2>1
    <2>3. QED
      BY <1>11, <2>2 DEF Rids
  <1>13. \A j \in 1..Len(s) : /\ h[j] \in 1..Len(old) /\ s[j] = r[h[j]] /\ s[j].id \notin ids
                              /\ h[j] # first => s[j] = old[h[j]] /\ h[j] \notin first..last
    <2>1. SUFFICES ASSUME NEW j \in 1..Len(s)
                   PROVE  /\ h[j] \in 1..Len(old) /\ s[j] = r[h[j]] /\ s[j].id \notin ids
                          /\ h[j] # first => s[j] = old[h[j]] /\ h[j] \notin first..last
      OBVIOUS
    <2>2. h[j] \in 1..Len(old) /\ s[j] = r[h[j]] /\ s[j].id \notin ids
      BY <1>10, <1>11 DEF Rids, Picks
    <2>3. h[j] # first => s[j] = old[h[j]]
      BY <1>10, <2>2
    <2>4. h[j] # first => h[j] \notin (first + 1)..last
      BY <1>9, <2>2, <2>3
    <2>5. QED
      BY <1>7, <2>2, <2>3, <2>4
  <1>14. \A j, k \in 1..Len(s) : h[j] = h[k] => j = k
    BY <1>11 DEF Pulled
  <1>15. s[at] = x
    BY <1>10, <1>12, <1>13
  <1>16. ASSUME plain' PROVE plain /\ Kept(WithSteps(c, s), {})
    <2>1. \A k \in (first + 1)..last : \A j \in 1..Len(old) : old[j].id = old[k].id => j = k
      BY <1>1, <1>2, <1>16 DEF Alone
    <2>2. ASSUME NEW k \in 1..Len(old), k \notin first..last PROVE \E j \in 1..Len(s) : h[j] = k
      <3>1. k # first /\ old[k].id \notin ids
        BY <1>7, <1>9, <2>1, <2>2
      <3>2. r[k].id \notin ids /\ k \in 1..Len(r)
        BY <1>10, <3>1
      <3>3. QED
        BY <1>11, <3>2 DEF Rids
    <2>3. \A k \in 1..Len(old) : \A e \in old[k].events : e \in {} \/ \E j \in 1..Len(s) : e \in s[j].events
      <3>1. SUFFICES ASSUME NEW k \in 1..Len(old), NEW e \in old[k].events
                     PROVE  \E j \in 1..Len(s) : e \in s[j].events
        OBVIOUS
      <3>2. CASE k \in first..last
        BY <1>5, <1>6, <1>12, <1>15, <3>2
      <3>3. CASE k \notin first..last
        <4>1. PICK j \in 1..Len(s) : h[j] = k
          BY <2>2, <3>3
        <4>2. s[j] = old[k]
          BY <1>7, <1>13, <3>3, <4>1
        <4>3. QED
          BY <4>2
      <3>4. QED
        BY <3>2, <3>3
    <2>4. ASSUME \A j, k \in 1..Len(old) : old[j].events \cap old[k].events # {} => j = k,
                 NEW j \in 1..Len(s), NEW k \in 1..Len(s), s[j].events \cap s[k].events # {}
          PROVE  j = k
      <3>1. PICK e : e \in s[j].events /\ e \in s[k].events
        BY <2>4
      <3>2. ASSUME NEW m \in 1..Len(s), h[m] # first, e \in x.events, e \in s[m].events PROVE FALSE
        <4>1. PICK i \in first..last : e \in old[i].events
          BY <1>5, <1>6, <3>2
        <4>2. i \in 1..Len(old) /\ h[m] \in 1..Len(old) /\ e \in old[h[m]].events /\ h[m] # i
          BY <1>7, <1>13, <3>2
        <4>3. old[i].events \cap old[h[m]].events # {}
          BY <4>1, <4>2
        <4>4. QED
          BY <2>4, <4>2, <4>3
      <3>3. \A m \in 1..Len(s) : h[m] = first => s[m] = x
        BY <1>10, <1>13
      <3>4. CASE h[j] = first /\ h[k] = first
        BY <1>14, <3>4
      <3>5. CASE h[j] = first /\ h[k] # first
        BY <3>1, <3>2, <3>3, <3>5
      <3>6. CASE h[j] # first /\ h[k] = first
        BY <3>1, <3>2, <3>3, <3>6
      <3>7. CASE h[j] # first /\ h[k] # first
        <4>1. old[h[j]].events \cap old[h[k]].events # {} /\ h[j] \in 1..Len(old) /\ h[k] \in 1..Len(old)
          BY <1>13, <3>1, <3>7
        <4>2. h[j] = h[k]
          BY <2>4, <4>1
        <4>3. QED
          BY <1>14, <4>2
      <3>8. QED
        BY <3>4, <3>5, <3>6, <3>7
    <2>5. (\A j, k \in 1..Len(old) : old[j].events \cap old[k].events # {} => j = k)
          => \A j, k \in 1..Len(s) : s[j].events \cap s[k].events # {} => j = k
      BY <2>4
    <2>6. \A j \in 1..Len(s) : \A e \in s[j].events : \E k \in 1..Len(old) : e \in old[k].events
      BY <1>11 DEF Pulled
    <2>7. \A e \in {} : e \in Events(cases)
      OBVIOUS
    <2>8. Kept(WithSteps(c, s), {})
      BY <1>1, <1>10, <2>3, <2>5, <2>6, <2>7, OneCaseOnce DEF old, Kept, WithSteps
    <2>9. QED
      BY <1>2, <1>16, <2>8
  <1>17. "steps_merged" \in EditKinds /\ plain' \in BOOLEAN /\ old[first].id \in StepIds(cases)
    BY <1>1, <1>2, Somewhere DEF EditKinds, IInv, ReviewTypeOK, old
  <1>18. Len(s) # 0
    BY <1>10, <1>12
  <1>19. Save(WithSteps(c, s)) /\ Record("steps_merged", c, old[first].id, NoClaim)
    BY <1>2 DEF r, s
  <1>20. PICK lost : lost = {}
    OBVIOUS
  <1>21. /\ lost \subseteq Events(cases) /\ gone' = gone \cup lost
         /\ plain' => plain /\ Kept(WithSteps(c, s), lost)
    BY <1>2, <1>16, <1>20
  <1>22. Edited(old[first].id, lost) /\ Testified(cases, cases')
    BY <1>10, <1>11, <1>17, <1>18, <1>19, <1>21, PulledEdited DEF old
  <1>23. QED
    BY <1>20, <1>22 DEF old

\* MergeNamedTwice.
LEMMA NamedTwice ==
  ASSUME IInv, NEW c \in DOMAIN cases, NEW first \in DOMAIN cases[c].steps, NEW twice,
         MergeNamedTwice(c, first, twice)
  PROVE  Edited(cases[c].steps[first].id, {}) /\ Testified(cases, cases')
  <1> DEFINE old == cases[c].steps
             last == first + 2
             claims == old[first].claims \o old[last].claims \o old[last].claims
             keeper == [old[first] EXCEPT !.events = old[first].events \cup old[last].events, !.claims = claims]
             both == {old[first].id, old[last].id}
  <1>1. /\ Shape /\ AreSteps(old) /\ DOMAIN old = 1..Len(old) /\ Len(old) \in Nat
        /\ \A j \in 1..Len(old) : IsStep(old[j])
        /\ first \in 1..Len(old)
    BY TheCase DEF IInv
  <1>2. /\ last <= Len(old) /\ Record("steps_merged", c, old[first].id, NoClaim)
        /\ plain' = FALSE /\ gone' = gone
        /\ \/ Save(WithSteps(c, Rid(old, both)))
           \/ Save(WithSteps(c, Rid([old EXCEPT ![first] = keeper], {old[last].id})))
    BY DEF MergeNamedTwice
  <1>3. last \in 1..Len(old) /\ first + 1 \in 1..Len(old) /\ first + 1 # first /\ first + 1 # last
    BY <1>1, <1>2
  <1>4. "steps_merged" \in EditKinds /\ plain' \in BOOLEAN /\ old[first].id \in StepIds(cases)
    BY <1>1, <1>2, Somewhere DEF EditKinds
  \* The step between them goes with neither.
  <1>5. DistinctSteps(cases) => old[first + 1].id # old[first].id /\ old[first + 1].id # old[last].id
    BY <1>1, <1>3 DEF DistinctSteps
  <1> HIDE DEF old, last
  <1>6. ASSUME NEW s, AreSteps(s), DistinctSteps(cases) => Len(s) # 0, Save(WithSteps(c, s)),
               NEW g, Pulled(g, s, old, old[first].id)
        PROVE  Edited(old[first].id, {}) /\ Testified(cases, cases')
    <2>1. PICK lost : lost = {}
      OBVIOUS
    <2>2. /\ lost \subseteq Events(cases) /\ gone' = gone \cup lost
          /\ plain' => plain /\ Kept(WithSteps(c, s), lost)
      BY <1>2, <2>1
    <2>3. Edited(old[first].id, lost) /\ Testified(cases, cases')
      BY <1>2, <1>4, <1>6, <2>2, PulledEdited DEF old
    <2>4. QED
      BY <2>1, <2>3
  <1>7. CASE Save(WithSteps(c, Rid(old, both)))
    <2> DEFINE s == Rid(old, both)
    <2>1. AreSteps(s) /\ Len(s) \in Nat /\ \E h : Rids(h, s, old, both) /\ Pulled(h, s, old, old[first].id)
      BY <1>1, RidOfSame
    <2>2. Save(WithSteps(c, s))
      BY <1>7
    <2> HIDE DEF s
    <2>3. PICK h : Rids(h, s, old, both) /\ Pulled(h, s, old, old[first].id)
      BY <2>1
    <2>4. DistinctSteps(cases) => Len(s) # 0
      <3>1. DistinctSteps(cases) => old[first + 1].id \notin both
        BY <1>5
      <3> HIDE DEF both
      <3>2. DistinctSteps(cases) => \E j \in 1..Len(s) : h[j] = first + 1
        BY <1>3, <2>3, <3>1 DEF Rids
      <3>3. QED
        BY <2>1, <3>2
    <2>5. QED
      BY <1>6, <2>1, <2>2, <2>3, <2>4 DEF old
  <1>8. CASE Save(WithSteps(c, Rid([old EXCEPT ![first] = keeper], {old[last].id})))
    <2> DEFINE r == [old EXCEPT ![first] = keeper]
               ids == {old[last].id}
               s == Rid(r, ids)
    <2>1. /\ IsStep(old[first]) /\ IsStep(old[last])
          /\ IsSeq(old[first].claims) /\ IsSeq(old[last].claims)
          /\ DOMAIN old[first].claims = 1..Len(old[first].claims)
          /\ DOMAIN old[last].claims = 1..Len(old[last].claims)
      BY <1>1, <1>3, IsSeqMeans DEF IsStep
    <2>2. /\ IsSeq(claims) /\ \A k \in 1..Len(claims) : IsClaim(claims[k])
          /\ \A x \in ToSet(claims) : x \in ToSet(old[first].claims) \/ x \in ToSet(old[last].claims)
      <3> DEFINE a == old[first].claims
                 b == old[last].claims
                 ab == a \o b
      <3>1. IsSeq(a) /\ IsSeq(b)
        BY <2>1
      <3>2. /\ \A x \in ToSet(a) : IsClaim(x)
            /\ \A x \in ToSet(b) : IsClaim(x)
        BY <2>1 DEF IsStep, ToSet
      <3>3. claims = ab \o b
        OBVIOUS
      <3> HIDE DEF a, b
      <3>4. IsSeq(ab) /\ \A x \in ToSet(ab) : x \in ToSet(a) \/ x \in ToSet(b)
        BY <3>1, CatHas
      <3> HIDE DEF ab
      <3>5. IsSeq(ab \o b) /\ \A x \in ToSet(ab \o b) : x \in ToSet(ab) \/ x \in ToSet(b)
        BY <3>1, <3>4, CatHas
      <3> HIDE DEF claims
      <3>6. \A x \in ToSet(claims) : IsClaim(x)
        BY <3>2, <3>3, <3>4, <3>5
      <3>7. \A k \in 1..Len(claims) : claims[k] \in ToSet(claims)
        BY <3>3, <3>5, IsSeqMeans
      <3>8. QED
        BY <3>3, <3>4, <3>5, <3>6, <3>7 DEF a, b
    <2> DEFINE events == old[first].events \cup old[last].events
    <2>3. keeper = Grown(old[first], events, claims, old[first].text)
      <3> HIDE DEF claims
      <3> DEFINE k2 == Taken(old[first], events, claims)
      <3>1. keeper = k2
        BY DEF Taken
      <3>2. k2.text = old[first].text /\ k2 = [k2 EXCEPT !.text = k2.text]
        <4> HIDE DEF keeper, events
        <4>1. IsStep(old[first])
          BY <2>1
        <4>2. QED
          BY <4>1, StepKept
      <3>3. Grown(old[first], events, claims, old[first].text) = [k2 EXCEPT !.text = old[first].text]
        BY DEF Grown, Taken
      <3> HIDE DEF k2, keeper
      <3>4. QED
        BY <3>1, <3>2, <3>3
    <2> HIDE DEF keeper, events
    <2>4. IsStep(keeper) /\ keeper.id = old[first].id /\ keeper.events = events /\ keeper.claims = claims
      <3> HIDE DEF claims
      <3>1. QED
        BY <2>1, <2>2, <2>3, StepGrown
    <2> HIDE DEF claims
    <2>5. /\ \A e \in keeper.events : \E i \in 1..Len(old) : e \in old[i].events
          /\ \A claim \in ToSet(keeper.claims) : \E i \in 1..Len(old) : claim \in ToSet(old[i].claims)
      <3>1. \A e \in keeper.events : \E i \in 1..Len(old) : e \in old[i].events
        BY <1>1, <1>3, <2>4 DEF events
      <3>2. \A claim \in ToSet(keeper.claims) : \E i \in 1..Len(old) : claim \in ToSet(old[i].claims)
        BY <1>1, <1>3, <2>2, <2>4
      <3>3. QED
        BY <3>1, <3>2
    <2> HIDE DEF ids
    <2>7. Save(WithSteps(c, s))
      BY <1>8 DEF ids
    <2>12. IsStep(keeper) /\ keeper.id = old[first].id
      BY <2>4
    <2>13. r = Changed(old, first, keeper) /\ IsSeq(old) /\ first \in 1..Len(old)
      BY <1>1 DEF AreSteps, Changed
    <2> HIDE DEF r
    <2>11. /\ IsSeq(r) /\ Len(r) = Len(old) /\ r[first] = keeper
           /\ \A j \in 1..Len(old) : j # first => r[j] = old[j]
      BY <2>13, ChangedIs
    <2>6. /\ Len(r) = Len(old) /\ \A j \in 1..Len(old) : j # first => r[j] = old[j]
          /\ AreSteps(s) /\ Len(s) \in Nat
          /\ \E h : Rids(h, s, r, ids) /\ Pulled(h, s, old, old[first].id)
      BY <1>1, <2>5, <2>11, <2>12, RidOfGrown
    <2> HIDE DEF s
    <2>8. PICK h : Rids(h, s, r, ids) /\ Pulled(h, s, old, old[first].id)
      BY <2>6
    <2>9. DistinctSteps(cases) => Len(s) # 0
      <3>1. DistinctSteps(cases) => r[first + 1].id \notin ids /\ first + 1 \in 1..Len(r)
        BY <1>3, <1>5, <2>6 DEF ids
      <3>2. DistinctSteps(cases) => \E j \in 1..Len(s) : h[j] = first + 1
        BY <2>8, <3>1 DEF Rids
      <3>3. QED
        BY <2>6, <3>2
    <2>10. QED
      BY <1>6, <2>6, <2>7, <2>8, <2>9 DEF old
  <1>9. QED
    BY <1>2, <1>7, <1>8 DEF old

\* A document with steps of another, at other places.
Carried(f, old, new, label) ==
    /\ f \in [Places(new) -> Places(old)]
    /\ \A p, q \in Places(new) : f[p] = f[q] => p = q
    /\ \A p \in Places(new) : /\ At(new, p) = At(old, f[p])
                              /\ At(new, p).id # label => p[1] = f[p][1]

\* With all of them.
Onto(f, old, new) == \A q \in Places(old) : \E p \in Places(new) : f[p] = q

\* Moving steps loses nothing if all are there.
LEMMA CarriedOver ==
  ASSUME NEW old, NEW new, IsDocument(old), IsDocument(new), NEW f, NEW label, Carried(f, old, new, label)
  PROVE  /\ Follows(old, new, label) /\ Events(new) \subseteq Events(old)
         /\ Onto(f, old, new) => Events(new) = Events(old)
         /\ ClaimedOnce(old) => ClaimedOnce(new)
         /\ Testified(old, new)
  <1>1. \A p \in Places(new) : f[p] \in Places(old) /\ At(new, p) = At(old, f[p])
    BY DEF Carried
  <1>2. ASSUME NEW c \in DOMAIN new, NEW i \in DOMAIN new[c].steps
        PROVE  \E p \in Places(new) : p = <<c, i>> /\ At(new, p) = new[c].steps[i]
    BY PlacesAre
  <1>3. ASSUME NEW p \in Places(old)
        PROVE  /\ p[1] \in DOMAIN old /\ p[2] \in DOMAIN old[p[1]].steps /\ p = <<p[1], p[2]>>
               /\ At(old, p) = old[p[1]].steps[p[2]] /\ IsStep(At(old, p))
    BY PlacesAre DEF At
  <1>4. Follows(old, new, label)
    <2>1. ASSUME NEW p \in Places(new) PROVE SameStep(At(new, p), At(old, f[p]), label)
      <3>1. IsStep(At(old, f[p]))
        BY <1>1, <1>3
      <3>2. QED
        BY <1>1, <3>1, AsItWas
    <2>2. Traced(f, old, new, label)
      BY <2>1 DEF Carried, Traced
    <2>3. QED
      BY <2>2 DEF Follows
  <1>5. ASSUME NEW e
        PROVE  /\ e \in Events(new) => e \in Events(old)
               /\ Onto(f, old, new) /\ e \in Events(old) => e \in Events(new)
    <2>1. ASSUME e \in Events(new) PROVE e \in Events(old)
      <3>1. PICK c \in DOMAIN new : \E i \in DOMAIN new[c].steps : e \in new[c].steps[i].events
        BY <2>1, EventsAre
      <3>2. PICK i \in DOMAIN new[c].steps : e \in new[c].steps[i].events
        BY <3>1
      <3>3. PICK p \in Places(new) : e \in At(new, p).events
        BY <1>2, <3>2
      <3>4. e \in At(old, f[p]).events /\ f[p] \in Places(old)
        BY <1>1, <3>3
      <3>5. QED
        BY <1>3, <3>4, EventsAre
    <2>2. ASSUME Onto(f, old, new), e \in Events(old) PROVE e \in Events(new)
      <3>1. PICK c \in DOMAIN old : \E i \in DOMAIN old[c].steps : e \in old[c].steps[i].events
        BY <2>2, EventsAre
      <3>2. PICK i \in DOMAIN old[c].steps : e \in old[c].steps[i].events
        BY <3>1
      <3>8. <<c, i>> \in Places(old) /\ At(old, <<c, i>>) = old[c].steps[i]
        BY PlacesAre
      <3>3. PICK q \in Places(old) : e \in At(old, q).events
        BY <3>2, <3>8
      <3>4. PICK p \in Places(new) : f[p] = q
        BY <2>2 DEF Onto
      <3>5. e \in At(new, p).events
        BY <1>1, <3>3, <3>4
      <3>6. p[1] \in DOMAIN new /\ p[2] \in DOMAIN new[p[1]].steps
        BY PlacesAre
      <3>7. QED
        BY <3>5, <3>6, EventsAre DEF At
    <2>3. QED
      BY <2>1, <2>2
  <1>6. ASSUME ClaimedOnce(old), NEW c \in DOMAIN new, NEW d \in DOMAIN new,
               NEW i \in DOMAIN new[c].steps, NEW j \in DOMAIN new[d].steps,
               new[c].steps[i].events \cap new[d].steps[j].events # {}
        PROVE  c = d /\ i = j
    <2>1. PICK p \in Places(new) : p = <<c, i>> /\ At(new, p) = new[c].steps[i]
      BY <1>2
    <2>2. PICK q \in Places(new) : q = <<d, j>> /\ At(new, q) = new[d].steps[j]
      BY <1>2
    <2>3. /\ f[p] \in Places(old) /\ f[q] \in Places(old)
          /\ At(old, f[p]).events \cap At(old, f[q]).events # {}
      BY <1>1, <1>6, <2>1, <2>2
    <2>4. f[p][1] = f[q][1] /\ f[p][2] = f[q][2]
      BY <1>3, <1>6, <2>3 DEF ClaimedOnce
    <2>5. f[p] = f[q]
      BY <1>3, <2>3, <2>4
    <2>6. p = q
      BY <2>5 DEF Carried
    <2>7. QED
      BY <2>1, <2>2, <2>6
  <1>7. ASSUME NEW claim \in Confirmed(new) PROVE claim \in Confirmed(old)
    <2>1. PICK c \in DOMAIN new : claim.by = "confirmed"
                  /\ \E i \in DOMAIN new[c].steps : claim \in ToSet(new[c].steps[i].claims)
      BY ConfirmedAre
    <2>2. PICK i \in DOMAIN new[c].steps : claim \in ToSet(new[c].steps[i].claims)
      BY <2>1
    <2>3. PICK p \in Places(new) : claim \in ToSet(At(new, p).claims)
      BY <1>2, <2>2
    <2>4. claim \in ToSet(At(old, f[p]).claims) /\ f[p] \in Places(old)
      BY <1>1, <2>3
    <2>5. QED
      BY <1>3, <2>1, <2>4, ConfirmedAre
  <1>8. QED
    BY <1>4, <1>5, <1>6, <1>7 DEF ClaimedOnce, Testified

---------------------------------------------------------------------------
\* The steps of a case without one, and without others that have its id.
Without(steps, i) == Rid(steps, {steps[i].id})

LEMMA WithoutIs ==
  ASSUME NEW old, AreSteps(old), NEW i \in 1..Len(old), NEW t, t = Without(old, i)
  PROVE  /\ AreSteps(t) /\ IsSeq(t) /\ Len(t) \in Nat
         /\ \E h : /\ Picks(h, t, old) /\ \A j \in 1..Len(t) : h[j] # i
                   /\ Alone(old, i) => \A k \in 1..Len(old) : k # i => \E j \in 1..Len(t) : h[j] = k
         /\ (\E k \in 1..Len(old) : old[k].id # old[i].id) => Len(t) # 0
  <1>1. AreSteps(t) /\ Len(t) \in Nat /\ \E h : Rids(h, t, old, {old[i].id})
    BY RidOfSame DEF Without
  <1>2. IsSeq(old) /\ DOMAIN old = 1..Len(old)
    BY IsSeqMeans DEF AreSteps
  <1>3. PICK h : Rids(h, t, old, {old[i].id})
    BY <1>1
  <1>4. /\ Picks(h, t, old) /\ \A j \in 1..Len(t) : h[j] # i
        /\ \A k \in 1..Len(old) : old[k].id # old[i].id => \E j \in 1..Len(t) : h[j] = k
    BY <1>3 DEF Rids
  <1>5. Alone(old, i) => \A k \in 1..Len(old) : k # i => old[k].id # old[i].id
    BY <1>2 DEF Alone
  <1>6. (\E k \in 1..Len(old) : old[k].id # old[i].id) => Len(t) # 0
    BY <1>1, <1>4
  <1>7. QED
    BY <1>1, <1>4, <1>5, <1>6 DEF AreSteps

\* A step of one case has gone to another.
Sent(doc, c, i, d, n) ==
    [[doc EXCEPT ![c].steps = Without(doc[c].steps, i)]
        EXCEPT ![d].steps = InsertAt(doc[d].steps, n, doc[c].steps[i])]

\* The two cases after a step has moved from one to the other.
LEMMA SentIs ==
  ASSUME NEW doc, IsDocument(doc), NEW c \in 1..Len(doc), NEW d \in 1..Len(doc), c # d,
         NEW i \in 1..Len(doc[c].steps), NEW n \in 1..(Len(doc[d].steps) + 1)
  PROVE  LET new == Sent(doc, c, i, d, n) IN
         /\ IsDocument(new) /\ DOMAIN new = DOMAIN doc
         /\ new[c].steps = Without(doc[c].steps, i)
         /\ new[d].steps = InsertAt(doc[d].steps, n, doc[c].steps[i])
         /\ \A e \in 1..Len(doc) : e # c /\ e # d => new[e] = doc[e]
  <1> DEFINE A == Without(doc[c].steps, i)
             B == InsertAt(doc[d].steps, n, doc[c].steps[i])
             left == [doc EXCEPT ![c].steps = A]
             new == [left EXCEPT ![d].steps = B]
  <1>1. /\ DOMAIN doc = 1..Len(doc)
        /\ IsSeq(doc[c].steps) /\ Len(doc[c].steps) \in Nat /\ \A j \in 1..Len(doc[c].steps) : IsStep(doc[c].steps[j])
        /\ IsSeq(doc[d].steps) /\ Len(doc[d].steps) \in Nat /\ \A j \in 1..Len(doc[d].steps) : IsStep(doc[d].steps[j])
    BY CasesAre, IsSeqMeans DEF AreSteps
  <1>2. AreSteps(A)
    BY CasesAre, WithoutIs
  <1>3. AreSteps(B)
    <2>0. IsSeq(doc[d].steps)
      BY <1>1
    <2>1. /\ IsSeq(B) /\ Len(B) = Len(doc[d].steps) + 1
          /\ \A j \in 1..(Len(doc[d].steps) + 1) :
                B[j] = IF j < n THEN doc[d].steps[j] ELSE IF j = n THEN doc[c].steps[i] ELSE doc[d].steps[j - 1]
      BY <2>0, InsertedAt, SMTT(20)
    <2> HIDE DEF B
    <2>2. ASSUME NEW j \in 1..Len(B) PROVE IsStep(B[j])
      <3>1. CASE j < n
        BY <1>1, <2>1, <3>1
      <3>2. CASE j = n
        BY <1>1, <2>1, <3>2
      <3>3. CASE j > n
        <4>1. j - 1 \in 1..Len(doc[d].steps) /\ ~(j < n) /\ j # n
          BY <1>1, <2>1, <3>3
        <4>2. QED
          BY <1>1, <2>1, <4>1
      <3>4. QED
        BY <1>1, <2>1, <3>1, <3>2, <3>3
    <2>3. QED
      BY <2>1, <2>2 DEF AreSteps
  <1>4. Sent(doc, c, i, d, n) = new
    BY DEF Sent
  <1> HIDE DEF A, B
  <1>5. /\ IsDocument(left) /\ DOMAIN left = DOMAIN doc /\ Len(left) = Len(doc) /\ left[c].steps = A
        /\ \A e \in 1..Len(doc) : e # c => left[e] = doc[e]
    BY <1>2, OtherSteps
  <1> HIDE DEF left
  <1>6. d \in 1..Len(left)
    BY <1>5
  <1>7. /\ IsDocument(new) /\ DOMAIN new = DOMAIN left /\ new[d].steps = B
        /\ \A e \in 1..Len(left) : e # d => new[e] = left[e]
    <2>1. IsDocument(left)
      BY <1>5
    <2>2. QED
      BY <1>3, <1>6, <2>1, OtherSteps
  <1> HIDE DEF new
  <1>8. QED
    BY <1>4, <1>5, <1>7 DEF A, B

\* All steps are still there, but for others with the id.
LEMMA SentIsCarried ==
  ASSUME NEW doc, IsDocument(doc), NEW c \in 1..Len(doc), NEW d \in 1..Len(doc), c # d,
         NEW i \in 1..Len(doc[c].steps), NEW n \in 1..(Len(doc[d].steps) + 1)
  PROVE  \E f : /\ Carried(f, doc, Sent(doc, c, i, d, n), doc[c].steps[i].id)
                /\ Alone(doc[c].steps, i) => Onto(f, doc, Sent(doc, c, i, d, n))
  <1> DEFINE old == doc[c].steps
             other == doc[d].steps
             A == Without(old, i)
             B == InsertAt(other, n, old[i])
             new == Sent(doc, c, i, d, n)
  <1>1. /\ DOMAIN doc = 1..Len(doc) /\ \A e \in 1..Len(doc) : DOMAIN doc[e].steps = 1..Len(doc[e].steps)
        /\ IsSeq(old) /\ Len(old) \in Nat /\ IsSeq(other) /\ Len(other) \in Nat /\ AreSteps(old)
    BY CasesAre, IsSeqMeans DEF AreSteps
  <1>2. /\ IsDocument(new) /\ DOMAIN new = DOMAIN doc /\ new[c].steps = A /\ new[d].steps = B
        /\ \A e \in 1..Len(doc) : e # c /\ e # d => new[e] = doc[e]
    <2> DEFINE x == Sent(doc, c, i, d, n)
    <2>1. IsDocument(x) /\ DOMAIN x = DOMAIN doc
      BY SentIs
    <2>2. x[c].steps = Without(doc[c].steps, i)
      BY SentIs
    <2>3. x[d].steps = InsertAt(doc[d].steps, n, doc[c].steps[i])
      BY SentIs
    <2>4. \A e \in 1..Len(doc) : e # c /\ e # d => x[e] = doc[e]
      BY SentIs
    <2>5. QED
      BY <2>1, <2>2, <2>3, <2>4
  <1> HIDE DEF new
  <1>3. IsSeq(old) /\ i \in 1..Len(old) /\ IsSeq(other) /\ n \in 1..(Len(other) + 1)
    BY <1>1
  <1>20. A = Without(old, i)
    OBVIOUS
  <1> HIDE DEF old, other, A
  <1>4. IsSeq(A) /\ Len(A) \in Nat
    BY <1>1, <1>3, <1>20, WithoutIs
  <1>5. PICK h : /\ Picks(h, A, old)
                 /\ \A j \in 1..Len(A) : h[j] # i
                 /\ Alone(old, i) => \A k \in 1..Len(old) : k # i => \E j \in 1..Len(A) : h[j] = k
    BY <1>1, <1>3, <1>20, WithoutIs
  <1>6. /\ IsSeq(B) /\ Len(B) = Len(other) + 1
        /\ \A j \in 1..(Len(other) + 1) :
              B[j] = IF j < n THEN other[j] ELSE IF j = n THEN old[i] ELSE other[j - 1]
    BY <1>3, InsertedAt
  <1> HIDE DEF B
  <1>7. DOMAIN A = 1..Len(A) /\ DOMAIN B = 1..Len(B)
    BY <1>4, <1>6, IsSeqMeans
  <1> DEFINE F(p) == IF p[1] = c THEN <<c, h[p[2]]>>
                     ELSE IF p[1] = d
                     THEN IF p[2] = n THEN <<c, i>> ELSE <<d, IF p[2] < n THEN p[2] ELSE p[2] - 1>>
                     ELSE p
             f == [p \in Places(new) |-> F(p)]
  <1>8. \A p \in Places(new) : f[p] = F(p)
    OBVIOUS
  <1>9. DOMAIN f = Places(new) /\ f = [p \in Places(new) |-> f[p]]
    OBVIOUS
  <1> HIDE DEF f
  <1>10. ASSUME NEW p \in Places(new)
         PROVE  /\ p[1] \in 1..Len(doc) /\ p = <<p[1], p[2]>>
                /\ p[1] = c => /\ p[2] \in 1..Len(A) /\ At(new, p) = old[h[p[2]]]
                               /\ h[p[2]] \in 1..Len(old) /\ h[p[2]] # i
                               /\ f[p] = <<c, h[p[2]]>>
                /\ p[1] = d /\ p[2] = n => At(new, p) = old[i] /\ f[p] = <<c, i>>
                /\ p[1] = d /\ p[2] # n =>
                      LET m == IF p[2] < n THEN p[2] ELSE p[2] - 1 IN
                      /\ m \in 1..Len(other) /\ At(new, p) = other[m] /\ f[p] = <<d, m>>
                      /\ p[2] = (IF m < n THEN m ELSE m + 1)
                /\ p[1] # c /\ p[1] # d => /\ f[p] = p /\ new[p[1]] = doc[p[1]]
                                           /\ p[2] \in 1..Len(doc[p[1]].steps)
    <2>1. /\ p[1] \in 1..Len(doc) /\ p = <<p[1], p[2]>> /\ p[2] \in DOMAIN new[p[1]].steps
      BY <1>1, <1>2, PlacesAre
    <2>2. ASSUME p[1] = c
          PROVE  /\ p[2] \in 1..Len(A) /\ At(new, p) = old[h[p[2]]]
                 /\ h[p[2]] \in 1..Len(old) /\ h[p[2]] # i
                 /\ f[p] = <<c, h[p[2]]>>
      <3>1. p[2] \in 1..Len(A) /\ At(new, p) = A[p[2]]
        BY <1>2, <1>7, <2>1, <2>2 DEF At
      <3>2. A[p[2]] = old[h[p[2]]] /\ h[p[2]] \in 1..Len(old) /\ h[p[2]] # i
        BY <1>5, <3>1 DEF Picks
      <3>3. QED
        BY <1>8, <2>2, <3>1, <3>2
    <2>3. ASSUME p[1] = d PROVE p[2] \in 1..(Len(other) + 1) /\ At(new, p) = B[p[2]]
      BY <1>2, <1>6, <1>7, <2>1, <2>3 DEF At
    <2>4. ASSUME p[1] = d, p[2] = n PROVE At(new, p) = old[i] /\ f[p] = <<c, i>>
      <3>1. n \in 1..(Len(other) + 1) /\ ~(n < n) /\ At(new, p) = B[n]
        BY <1>1, <1>3, <2>3, <2>4
      <3>2. B[n] = old[i]
        BY <1>6, <3>1
      <3>3. f[p] = <<c, i>>
        BY <1>8, <2>4
      <3>4. QED
        BY <3>1, <3>2, <3>3
    <2>5. ASSUME p[1] = d, p[2] # n
          PROVE  LET m == IF p[2] < n THEN p[2] ELSE p[2] - 1 IN
                 /\ m \in 1..Len(other) /\ At(new, p) = other[m] /\ f[p] = <<d, m>>
                 /\ p[2] = (IF m < n THEN m ELSE m + 1)
      <3>1. f[p] = <<d, IF p[2] < n THEN p[2] ELSE p[2] - 1>>
        BY <1>8, <2>5
      <3>2. CASE p[2] < n
        <4>1. p[2] \in 1..Len(other) /\ At(new, p) = other[p[2]]
          BY <1>1, <1>3, <1>6, <2>3, <2>5, <3>2
        <4>2. QED
          BY <3>1, <3>2, <4>1
      <3>3. CASE ~(p[2] < n)
        <4>1. p[2] - 1 \in 1..Len(other) /\ At(new, p) = other[p[2] - 1] /\ ~(p[2] - 1 < n) /\ (p[2] - 1) + 1 = p[2]
          BY <1>1, <1>3, <1>6, <2>3, <2>5, <3>3, SMTT(20)
        <4>2. QED
          BY <3>1, <3>3, <4>1
      <3>4. QED
        BY <3>2, <3>3
    <2>6. ASSUME p[1] # c, p[1] # d
          PROVE  f[p] = p /\ new[p[1]] = doc[p[1]] /\ p[2] \in 1..Len(doc[p[1]].steps)
      BY <1>1, <1>2, <1>8, <2>1, <2>6
    <2>7. QED
      BY <2>1, <2>2, <2>4, <2>5, <2>6
  <1>11. ASSUME NEW e \in 1..Len(doc), NEW j \in 1..Len(doc[e].steps)
         PROVE  <<e, j>> \in Places(doc) /\ At(doc, <<e, j>>) = doc[e].steps[j]
    <2>1. DOMAIN doc = 1..Len(doc) /\ DOMAIN doc[e].steps = 1..Len(doc[e].steps)
      BY CasesAre
    <2>2. e \in DOMAIN doc /\ j \in DOMAIN doc[e].steps
      BY <2>1
    <2>3. QED
      BY <2>2, PlacesAre
  <1>12. ASSUME NEW p \in Places(new)
         PROVE  /\ f[p] \in Places(doc) /\ At(new, p) = At(doc, f[p])
                /\ At(new, p).id # old[i].id => p[1] = f[p][1]
    <2>1. CASE p[1] = c
      <3>1. h[p[2]] \in 1..Len(doc[c].steps) /\ At(new, p) = doc[c].steps[h[p[2]]] /\ f[p] = <<c, h[p[2]]>>
        BY <1>10, <2>1 DEF old
      <3>2. QED
        BY <1>11, <2>1, <3>1
    <2>2. CASE p[1] = d /\ p[2] = n
      <3>1. At(new, p) = doc[c].steps[i] /\ f[p] = <<c, i>> /\ At(new, p).id = old[i].id
        BY <1>10, <2>2 DEF old
      <3>2. QED
        BY <1>11, <3>1
    <2>3. CASE p[1] = d /\ p[2] # n
      <3>1. PICK m \in 1..Len(other) : At(new, p) = other[m] /\ f[p] = <<d, m>>
        BY <1>10, <2>3
      <3>2. m \in 1..Len(doc[d].steps) /\ At(new, p) = doc[d].steps[m]
        BY <3>1 DEF other
      <3>3. QED
        BY <1>11, <2>3, <3>1, <3>2
    <2>4. CASE p[1] # c /\ p[1] # d
      <3>1. f[p] = p /\ new[p[1]] = doc[p[1]] /\ p[2] \in 1..Len(doc[p[1]].steps) /\ p[1] \in 1..Len(doc)
            /\ p = <<p[1], p[2]>>
        BY <1>10, <2>4
      <3>2. p \in Places(doc)
        BY <1>11, <3>1
      <3>3. QED
        BY <3>1, <3>2 DEF At
    <2>5. QED
      BY <2>1, <2>2, <2>3, <2>4
  <1>13. f \in [Places(new) -> Places(doc)]
    BY <1>9, <1>12
  <1>14. ASSUME NEW p \in Places(new), NEW q \in Places(new), f[p] = f[q]
         PROVE  p = q
    <2>1. /\ p = <<p[1], p[2]>> /\ q = <<q[1], q[2]>>
      BY <1>10
    <2>2. \A r \in Places(new) :
             /\ r[1] = c => f[r][1] = c /\ f[r][2] = h[r[2]] /\ h[r[2]] # i /\ r[2] \in 1..Len(A)
             /\ r[1] = d /\ r[2] = n => f[r][1] = c /\ f[r][2] = i
             /\ r[1] = d /\ r[2] # n => f[r][1] = d /\ r[2] = (IF f[r][2] < n THEN f[r][2] ELSE f[r][2] + 1)
             /\ r[1] # c /\ r[1] # d => f[r] = r
      <3>1. SUFFICES ASSUME NEW r \in Places(new)
                     PROVE  /\ r[1] = c => f[r][1] = c /\ f[r][2] = h[r[2]] /\ h[r[2]] # i /\ r[2] \in 1..Len(A)
                            /\ r[1] = d /\ r[2] = n => f[r][1] = c /\ f[r][2] = i
                            /\ r[1] = d /\ r[2] # n =>
                                  f[r][1] = d /\ r[2] = (IF f[r][2] < n THEN f[r][2] ELSE f[r][2] + 1)
                            /\ r[1] # c /\ r[1] # d => f[r] = r
        OBVIOUS
      <3>2. ASSUME r[1] = d, r[2] # n
            PROVE  f[r][1] = d /\ r[2] = (IF f[r][2] < n THEN f[r][2] ELSE f[r][2] + 1)
        <4>1. PICK m : f[r] = <<d, m>> /\ r[2] = (IF m < n THEN m ELSE m + 1)
          BY <1>10, <3>2
        <4>2. QED
          BY <4>1
      <3>3. QED
        BY <1>10, <3>2
    <2>3. CASE p[1] = c
      <3>1. q[1] = c
        BY <1>14, <2>2, <2>3
      <3>2. h[p[2]] = h[q[2]] /\ p[2] \in 1..Len(A) /\ q[2] \in 1..Len(A)
        BY <1>14, <2>2, <2>3, <3>1
      <3>3. p[2] = q[2]
        BY <1>5, <3>2 DEF Picks
      <3>4. QED
        BY <2>1, <2>3, <3>1, <3>3
    <2>4. CASE p[1] = d /\ p[2] = n
      <3>1. q[1] = d /\ q[2] = n
        BY <1>14, <2>2, <2>4
      <3>2. QED
        BY <2>1, <2>4, <3>1
    <2>5. CASE p[1] = d /\ p[2] # n
      <3>1. q[1] = d /\ q[2] # n
        BY <1>14, <2>2, <2>5
      <3>2. p[2] = q[2]
        BY <1>14, <2>2, <2>5, <3>1
      <3>3. QED
        BY <2>1, <2>5, <3>1, <3>2
    <2>6. CASE p[1] # c /\ p[1] # d
      BY <1>14, <2>2, <2>6
    <2>7. QED
      BY <2>3, <2>4, <2>5, <2>6
  <1>15. ASSUME Alone(old, i), NEW q \in Places(doc) PROVE \E p \in Places(new) : f[p] = q
    <2>1. /\ q[1] \in 1..Len(doc) /\ q = <<q[1], q[2]>> /\ q[2] \in 1..Len(doc[q[1]].steps)
      BY PlacesAre
    <2>2. ASSUME NEW e \in 1..Len(doc), NEW j \in DOMAIN new[e].steps
          PROVE  <<e, j>> \in Places(new) /\ <<e, j>>[1] = e /\ <<e, j>>[2] = j
      BY <1>1, <1>2, PlacesAre
    <2>3. CASE q[1] = c /\ q[2] = i
      <3>1. n \in DOMAIN new[d].steps
        BY <1>1, <1>2, <1>3, <1>6, <1>7
      <3>2. <<d, n>> \in Places(new) /\ f[<<d, n>>] = <<c, i>>
        BY <1>10, <2>2, <3>1
      <3>3. QED
        BY <2>1, <2>3, <3>2
    <2>4. CASE q[1] = c /\ q[2] # i
      <3>1. PICK j \in 1..Len(A) : h[j] = q[2]
        BY <1>5, <1>15, <2>1, <2>4 DEF old
      <3>2. j \in DOMAIN new[c].steps
        BY <1>2, <1>7
      <3>3. <<c, j>> \in Places(new) /\ f[<<c, j>>] = <<c, h[j]>>
        BY <1>10, <2>2, <3>2
      <3>4. QED
        BY <2>1, <2>4, <3>1, <3>3
    <2>5. CASE q[1] = d
      <3> DEFINE j == IF q[2] < n THEN q[2] ELSE q[2] + 1
      <3>1. /\ j \in 1..Len(B) /\ j # n /\ q[2] \in 1..Len(other)
            /\ (IF j < n THEN j ELSE j - 1) = q[2]
        BY <1>1, <1>3, <1>6, <2>1, <2>5, SMTT(20) DEF other
      <3> HIDE DEF j
      <3>2. j \in DOMAIN new[d].steps
        BY <1>2, <1>7, <3>1
      <3>3. <<d, j>> \in Places(new) /\ <<d, j>>[1] = d /\ <<d, j>>[2] = j
        BY <2>2, <3>2
      <3>4. f[<<d, j>>] = F(<<d, j>>)
        BY <1>8, <3>3
      <3>5. f[<<d, j>>] = <<d, IF j < n THEN j ELSE j - 1>>
        BY <3>1, <3>3, <3>4
      <3>6. QED
        BY <2>1, <2>5, <3>1, <3>3, <3>5
    <2>6. CASE q[1] # c /\ q[1] # d
      <3>1. q[2] \in DOMAIN new[q[1]].steps
        BY <1>1, <1>2, <2>1, <2>6
      <3>2. q \in Places(new)
        BY <2>1, <2>2, <3>1
      <3>3. f[q] = q
        BY <1>10, <2>6, <3>2
      <3>4. QED
        BY <3>2, <3>3
    <2>7. QED
      BY <2>3, <2>4, <2>5, <2>6
  <1>16. Carried(f, doc, new, old[i].id)
    BY <1>12, <1>13, <1>14 DEF Carried
  <1>17. Alone(old, i) => Onto(f, doc, new)
    BY <1>15 DEF Onto
  <1>19. QED
    BY <1>16, <1>17 DEF new, old

\* A document with steps of another, at other places, when it is saved.
LEMMA SavedCarried ==
  ASSUME IInv, NEW doc, IsDocument(doc), DOMAIN doc = DOMAIN cases,
         DistinctSteps(cases) /\ NoEmptyCase(cases) => NoEmptyCase(doc),
         NEW f, NEW label \in StepIds(cases), Carried(f, cases, doc, label),
         Save(doc), NEW kind \in EditKinds, NEW c \in DOMAIN cases, NEW noted,
         Record(kind, c, label, noted), gone' = gone,
         plain' \in BOOLEAN, plain' => plain /\ Onto(f, cases, doc)
  PROVE  Edited(label, {}) /\ Testified(cases, cases')
  <1>1. Shape /\ IsDocument(cases)
    BY DEF IInv, Shape
  <1>2. /\ Follows(cases, doc, label) /\ Events(doc) \subseteq Events(cases)
        /\ Onto(f, cases, doc) => Events(doc) = Events(cases)
        /\ ClaimedOnce(cases) => ClaimedOnce(doc)
        /\ Testified(cases, doc)
    BY <1>1, CarriedOver
  <1>3. Left(doc, label) /\ (plain' => plain /\ Kept(doc, {}))
    BY <1>2 DEF Left, Kept
  <1>4. Noted(label)
    BY DEF Noted
  <1>5. {} \subseteq Events(cases) /\ gone' = gone \cup {}
    OBVIOUS
  <1>6. Edited(label, {})
    BY <1>1, <1>3, <1>4, <1>5 DEF Edited
  <1>7. QED
    BY <1>1, <1>2, <1>3, <1>4, <1>6, SavedTestifies

\* Within a case.
LEMMA MovedWithin ==
  ASSUME Shape, NEW c \in DOMAIN cases, NEW i \in DOMAIN cases[c].steps,
         NEW n \in 1..(Len(Without(cases[c].steps, i)) + 1)
  PROVE  LET r == Without(cases[c].steps, i)
             doc == WithSteps(c, InsertAt(r, n, cases[c].steps[i]))
         IN /\ IsDocument(doc) /\ DOMAIN doc = DOMAIN cases /\ (NoEmptyCase(cases) => NoEmptyCase(doc))
            /\ \E f : /\ Carried(f, cases, doc, cases[c].steps[i].id)
                      /\ Alone(cases[c].steps, i) => Onto(f, cases, doc)
  <1> DEFINE old == cases[c].steps
             r == Without(old, i)
             s == InsertAt(r, n, old[i])
             new == [cases EXCEPT ![c].steps = s]
  <1>1. /\ IsDocument(cases) /\ c \in 1..Len(cases) /\ DOMAIN cases = 1..Len(cases)
        /\ IsSeq(old) /\ Len(old) \in Nat /\ DOMAIN old = 1..Len(old)
        /\ \A j \in 1..Len(old) : IsStep(old[j])
        /\ i \in 1..Len(old) /\ n \in 1..(Len(r) + 1) /\ AreSteps(old)
    BY TheCase
  <1> HIDE DEF old
  <1>2. AreSteps(old) /\ i \in 1..Len(old)
    BY <1>1
  <1>24. r = Without(old, i)
    OBVIOUS
  <1> HIDE DEF r
  <1>3. IsSeq(r) /\ Len(r) \in Nat
    BY <1>2, <1>24, WithoutIs
  <1>4. PICK h : /\ Picks(h, r, old) /\ \A j \in 1..Len(r) : h[j] # i
                 /\ Alone(old, i) => \A k \in 1..Len(old) : k # i => \E j \in 1..Len(r) : h[j] = k
    BY <1>2, <1>24, WithoutIs
  <1>5. n \in 1..(Len(r) + 1)
    BY <1>1
  <1>6. /\ IsSeq(s) /\ Len(s) = Len(r) + 1
        /\ \A j \in 1..(Len(r) + 1) : s[j] = IF j < n THEN r[j] ELSE IF j = n THEN old[i] ELSE r[j - 1]
    BY <1>3, <1>5, InsertedAt
  <1> HIDE DEF s
  <1> DEFINE g == [j \in 1..Len(s) |-> IF j < n THEN h[j] ELSE IF j = n THEN i ELSE h[j - 1]]
  <1>7. Len(s) = Len(r) + 1 /\ DOMAIN s = 1..Len(s) /\ Len(r) \in Nat /\ n \in 1..Len(s)
    BY <1>3, <1>5, <1>6, IsSeqMeans
  <1>8. \A j \in 1..Len(s) : g[j] = IF j < n THEN h[j] ELSE IF j = n THEN i ELSE h[j - 1]
    OBVIOUS
  <1> HIDE DEF g
  <1>9. /\ \A j \in 1..Len(r) : h[j] \in 1..Len(old) /\ r[j] = old[h[j]] /\ h[j] # i
        /\ \A j, k \in 1..Len(r) : h[j] = h[k] => j = k
        /\ Alone(old, i) => \A k \in 1..Len(old) : k # i => \E j \in 1..Len(r) : h[j] = k
    BY <1>4 DEF Picks
  <1>10. \A j \in 1..Len(s) : /\ j < n => j \in 1..Len(r)
                              /\ j > n => j - 1 \in 1..Len(r)
    BY <1>1, <1>3, <1>7
  <1>11. ASSUME NEW j \in 1..Len(s)
         PROVE  g[j] \in 1..Len(old) /\ s[j] = old[g[j]]
    <2>1. CASE j < n
      BY <1>6, <1>7, <1>8, <1>9, <1>10, <2>1
    <2>2. CASE j = n
      BY <1>1, <1>6, <1>7, <1>8, <2>2
    <2>3. CASE j > n
      <3>1. ~(j < n) /\ j # n /\ j - 1 \in 1..Len(r) /\ j \in 1..(Len(r) + 1)
        BY <1>5, <1>7, <1>10, <2>3
      <3>2. g[j] = h[j - 1] /\ s[j] = r[j - 1]
        BY <1>6, <1>8, <3>1
      <3>3. QED
        BY <1>9, <3>1, <3>2
    <2>4. QED
      BY <1>1, <1>7, <2>1, <2>2, <2>3
  <1>12. ASSUME NEW j \in 1..Len(s), NEW k \in 1..Len(s), g[j] = g[k] PROVE j = k
    <2> DEFINE at(m) == IF m < n THEN m ELSE m - 1
    <2>1. ASSUME NEW m \in 1..Len(s), m # n PROVE at(m) \in 1..Len(r) /\ g[m] = h[at(m)] /\ g[m] # i
      <3>1. CASE m < n
        BY <1>8, <1>9, <1>10, <3>1
      <3>2. CASE m > n
        <4>1. ~(m < n) /\ m - 1 \in 1..Len(r)
          BY <1>1, <1>10, <3>2
        <4>2. QED
          BY <1>8, <1>9, <2>1, <4>1
      <3>3. QED
        BY <1>1, <1>7, <2>1, <3>1, <3>2
    <2>2. g[n] = i
      BY <1>1, <1>7, <1>8
    <2>3. CASE j = n \/ k = n
      BY <1>12, <2>1, <2>2, <2>3
    <2>4. CASE j # n /\ k # n
      <3>1. at(j) = at(k)
        <4>1. at(j) \in 1..Len(r) /\ at(k) \in 1..Len(r) /\ h[at(j)] = h[at(k)]
          BY <1>12, <2>1, <2>4
        <4> HIDE DEF at
        <4>2. QED
          BY <1>9, <4>1
      <3>2. QED
        BY <1>7, <2>4, <3>1
    <2>5. QED
      BY <2>3, <2>4
  <1>13. ASSUME Alone(old, i), NEW k \in 1..Len(old) PROVE \E j \in 1..Len(s) : g[j] = k
    <2>1. CASE k = i
      BY <1>1, <1>7, <1>8, <2>1
    <2>2. CASE k # i
      <3>1. PICK m \in 1..Len(r) : h[m] = k
        BY <1>9, <1>13, <2>2
      <3>2. CASE m < n
        <4>1. m \in 1..Len(s)
          BY <1>3, <1>7
        <4>2. g[m] = k
          BY <1>8, <3>1, <3>2, <4>1
        <4>3. QED
          BY <4>1, <4>2
      <3>3. CASE ~(m < n)
        <4>1. PICK j \in 1..Len(s) : ~(j < n) /\ j # n /\ j - 1 = m
          <5>1. m + 1 \in 1..Len(s) /\ ~(m + 1 < n) /\ m + 1 # n /\ (m + 1) - 1 = m
            BY <1>1, <1>3, <1>7, <3>3
          <5>2. QED
            BY <5>1
        <4>2. g[j] = k
          BY <1>8, <3>1, <4>1
        <4>3. QED
          BY <4>2
      <3>4. QED
        BY <3>2, <3>3
    <2>3. QED
      BY <2>1, <2>2
  <1>14. AreSteps(s)
    BY <1>1, <1>6, <1>11 DEF AreSteps
  <1>15. /\ IsDocument(new) /\ DOMAIN new = DOMAIN cases /\ new[c].steps = s
         /\ \A e \in 1..Len(cases) : e # c => new[e] = cases[e]
    BY <1>1, <1>14, OtherSteps
  <1> HIDE DEF new
  <1>16. NoEmptyCase(cases) => NoEmptyCase(new)
    <2>1. s # <<>>
      BY <1>6, <1>7, IsSeqMeans
    <2>2. QED
      BY <1>1, <1>15, <2>1 DEF NoEmptyCase
  <1> DEFINE f == [p \in Places(new) |-> <<p[1], IF p[1] = c THEN g[p[2]] ELSE p[2]>>]
  <1>17. DOMAIN f = Places(new) /\ f = [p \in Places(new) |-> f[p]]
         /\ \A p \in Places(new) : f[p] = <<p[1], IF p[1] = c THEN g[p[2]] ELSE p[2]>>
    OBVIOUS
  <1> HIDE DEF f
  <1>18. ASSUME NEW p \in Places(new)
         PROVE  /\ p[1] \in 1..Len(cases) /\ p = <<p[1], p[2]>> /\ f[p][1] = p[1]
                /\ p[1] = c => p[2] \in 1..Len(s) /\ f[p][2] = g[p[2]]
                /\ p[1] # c => f[p] = p
                /\ f[p] \in Places(cases) /\ At(new, p) = At(cases, f[p])
    <2>1. /\ p[1] \in 1..Len(cases) /\ p = <<p[1], p[2]>> /\ p[2] \in DOMAIN new[p[1]].steps
          /\ p[1] \in DOMAIN cases
      BY <1>1, <1>15, PlacesAre
    <2>2. CASE p[1] = c
      <3>1. f[p] = <<c, g[p[2]]>>
        BY <1>17, <2>2
      <3>2. p[2] \in 1..Len(s) /\ At(new, p) = s[p[2]]
        BY <1>7, <1>15, <2>1, <2>2 DEF At
      <3>3. g[p[2]] \in DOMAIN cases[c].steps /\ s[p[2]] = cases[c].steps[g[p[2]]]
        BY <1>1, <1>11, <3>2 DEF old
      <3>4. f[p] \in Places(cases) /\ At(cases, <<c, g[p[2]]>>) = cases[c].steps[g[p[2]]]
        BY <1>1, <3>1, <3>3, PlacesAre
      <3>5. f[p][1] = c /\ f[p][2] = g[p[2]]
        BY <3>1
      <3>6. QED
        BY <2>1, <2>2, <3>1, <3>2, <3>3, <3>4, <3>5
    <2>3. CASE p[1] # c
      <3>1. f[p] = p
        BY <1>17, <2>1, <2>3
      <3>2. new[p[1]] = cases[p[1]]
        BY <1>15, <2>1, <2>3
      <3>3. p \in Places(cases)
        BY <1>1, <2>1, <3>2, PlacesAre
      <3>4. QED
        BY <2>1, <2>3, <3>1, <3>2, <3>3 DEF At
    <2>4. QED
      BY <2>2, <2>3
  <1>19. f \in [Places(new) -> Places(cases)]
    BY <1>17, <1>18
  <1>20. ASSUME NEW p \in Places(new), NEW q \in Places(new), f[p] = f[q] PROVE p = q
    <2>1. p[1] = q[1]
      BY <1>18, <1>20
    <2>2. CASE p[1] = c
      <3>1. p[2] \in 1..Len(s) /\ q[2] \in 1..Len(s) /\ g[p[2]] = g[q[2]]
        BY <1>18, <1>20, <2>1, <2>2
      <3>2. p[2] = q[2]
        BY <1>12, <3>1
      <3>3. QED
        BY <1>18, <2>1, <3>2
    <2>3. CASE p[1] # c
      BY <1>18, <1>20, <2>1, <2>3
    <2>4. QED
      BY <2>2, <2>3
  <1>21. ASSUME Alone(old, i), NEW q \in Places(cases) PROVE \E p \in Places(new) : f[p] = q
    <2>1. /\ q[1] \in 1..Len(cases) /\ q = <<q[1], q[2]>> /\ q[2] \in DOMAIN cases[q[1]].steps
      BY <1>1, PlacesAre
    <2>2. CASE q[1] = c
      <3>1. PICK j \in 1..Len(s) : g[j] = q[2]
        BY <1>1, <1>13, <1>21, <2>1, <2>2 DEF old
      <3>2. <<c, j>> \in Places(new) /\ <<c, j>>[1] = c /\ <<c, j>>[2] = j
        BY <1>1, <1>7, <1>15, PlacesAre
      <3>3. f[<<c, j>>] = <<c, g[j]>>
        BY <1>17, <3>2
      <3>4. QED
        BY <2>1, <2>2, <3>1, <3>2, <3>3
    <2>3. CASE q[1] # c
      <3>1. q \in Places(new)
        BY <1>1, <1>15, <2>1, <2>3, PlacesAre
      <3>2. QED
        BY <1>18, <2>3, <3>1
    <2>4. QED
      BY <2>2, <2>3
  <1>22. Carried(f, cases, new, old[i].id) /\ (Alone(old, i) => Onto(f, cases, new))
    BY <1>18, <1>19, <1>20, <1>21 DEF Carried, Onto
  <1>23. QED
    BY <1>15, <1>16, <1>22 DEF new, old, s, r, WithSteps

\* MoveStep.
LEMMA StepMoved ==
  ASSUME IInv, NEW c \in DOMAIN cases, NEW i \in DOMAIN cases[c].steps, NEW d \in DOMAIN cases,
         NEW position \in 0..Len(cases[d].steps), MoveStep(c, i, d, position)
  PROVE  Edited(cases[c].steps[i].id, {}) /\ Testified(cases, cases')
  <1> DEFINE old == cases[c].steps
             r == Without(old, i)
             left == WithSteps(c, r)
             at == Min({position, Len(left[d].steps)})
             new == [left EXCEPT ![d].steps = InsertAt(left[d].steps, at + 1, old[i])]
  <1>1. /\ Shape /\ IsDocument(cases) /\ DOMAIN cases = 1..Len(cases) /\ c \in 1..Len(cases) /\ d \in 1..Len(cases)
        /\ IsSeq(old) /\ Len(old) \in Nat /\ DOMAIN old = 1..Len(old) /\ i \in 1..Len(old)
        /\ AreSteps(old) /\ \A j \in 1..Len(old) : IsStep(old[j])
        /\ Len(cases[d].steps) \in Nat
    BY TheCase DEF IInv
  <1>2. /\ Len(old) # 1 /\ Save(new) /\ Record("step_moved", d, old[i].id, NoClaim)
        /\ gone' = gone /\ plain' = (plain /\ Alone(old, i))
    BY DEF MoveStep, Without
  <1>3. "step_moved" \in EditKinds /\ old[i].id \in StepIds(cases) /\ plain' \in BOOLEAN
    BY <1>2, Somewhere DEF EditKinds, IInv, ReviewTypeOK, Alone
  \* A case that has several steps is left with one.
  <1>9. DistinctSteps(cases) => \E k \in 1..Len(old) : old[k].id # old[i].id
    <2>1. SUFFICES ASSUME DistinctSteps(cases) PROVE \E k \in 1..Len(old) : old[k].id # old[i].id
      OBVIOUS
    <2>2. Len(old) \in Nat /\ i \in 1..Len(old) /\ Len(old) # 1
      BY <1>1, <1>2
    <2> HIDE DEF old
    <2>4. PICK k \in 1..Len(old) : k # i
      BY <2>2, Another
    <2>5. QED
      BY <1>1, <2>1, <2>4 DEF DistinctSteps, old
  <1> HIDE DEF old
  <1>4. /\ AreSteps(r) /\ IsSeq(r) /\ Len(r) \in Nat
        /\ DistinctSteps(cases) => Len(r) # 0
    BY <1>1, <1>9, WithoutIs
  <1> HIDE DEF r
  <1>6. /\ left[c].steps = r /\ \A e \in 1..Len(cases) : e # c => left[e] = cases[e]
    BY <1>1, <1>4, OtherSteps DEF WithSteps
  <1>7. CASE d = c
    <2>1. left[d].steps = r
      BY <1>6, <1>7
    <2>2. at \in 0..Len(r)
      <3> DEFINE m == Len(r)
      <3>1. {position, m} \in SUBSET Nat /\ {position, m} # {} /\ m \in Nat
        BY <1>1, <1>4
      <3>2. at = Min({position, m})
        BY <2>1
      <3> HIDE DEF m, at
      <3>3. Min({position, m}) \in {position, m} /\ Min({position, m}) <= m
        BY <3>1, TheMin
      <3>4. at \in 0..m
        BY <3>1, <3>2, <3>3
      <3>5. QED
        BY <3>4 DEF m
    <2> DEFINE n == at + 1
               doc == WithSteps(c, InsertAt(r, n, old[i]))
    <2>3. new = doc
      BY <1>7, <2>1 DEF WithSteps
    <2> HIDE DEF at
    <2>4. n \in 1..(Len(r) + 1)
      BY <1>4, <2>2
    <2> HIDE DEF n, new
    <2>5. Shape
      BY <1>1
    <2>6. /\ IsDocument(doc) /\ DOMAIN doc = DOMAIN cases /\ (NoEmptyCase(cases) => NoEmptyCase(doc))
          /\ \E f : Carried(f, cases, doc, old[i].id) /\ (Alone(old, i) => Onto(f, cases, doc))
      BY <2>4, <2>5, MovedWithin DEF old, r
    <2>7. PICK f : Carried(f, cases, doc, old[i].id) /\ (Alone(old, i) => Onto(f, cases, doc))
      BY <2>6
    <2> HIDE DEF doc
    <2>8. Edited(old[i].id, {}) /\ Testified(cases, cases')
      BY <1>2, <1>3, <2>3, <2>6, <2>7, SavedCarried
    <2>9. QED
      BY <2>8 DEF old
  <1>8. CASE d # c
    <2>1. left[d] = cases[d]
      BY <1>1, <1>6, <1>8
    <2>2. at \in 0..Len(cases[d].steps)
      <3> DEFINE m == Len(cases[d].steps)
      <3>1. {position, m} \in SUBSET Nat /\ {position, m} # {} /\ m \in Nat
        BY <1>1
      <3> HIDE DEF m
      <3>2. Min({position, m}) \in {position, m} /\ Min({position, m}) <= m
        BY <3>1, TheMin
      <3>3. at = Min({position, m})
        BY <2>1 DEF m
      <3>4. QED
        BY <3>1, <3>2, <3>3 DEF m
    <2> DEFINE n == at + 1
               doc == Sent(cases, c, i, d, n)
    <2>3. new = doc
      BY <2>1 DEF Sent, WithSteps, r, old
    <2> HIDE DEF at
    <2>4. n \in 1..(Len(cases[d].steps) + 1)
      BY <1>1, <2>2
    <2> HIDE DEF n, new, left
    <2>5. /\ IsDocument(cases) /\ c \in 1..Len(cases) /\ d \in 1..Len(cases) /\ c # d
          /\ i \in 1..Len(cases[c].steps)
      BY <1>1, <1>8 DEF old
    <2>6. IsDocument(doc) /\ DOMAIN doc = DOMAIN cases
      <3> DEFINE x == Sent(cases, c, i, d, n)
      <3>1. IsDocument(x) /\ DOMAIN x = DOMAIN cases
        BY <2>4, <2>5, SentIs, SMTT(20)
      <3>2. QED
        BY <3>1
    <2>7. doc[c].steps = r
      BY <2>4, <2>5, SentIs DEF old, r
    <2>8. doc[d].steps = InsertAt(cases[d].steps, n, old[i])
      <3> DEFINE x == Sent(cases, c, i, d, n)
      <3>1. x[d].steps = InsertAt(cases[d].steps, n, cases[c].steps[i])
        BY <2>4, <2>5, SentIs, SMTT(20)
      <3>2. QED
        BY <3>1 DEF old
    <2>9. \A e \in 1..Len(cases) : e # c /\ e # d => doc[e] = cases[e]
      <3> DEFINE x == Sent(cases, c, i, d, n)
      <3>1. \A e \in 1..Len(cases) : e # c /\ e # d => x[e] = cases[e]
        BY <2>4, <2>5, SentIs, SMTT(20)
      <3>2. QED
        BY <3>1
    <2>10. \E f : Carried(f, cases, doc, old[i].id) /\ (Alone(old, i) => Onto(f, cases, doc))
      BY <2>4, <2>5, SentIsCarried DEF old
    <2> HIDE DEF doc
    <2>11. DistinctSteps(cases) /\ NoEmptyCase(cases) => NoEmptyCase(doc)
      <3>0. SUFFICES ASSUME DistinctSteps(cases), NoEmptyCase(cases) PROVE NoEmptyCase(doc)
        OBVIOUS
      <3>1. r # <<>>
        BY <1>4, <3>0, IsSeqMeans
      <3>2. InsertAt(cases[d].steps, n, old[i]) # <<>>
        <4> DEFINE b == InsertAt(cases[d].steps, n, old[i])
        <4>1. IsSeq(cases[d].steps)
          BY <1>1, TheCase
        <4>2. IsSeq(b) /\ Len(b) = Len(cases[d].steps) + 1
          BY <2>4, <4>1, InsertedAt
        <4> HIDE DEF b
        <4>3. b # <<>>
          BY <1>1, <4>2, IsSeqMeans
        <4>4. QED
          BY <4>3 DEF b
      <3>3. \A e \in 1..Len(cases) : cases[e].steps # <<>>
        BY <1>1, <3>0 DEF NoEmptyCase
      <3>4. \A e \in 1..Len(cases) : doc[e].steps # <<>>
        BY <2>7, <2>8, <2>9, <3>1, <3>2, <3>3
      <3>5. QED
        BY <1>1, <2>6, <3>4 DEF NoEmptyCase
    <2>12. PICK f : Carried(f, cases, doc, old[i].id) /\ (Alone(old, i) => Onto(f, cases, doc))
      BY <2>10
    <2>13. Edited(old[i].id, {}) /\ Testified(cases, cases')
      BY <1>2, <1>3, <2>3, <2>6, <2>11, <2>12, SavedCarried
    <2>14. QED
      BY <2>13 DEF old
  <1>10. QED
    BY <1>7, <1>8

---------------------------------------------------------------------------
\* A title is no step's.
LEMMA CaseRenamed ==
  ASSUME IInv, NEW c \in DOMAIN cases, NEW title, RenameCase(c, title)
  PROVE  Edited(NoStep, {}) /\ Testified(cases, cases')
  <1> DEFINE new == [cases EXCEPT ![c].title = title]
             x == [cases[c] EXCEPT !.title = title]
  <1>1. /\ Shape /\ IsDocument(cases) /\ DOMAIN cases = 1..Len(cases) /\ c \in 1..Len(cases)
        /\ IsSeq(cases) /\ \A e \in 1..Len(cases) : IsCase(cases[e]) /\ DOMAIN cases[e].steps = 1..Len(cases[e].steps)
        /\ plain \in BOOLEAN
    BY TheCase, CasesAre DEF IInv, ReviewTypeOK, Shape
  <1>2. Save(new) /\ Record("case_renamed", c, NoStep, NoClaim) /\ gone' = gone /\ plain' = plain
    BY DEF RenameCase
  <1>3. /\ IsCase(x) /\ x.steps = cases[c].steps
    <2>1. x = [kind |-> cases[c].kind, title |-> title, pre |-> cases[c].pre, steps |-> cases[c].steps]
      <3>1. cases[c] = [kind |-> cases[c].kind, title |-> cases[c].title, pre |-> cases[c].pre,
                        steps |-> cases[c].steps]
        BY <1>1 DEF IsCase
      <3>2. QED
        BY <3>1
    <2> HIDE DEF x
    <2>2. x.kind = cases[c].kind /\ x.title = title /\ x.pre = cases[c].pre /\ x.steps = cases[c].steps
      BY <2>1
    <2>3. x = [kind |-> x.kind, title |-> x.title, pre |-> x.pre, steps |-> x.steps]
      BY <2>1, <2>2
    <2>4. IsCase(cases[c])
      BY <1>1
    <2>5. QED
      BY <2>2, <2>3, <2>4 DEF IsCase
  <1>4. new = [cases EXCEPT ![c] = x]
    OBVIOUS
  <1> HIDE DEF x, new
  <1>5. /\ IsSeq(new) /\ Len(new) = Len(cases) /\ new[c] = x
        /\ \A e \in 1..Len(cases) : e # c => new[e] = cases[e]
    BY <1>1, <1>4, ReplacedAt
  <1>6. DOMAIN new = DOMAIN cases /\ DOMAIN new = 1..Len(cases)
    BY <1>1, <1>5, IsSeqMeans
  <1>7. \A e \in 1..Len(cases) : new[e].steps = cases[e].steps /\ IsCase(new[e])
    BY <1>1, <1>3, <1>5
  <1>8. IsDocument(new) /\ (NoEmptyCase(cases) => NoEmptyCase(new))
    BY <1>1, <1>5, <1>6, <1>7 DEF IsDocument, NoEmptyCase
  <1>9. Places(new) = Places(cases) /\ \A p \in Places(new) : At(new, p) = At(cases, p)
    <2>1. \A p \in (DOMAIN cases) \X Nat : p[1] \in 1..Len(cases)
      BY <1>1
    <2>2. Places(new) = Places(cases)
      BY <1>6, <1>7, <2>1 DEF Places
    <2>3. \A p \in Places(new) : p[1] \in 1..Len(cases)
      BY <2>1, <1>6 DEF Places
    <2>4. QED
      BY <1>7, <2>2, <2>3 DEF At
  <1> DEFINE f == [p \in Places(new) |-> p]
  <1>10. Carried(f, cases, new, NoStep) /\ Onto(f, cases, new)
    <2>1. f \in [Places(new) -> Places(cases)] /\ \A p \in Places(new) : f[p] = p
      BY <1>9
    <2> HIDE DEF f
    <2>2. QED
      BY <1>9, <2>1 DEF Carried, Onto
  <1> HIDE DEF f
  <1>11. /\ Follows(cases, new, NoStep) /\ Events(new) = Events(cases)
         /\ ClaimedOnce(cases) => ClaimedOnce(new)
         /\ Testified(cases, new)
    BY <1>1, <1>8, <1>10, CarriedOver
  <1>12. Left(new, NoStep) /\ Kept(new, {})
    BY <1>6, <1>8, <1>11 DEF Left, Kept
  <1>13. Noted(NoStep)
    BY <1>2 DEF Noted, EditKinds
  <1>14. {} \subseteq Events(cases) /\ gone' = gone \cup {} /\ plain' = plain
    BY <1>2
  <1>15. Edited(NoStep, {})
    BY <1>1, <1>2, <1>12, <1>13, <1>14 DEF Edited
  <1>16. QED
    BY <1>1, <1>2, <1>11, <1>12, <1>13, <1>15, SavedTestifies

\* Approving a document whose keywords are laid out leaves it as it is.
LEMMA ApprovedIsSame ==
  ASSUME IInv, Approve
  PROVE  UNCHANGED vars
  BY DEF IInv, Shape, Approve, Save, vars

\* A line of the edited file stands for one of the two ways to reword.
LEMMA FileTextEdited ==
  ASSUME NEW line, NEW word, EditFeatureText(line, word)
  PROVE  \E c \in DOMAIN cases : \E i \in DOMAIN cases[c].steps :
            \/ EditStepText(c, i, word)
            \/ \E claim \in ClaimIds(cases[c].steps[i]) : EditAssertionText(c, i, claim, word)
  BY DEF EditFeatureText

---------------------------------------------------------------------------
\* What is neither rewording nor an answer.
OtherKinds == EditKinds \ {"step_text", "assertion_text", "escalation_answered"}

NotedAs(kind, label, claim) == \E c \in DOMAIN cases : Record(kind, c, label, claim)

\* What was recorded is the last of the record.
LEMMA NotedIsLast ==
  ASSUME IsSeq(edits), NEW kind, NEW label, NEW claim, NotedAs(kind, label, claim)
  PROVE  /\ edits' # edits /\ Last(edits').kind = kind /\ Last(edits').step = label
         /\ Last(edits').claim = claim
  <1>1. PICK c \in DOMAIN cases : Record(kind, c, label, claim)
    BY DEF NotedAs
  <1> DEFINE r == [kind |-> kind, case |-> c, step |-> label, claim |-> claim]
  <1>2. edits' = Append(edits, r)
    BY <1>1 DEF Record
  <1>3. r.kind = kind /\ r.step = label /\ r.claim = claim
    OBVIOUS
  <1> HIDE DEF r
  <1>4. Last(edits') = r /\ edits' # edits
    BY <1>2, Appended
  <1>5. QED
    BY <1>3, <1>4

\* The other edits of a step.
Others(c, i) ==
    LET step == cases[c].steps[i] IN
    \/ \E claim \in ClaimIds(step), accepted \in BOOLEAN : SetAssertion(c, i, claim, accepted)
    \/ DeleteStep(c, i)
    \/ Merge(c, i)
    \/ \E d \in DOMAIN cases : \E position \in 0..Len(cases[d].steps) :
           MoveStep(c, i, d, position)

\* None of them makes testimony.
LEMMA OthersAreEdits ==
  ASSUME IInv, NEW c \in DOMAIN cases, NEW i \in DOMAIN cases[c].steps, Others(c, i)
  PROVE  /\ \E label, lost : Edited(label, lost)
         /\ Testified(cases, cases')
         /\ \E kind \in OtherKinds : \E label, claim : NotedAs(kind, label, claim)
  <1> DEFINE step == cases[c].steps[i]
             Told == \E kind \in OtherKinds : \E label, claim : NotedAs(kind, label, claim)
  <1>1. ASSUME NEW claim \in ClaimIds(step), NEW accepted \in BOOLEAN, SetAssertion(c, i, claim, accepted)
        PROVE  Edited(step.id, {}) /\ Testified(cases, cases') /\ Told
    <2>1. Edited(step.id, {}) /\ Testified(cases, cases')
      BY <1>1, AssertionSet
    <2> DEFINE kind == IF accepted THEN "assertion_accepted" ELSE "assertion_rejected"
    <2>2. Record(kind, c, step.id, claim)
      BY <1>1 DEF SetAssertion
    <2>3. kind \in OtherKinds
      BY DEF OtherKinds, EditKinds
    <2>4. QED
      BY <2>1, <2>2, <2>3 DEF NotedAs
  <1>2. ASSUME DeleteStep(c, i)
        PROVE  (\E lost : Edited(step.id, lost)) /\ Testified(cases, cases') /\ Told
    <2>1. (\E lost : Edited(step.id, lost)) /\ Testified(cases, cases')
      BY <1>2, StepDeleted
    <2>2. Record("step_deleted", c, step.id, NoClaim) /\ "step_deleted" \in OtherKinds
      BY <1>2 DEF DeleteStep, OtherKinds, EditKinds
    <2>3. QED
      BY <2>1, <2>2 DEF NotedAs
  <1>3. ASSUME NEW last \in DOMAIN cases[c].steps, NEW text, MergeSteps(c, i, last, text)
        PROVE  Edited(step.id, {}) /\ Testified(cases, cases') /\ Told
    <2>1. Edited(step.id, {}) /\ Testified(cases, cases')
      BY <1>3, StepsMerged
    <2>2. Record("steps_merged", c, step.id, NoClaim) /\ "steps_merged" \in OtherKinds
      BY <1>3 DEF MergeSteps, OtherKinds, EditKinds
    <2>3. QED
      BY <2>1, <2>2 DEF NotedAs
  <1>4. ASSUME NEW twice, MergeNamedTwice(c, i, twice)
        PROVE  Edited(step.id, {}) /\ Testified(cases, cases') /\ Told
    <2>1. Edited(step.id, {}) /\ Testified(cases, cases')
      BY <1>4, NamedTwice
    <2>2. Record("steps_merged", c, step.id, NoClaim) /\ "steps_merged" \in OtherKinds
      BY <1>4 DEF MergeNamedTwice, OtherKinds, EditKinds
    <2>3. QED
      BY <2>1, <2>2 DEF NotedAs
  <1>5. ASSUME NEW d \in DOMAIN cases, NEW position \in 0..Len(cases[d].steps), MoveStep(c, i, d, position)
        PROVE  Edited(step.id, {}) /\ Testified(cases, cases') /\ Told
    <2>1. Edited(step.id, {}) /\ Testified(cases, cases')
      BY <1>5, StepMoved
    <2>2. Record("step_moved", d, step.id, NoClaim) /\ "step_moved" \in OtherKinds
      BY <1>5 DEF MoveStep, OtherKinds, EditKinds
    <2>3. QED
      BY <2>1, <2>2 DEF NotedAs
  <1> HIDE DEF Told
  <1>6. (\E label, lost : Edited(label, lost)) /\ Testified(cases, cases') /\ Told
    <2>1. CASE \E claim \in ClaimIds(step), accepted \in BOOLEAN : SetAssertion(c, i, claim, accepted)
      BY <1>1, <2>1
    <2>2. CASE DeleteStep(c, i)
      BY <1>2, <2>2
    <2>3. CASE Merge(c, i)
      BY <1>3, <1>4, <2>3 DEF Merge
    <2>5. CASE \E d \in DOMAIN cases : \E position \in 0..Len(cases[d].steps) : MoveStep(c, i, d, position)
      BY <1>5, <2>5
    <2>6. QED
      BY <2>1, <2>2, <2>3, <2>5 DEF Others
  <1>7. QED
    BY <1>6 DEF Told

\* The four kinds of what a request may do.
LEMMA WhatHappens ==
  ASSUME IInv, Next
  PROVE  \/ UNCHANGED vars
         \/ \E c \in DOMAIN cases : \E i \in DOMAIN cases[c].steps : \E word : EditStepText(c, i, word)
         \/ \E c \in DOMAIN cases : \E i \in DOMAIN cases[c].steps :
               \E claim \in ClaimIds(cases[c].steps[i]) : \E word : EditAssertionText(c, i, claim, word)
         \/ \E c \in DOMAIN cases : \E i \in DOMAIN cases[c].steps : Found(c, i) /\ AnswerEscalation(c, i)
         \/ /\ \E label, lost : Edited(label, lost)
            /\ Testified(cases, cases')
            /\ \E kind \in OtherKinds : \E label, claim : NotedAs(kind, label, claim)
  <1>1. ASSUME NEW c \in DOMAIN cases, NEW i \in DOMAIN cases[c].steps,
               (Found(c, i) /\ EditStep(c, i)) \/ Merge(c, i)
        PROVE  \/ \E word : EditStepText(c, i, word)
               \/ \E claim \in ClaimIds(cases[c].steps[i]) : \E word : EditAssertionText(c, i, claim, word)
               \/ Found(c, i) /\ AnswerEscalation(c, i)
               \/ Others(c, i)
    BY <1>1 DEF EditStep, Others
  <1>2. CASE \E c \in DOMAIN cases : \E i \in DOMAIN cases[c].steps : (Found(c, i) /\ EditStep(c, i)) \/ Merge(c, i)
    <2>1. PICK c \in DOMAIN cases :
             \E i \in DOMAIN cases[c].steps : (Found(c, i) /\ EditStep(c, i)) \/ Merge(c, i)
      BY <1>2
    <2>2. PICK i \in DOMAIN cases[c].steps : (Found(c, i) /\ EditStep(c, i)) \/ Merge(c, i)
      BY <2>1
    <2>3. CASE Others(c, i)
      BY <2>3, OthersAreEdits
    <2>4. QED
      BY <1>1, <2>2, <2>3
  <1>3. CASE \E c \in DOMAIN cases, word \in Words : RenameCase(c, word)
    <2>1. PICK c \in DOMAIN cases, word \in Words : RenameCase(c, word)
      BY <1>3
    <2>2. Edited(NoStep, {}) /\ Testified(cases, cases')
      BY <2>1, CaseRenamed
    <2>3. Record("case_renamed", c, NoStep, NoClaim) /\ "case_renamed" \in OtherKinds
      BY <2>1 DEF RenameCase, OtherKinds, EditKinds
    <2>4. QED
      BY <2>2, <2>3 DEF NotedAs
  <1>4. CASE \E line \in ToSet(Targets(cases)), word \in Words : EditFeatureText(line, word)
    <2>1. PICK line \in ToSet(Targets(cases)), word \in Words : EditFeatureText(line, word)
      BY <1>4
    <2>2. QED
      BY <2>1, FileTextEdited
  <1>5. CASE Approve
    BY <1>5, ApprovedIsSame
  <1>6. QED
    BY <1>2, <1>3, <1>4, <1>5 DEF Next

---------------------------------------------------------------------------
\* The documents a review starts from are as they should be.
LEMMA InitIsIInv ==
  ASSUME Init
  PROVE  IInv
  <1>1. /\ cases \in Documents /\ edits = <<>> /\ original = cases /\ gone = {} /\ plain = TRUE
    BY DEF Init
  <1>2. IsDocument(cases) /\ Resync(cases) = cases /\ NoEmptyCase(cases)
    BY <1>1, DocumentsAssumption
  <1>3. IsSeq(edits) /\ Len(edits) = 0 /\ DOMAIN edits = {}
    BY <1>1, None
  <1>4. Shape
    BY <1>1, <1>2, <1>3 DEF Shape
  <1>5. ReviewTypeOK
    BY <1>1, <1>3, DocumentsAssumption DEF ReviewTypeOK
  <1>6. EventsAreAccountedFor
    BY <1>1 DEF EventsAreAccountedFor
  <1>7. ChangedStepsAreLabelled
    <2>1. ASSUME NEW c \in DOMAIN cases, NEW i \in DOMAIN cases[c].steps
          PROVE  cases[c].steps[i] = [cases[c].steps[i] EXCEPT !.keyword = cases[c].steps[i].keyword]
      <3>1. IsStep(cases[c].steps[i])
        BY <1>2 DEF IsDocument, IsCase
      <3>2. QED
        BY <3>1, StepWithKeyword DEF Rekeyed
    <2>2. original = cases
      BY <1>1
    <2>3. QED
      BY <2>1, <2>2 DEF ChangedStepsAreLabelled
  <1>8. QED
    BY <1>1, <1>4, <1>5, <1>6, <1>7 DEF IInv

\* Every request keeps the invariant.
LEMMA StepKeepsIInv ==
  ASSUME IInv, [Next]_vars
  PROVE  IInv'
  <1>1. ASSUME UNCHANGED vars PROVE IInv'
    <2>1. cases' = cases /\ edits' = edits /\ original' = original /\ gone' = gone /\ plain' = plain
      BY <1>1 DEF vars
    <2>2. Shape'
      BY <2>1 DEF IInv, Shape
    <2>3. ReviewTypeOK'
      BY <2>1 DEF IInv, ReviewTypeOK
    <2>4. EventsAreAccountedFor' /\ Events(cases') \subseteq Events(original')
      BY <2>1 DEF IInv, EventsAreAccountedFor
    <2>5. ChangedStepsAreLabelled'
      BY <2>1 DEF IInv, ChangedStepsAreLabelled, EditedStepIds
    <2>6. QED
      BY <2>2, <2>3, <2>4, <2>5 DEF IInv
  <1>2. ASSUME NEW c \in DOMAIN cases, NEW i \in DOMAIN cases[c].steps, NEW word, EditStepText(c, i, word)
        PROVE  IInv'
    <2>1. Edited(cases[c].steps[i].id, {})
      BY <1>2, StepTextEdited
    <2>2. QED
      BY <2>1, EditedKeepsIInv
  <1>3. ASSUME NEW c \in DOMAIN cases, NEW i \in DOMAIN cases[c].steps,
               NEW claim \in ClaimIds(cases[c].steps[i]), NEW word, EditAssertionText(c, i, claim, word)
        PROVE  IInv'
    <2>1. Edited(cases[c].steps[i].id, {})
      BY <1>3, AssertionTextEdited
    <2>2. QED
      BY <2>1, EditedKeepsIInv
  <1>4. ASSUME NEW c \in DOMAIN cases, NEW i \in DOMAIN cases[c].steps, AnswerEscalation(c, i)
        PROVE  IInv'
    <2>1. Edited(cases[c].steps[i].id, {})
      BY <1>4, EscalationAnswered
    <2>2. QED
      BY <2>1, EditedKeepsIInv
  <1>5. ASSUME NEW label, NEW lost, Edited(label, lost) PROVE IInv'
    BY <1>5, EditedKeepsIInv
  <1>6. CASE Next
    <2>1. \/ UNCHANGED vars
          \/ \E c \in DOMAIN cases : \E i \in DOMAIN cases[c].steps : \E word : EditStepText(c, i, word)
          \/ \E c \in DOMAIN cases : \E i \in DOMAIN cases[c].steps :
                \E claim \in ClaimIds(cases[c].steps[i]) : \E word : EditAssertionText(c, i, claim, word)
          \/ \E c \in DOMAIN cases : \E i \in DOMAIN cases[c].steps : AnswerEscalation(c, i)
          \/ \E label, lost : Edited(label, lost)
      BY <1>6, WhatHappens
    <2>2. QED
      BY <1>1, <1>2, <1>3, <1>4, <1>5, <2>1
  <1>7. QED
    BY <1>1, <1>6

\* Whatever a reviewer does, the document is well formed and saved with its
\* keywords laid out; where the author gave no id twice, no id is there twice and
\* no case is empty; and the record is of what was done to the document: the
\* invariant of every endpoint of review.py.
THEOREM ReviewInvariant == Spec => []IInv
  <1>1. Init => IInv
    BY InitIsIInv
  <1>2. IInv /\ [Next]_vars => IInv'
    BY StepKeepsIInv
  <1>3. QED
    BY <1>1, <1>2, PTL DEF Spec

\* The record names kinds of edits there are, cases the document has and steps it
\* has or once had, and stays within its bound (review.py:_record); what the
\* document has of steps and cases it had from the start.
THEOREM ReviewTypeCorrect == Spec => []ReviewTypeOK
  <1>1. IInv => ReviewTypeOK
    BY DEF IInv
  <1>2. QED
    BY <1>1, ReviewInvariant, PTL

\* Of any document, whether or not its steps share ids: no edit but deleting a
\* step loses an event, and none lets two steps claim one event that was claimed
\* once, as long as no merge has named a step twice and none, nor a move, has
\* taken a step with the same id along (review.py:200-202, 228-231, 254).
THEOREM EventsAccounted == Spec => []EventsAreAccountedFor
  <1>1. IInv => EventsAreAccountedFor
    BY DEF IInv
  <1>2. QED
    BY <1>1, ReviewInvariant, PTL

\* Of any document, whether or not its steps share ids: every step that is not
\* what or where the pipeline left it is named in the record the difficulty
\* labels are made from (review.py:8-11, 474-476).
THEOREM ChangesLabelled == Spec => []ChangedStepsAreLabelled
  <1>1. IInv => ChangedStepsAreLabelled
    BY DEF IInv
  <1>2. QED
    BY <1>1, ReviewInvariant, PTL

\* After any edits of any document, whether or not its steps share ids, the stored
\* keywords are those of the feature file, the file is a well-formed feature and
\* its editable lines are those of the document (review.py:366-385, 462-469,
\* narrative.py:290-312).  Where the author gave no id twice, no id is there twice
\* and no case is empty (review.py:181-182, 249-252).
THEOREM CoherentDocument == Spec => []DocumentIsCoherent
  <1>1. IInv => DocumentIsCoherent
    <2>1. SUFFICES ASSUME IInv PROVE DocumentIsCoherent
      OBVIOUS
    <2>2. /\ IsDocument(cases) /\ Resync(cases) = cases
          /\ DistinctSteps(original) => DistinctSteps(cases) /\ NoEmptyCase(cases)
      BY <2>1 DEF IInv, Shape
    <2>3. KeywordsAgree
      BY <2>2, TheKeywordsAgree
    <2>4. ScenariosAreWellShaped
      BY <2>2, TheScenariosAreWellShaped
    <2>5. FileLinesUp
      BY <2>2, TheFileLinesUp
    <2>6. QED
      BY <2>2, <2>3, <2>4, <2>5 DEF DocumentIsCoherent
  <1>2. QED
    BY <1>1, ReviewInvariant, PTL

---------------------------------------------------------------------------
\* An answer to a question about a step makes accepted claims of this step
\* confirmed, and nothing else does.
LEMMA ConfirmedByAnswers ==
  ASSUME IInv, [Next]_vars
  PROVE  \A claim \in Confirmed(cases') :
            \/ \E old \in Confirmed(cases) : old.id = claim.id
            \/ /\ claim.accepted
               /\ Last(edits').kind = "escalation_answered"
               /\ \E c \in DOMAIN cases : \E i \in DOMAIN cases[c].steps :
                      /\ Found(c, i) /\ cases[c].steps[i].id = Last(edits').step
                      /\ cases[c].steps[i].asked /\ claim.id \in ClaimIds(cases[c].steps[i])
  <1>1. CASE Testified(cases, cases')
    BY <1>1 DEF Testified
  <1>2. ASSUME UNCHANGED vars PROVE Testified(cases, cases')
    BY <1>2 DEF vars, Testified
  <1>3. CASE \E c \in DOMAIN cases : \E i \in DOMAIN cases[c].steps : Found(c, i) /\ AnswerEscalation(c, i)
    <2>1. PICK c \in DOMAIN cases : \E i \in DOMAIN cases[c].steps : Found(c, i) /\ AnswerEscalation(c, i)
      BY <1>3
    <2>2. PICK i \in DOMAIN cases[c].steps : Found(c, i) /\ AnswerEscalation(c, i)
      BY <2>1
    <2>3. \A claim \in Confirmed(cases') :
             \/ \E old \in Confirmed(cases) : old.id = claim.id
             \/ claim.accepted /\ claim.id \in ClaimIds(cases[c].steps[i])
      BY <2>2, EscalationAnswered
    <2>4. cases[c].steps[i].asked /\ Record("escalation_answered", c, cases[c].steps[i].id, NoClaim)
      BY <2>2 DEF AnswerEscalation
    <2>5. NotedAs("escalation_answered", cases[c].steps[i].id, NoClaim)
      BY <2>4 DEF NotedAs
    <2>6. IsSeq(edits)
      BY DEF IInv, Shape
    <2>7. Last(edits').kind = "escalation_answered" /\ Last(edits').step = cases[c].steps[i].id
      BY <2>5, <2>6, NotedIsLast
    <2>8. QED
      BY <2>2, <2>3, <2>4, <2>7
  <1>4. ASSUME NEW c \in DOMAIN cases, NEW i \in DOMAIN cases[c].steps, NEW word, EditStepText(c, i, word)
        PROVE  Testified(cases, cases')
    BY <1>4, StepTextEdited
  <1>5. ASSUME NEW c \in DOMAIN cases, NEW i \in DOMAIN cases[c].steps,
               NEW claim \in ClaimIds(cases[c].steps[i]), NEW word, EditAssertionText(c, i, claim, word)
        PROVE  Testified(cases, cases')
    BY <1>5, AssertionTextEdited
  <1>6. CASE Next
    <2>1. \/ Testified(cases, cases')
          \/ \E c \in DOMAIN cases : \E i \in DOMAIN cases[c].steps : Found(c, i) /\ AnswerEscalation(c, i)
      BY <1>2, <1>4, <1>5, <1>6, WhatHappens
    <2>2. QED
      BY <1>1, <1>3, <2>1
  <1>7. QED
    BY <1>1, <1>2, <1>6

\* Accepting, rewording, merging, moving or deleting makes no expected result the
\* tester's testimony: one that becomes confirmed is accepted, and is of the step
\* whose question was just answered (review.py:81-83, 148-151).
THEOREM AnswersConfirm == Spec => OnlyAnswersConfirm
  <1> DEFINE A == \A claim \in Confirmed(cases') :
                     \/ \E old \in Confirmed(cases) : old.id = claim.id
                     \/ /\ claim.accepted
                        /\ Last(edits').kind = "escalation_answered"
                        /\ \E c \in DOMAIN cases : \E i \in DOMAIN cases[c].steps :
                               /\ Found(c, i) /\ cases[c].steps[i].id = Last(edits').step
                               /\ cases[c].steps[i].asked /\ claim.id \in ClaimIds(cases[c].steps[i])
  <1>1. IInv /\ [Next]_vars => [A]_vars
    BY ConfirmedByAnswers
  <1>2. QED
    BY <1>1, ReviewInvariant, PTL DEF Spec, OnlyAnswersConfirm

\* Lines that differ in the wording of one sentence at most.
SameLine(now, was, step, claim) ==
    /\ now = [keyword |-> now.keyword, text |-> now.text, step |-> now.step, claim |-> now.claim]
    /\ was = [keyword |-> was.keyword, text |-> was.text, step |-> was.step, claim |-> was.claim]
    /\ now.keyword = was.keyword /\ now.step = was.step /\ now.claim = was.claim
    /\ now.text = was.text \/ (was.step = step /\ was.claim = claim)

SameLines(t, s, step, claim) ==
    /\ IsSeq(t) /\ IsSeq(s) /\ Len(t) = Len(s)
    /\ \A q \in 1..Len(s) : SameLine(t[q], s[q], step, claim)

\* Steps that differ in it at most.
RewordedClaim(now, was) == now.id = was.id /\ now.accepted = was.accepted

Reworded(now, was, step, claim) ==
    /\ now.id = was.id /\ now.role = was.role
    /\ now.text = was.text \/ (was.id = step /\ claim = NoClaim)
    /\ Len(now.claims) = Len(was.claims)
    /\ \A k \in 1..Len(was.claims) :
          /\ RewordedClaim(now.claims[k], was.claims[k])
          /\ now.claims[k].text = was.claims[k].text \/ (was.id = step /\ was.claims[k].id = claim)

RewordedSteps(t, s, step, claim) ==
    /\ AreSteps(t) /\ AreSteps(s) /\ Len(t) = Len(s)
    /\ \A i \in 1..Len(s) : Reworded(t[i], s[i], step, claim)

RewordedDoc(new, old, step, claim) ==
    /\ IsDocument(new) /\ IsDocument(old) /\ Len(new) = Len(old)
    /\ \A c \in 1..Len(old) : /\ new[c].kind = old[c].kind /\ new[c].pre = old[c].pre
                              /\ RewordedSteps(new[c].steps, old[c].steps, step, claim)

\* A line is the same, or the one reworded.
LEMMA SameLinesMean ==
  ASSUME NEW now, NEW was, NEW step, NEW claim, SameLine(now, was, step, claim)
  PROVE  \/ now = was
         \/ /\ was.step = step /\ was.claim = claim
            /\ [now EXCEPT !.text = was.text] = was
  <1>1. CASE now.text = was.text
    BY <1>1 DEF SameLine
  <1>2. CASE was.step = step /\ was.claim = claim
    <2>1. [now EXCEPT !.text = was.text]
          = [keyword |-> now.keyword, text |-> was.text, step |-> now.step, claim |-> now.claim]
      BY DEF SameLine
    <2>2. QED
      BY <1>2, <2>1 DEF SameLine
  <1>3. QED
    BY <1>1, <1>2 DEF SameLine

\* The expected results of such steps.
LEMMA ExpectedReworded ==
  ASSUME NEW now, NEW was, IsStep(now), IsStep(was), NEW step, NEW claim,
         Reworded(now, was, step, claim)
  PROVE  /\ BaseKeyword(now) = BaseKeyword(was) /\ (Asserts(now) <=> Asserts(was))
         /\ SameLines(Expected(now), Expected(was), step, claim)
  <1> DEFINE a == was.claims
             b == now.claims
             K == Accepted(a)
             f == FlattenSeq(Keeps(a, K))
             g == FlattenSeq(Keeps(b, K))
  <1>1. /\ IsSeq(a) /\ IsSeq(b) /\ Len(a) = Len(b) /\ Len(a) \in Nat
        /\ DOMAIN a = 1..Len(a) /\ DOMAIN b = 1..Len(a)
    BY IsSeqMeans DEF IsStep, Reworded
  <1>2. \A k \in 1..Len(a) : b[k].id = a[k].id /\ b[k].accepted = a[k].accepted
    BY DEF Reworded, RewordedClaim
  <1>3. Asserts(now) <=> Asserts(was)
    BY <1>1, <1>2 DEF Asserts
  <1>4. BaseKeyword(now) = BaseKeyword(was)
    <2>1. now.role # "none" /\ was.role # "none" /\ now.role = was.role
      BY DEF IsStep, Reworded
    <2>2. CASE was.role = "setup"
      BY <2>1, <2>2 DEF BaseKeyword
    <2>3. CASE was.role # "setup"
      BY <2>1, <2>3 DEF BaseKeyword
    <2>4. QED
      BY <2>2, <2>3
  <1>5. Accepted(b) = K
    BY <1>1, <1>2 DEF Accepted
  <1>6. Shown(a) = f /\ Shown(b) = g
    <2>1. Shown(a) = FlattenSeq(Keeps(a, Accepted(a))) /\ Shown(b) = FlattenSeq(Keeps(b, Accepted(b)))
      BY <1>1, ShownAre
    <2>2. QED
      BY <1>5, <2>1
  <1> HIDE DEF K
  <1>7. /\ Len(f) \in Nat /\ Len(g) = Len(f)
        /\ \A q \in 1..Len(f) : \E k \in 1..Len(a) : k \in K /\ f[q] = a[k] /\ g[q] = b[k]
    <2>1. IsSeq(a) /\ IsSeq(b) /\ Len(a) = Len(b)
      BY <1>1
    <2> HIDE DEF a, b
    <2>2. Len(FlattenSeq(Keeps(a, K))) \in Nat
          /\ Len(FlattenSeq(Keeps(b, K))) = Len(FlattenSeq(Keeps(a, K)))
      BY <2>1, KeptOfBoth
    <2>3. \A q \in 1..Len(FlattenSeq(Keeps(a, K))) : \E k \in 1..Len(a) :
             k \in K /\ FlattenSeq(Keeps(a, K))[q] = a[k] /\ FlattenSeq(Keeps(b, K))[q] = b[k]
      BY <2>1, KeptOfBoth
    <2>4. QED
      BY <2>2, <2>3
  <1> DEFINE e == Expected(was)
             h == Expected(now)
  <1>8. /\ IsSeq(e) /\ Len(e) = Len(Shown(a))
        /\ \A q \in 1..Len(e) : e[q] = [keyword |-> IF q = 1 THEN "Then" ELSE "And", text |-> Shown(a)[q].text,
                                        step |-> was.id, claim |-> Shown(a)[q].id]
    BY ExpectedAre
  <1>9. /\ IsSeq(h) /\ Len(h) = Len(Shown(b))
        /\ \A q \in 1..Len(h) : h[q] = [keyword |-> IF q = 1 THEN "Then" ELSE "And", text |-> Shown(b)[q].text,
                                        step |-> now.id, claim |-> Shown(b)[q].id]
    BY ExpectedAre
  <1> HIDE DEF e, h, f, g
  <1>10. Len(e) = Len(f) /\ Len(h) = Len(f)
    BY <1>6, <1>7, <1>8, <1>9
  <1>11. ASSUME NEW q \in 1..Len(e) PROVE SameLine(h[q], e[q], step, claim)
    <2>1. PICK k \in 1..Len(a) : f[q] = a[k] /\ g[q] = b[k]
      BY <1>7, <1>10
    <2> DEFINE w == IF q = 1 THEN "Then" ELSE "And"
    <2>2. e[q] = [keyword |-> w, text |-> a[k].text, step |-> was.id, claim |-> a[k].id]
      BY <1>6, <1>8, <2>1
    <2>3. h[q] = [keyword |-> w, text |-> b[k].text, step |-> now.id, claim |-> b[k].id]
      BY <1>6, <1>9, <1>10, <2>1
    <2>4. /\ now.id = was.id /\ b[k].id = a[k].id
          /\ b[k].text = a[k].text \/ (was.id = step /\ a[k].id = claim)
      BY <1>2 DEF Reworded
    <2> HIDE DEF w, a, b
    <2>5. QED
      BY <2>2, <2>3, <2>4 DEF SameLine
  <1>12. SameLines(h, e, step, claim)
    BY <1>8, <1>9, <1>10, <1>11 DEF SameLines
  <1>13. QED
    BY <1>3, <1>4, <1>12 DEF e, h

\* The keywords are not touched, and where the lines are.
LEMMA LayOutReworded ==
  ASSUME NEW t, NEW s, NEW step, NEW claim, RewordedSteps(t, s, step, claim)
  PROVE  /\ SameLines(LayOut(t), LayOut(s), step, claim)
         /\ LeadingSetup(t) = LeadingSetup(s)
         /\ \A i \in 1..Len(s) : Keyword(t, i) = Keyword(s, i)
  <1>1. /\ IsSeq(s) /\ IsSeq(t) /\ Len(t) = Len(s) /\ AreSteps(s) /\ AreSteps(t)
        /\ \A i \in 1..Len(s) : IsStep(s[i]) /\ IsStep(t[i]) /\ Reworded(t[i], s[i], step, claim)
    BY DEF RewordedSteps, AreSteps
  <1>2. \A i \in 1..Len(s) : /\ BaseKeyword(t[i]) = BaseKeyword(s[i]) /\ (Asserts(t[i]) <=> Asserts(s[i]))
                             /\ SameLines(Expected(t[i]), Expected(s[i]), step, claim)
    BY <1>1, ExpectedReworded
  <1>3. LeadingSetup(t) = LeadingSetup(s) /\ \A i \in 1..Len(s) : Keyword(t, i) = Keyword(s, i)
    BY <1>1, <1>2, SameKeywords
  <1> DEFINE a == Blocks(s)
             b == Blocks(t)
  <1>4. /\ SeqOfSeqs(a) /\ Len(a) = Len(s) /\ LayOut(s) = FlattenSeq(a)
        /\ \A i \in 1..Len(s) : /\ Len(a[i]) = 1 + Len(Expected(s[i])) /\ a[i][1] = StepLine(s, i)
                                /\ \A j \in 1..Len(Expected(s[i])) : a[i][1 + j] = Expected(s[i])[j]
    BY <1>1, BlocksAre
  <1>5. /\ SeqOfSeqs(b) /\ Len(b) = Len(s) /\ LayOut(t) = FlattenSeq(b)
        /\ \A i \in 1..Len(s) : /\ Len(b[i]) = 1 + Len(Expected(t[i])) /\ b[i][1] = StepLine(t, i)
                                /\ \A j \in 1..Len(Expected(t[i])) : b[i][1 + j] = Expected(t[i])[j]
    BY <1>1, BlocksAre
  <1> HIDE DEF a, b
  <1>6. \A i \in 1..Len(s) : Len(Expected(t[i])) = Len(Expected(s[i])) /\ Len(Expected(s[i])) \in Nat
    BY <1>2, IsSeqMeans DEF SameLines
  <1>7. \A i \in 1..Len(a) : Len(a[i]) = Len(b[i])
    <2>1. SUFFICES ASSUME NEW i \in 1..Len(s) PROVE Len(a[i]) = Len(b[i])
      BY <1>4
    <2>2. Len(a[i]) = 1 + Len(Expected(s[i]))
      BY <1>4
    <2>3. Len(b[i]) = 1 + Len(Expected(t[i]))
      BY <1>5
    <2>4. QED
      BY <1>6, <2>2, <2>3
  <1>8. /\ \A i \in 1..(Len(a) + 1) : Start(a, i) = Start(b, i)
        /\ Len(FlattenSeq(a)) = Len(FlattenSeq(b))
    BY <1>4, <1>5, <1>7, FlatAlike
  <1>9. ASSUME NEW i \in 1..Len(s), NEW j \in 1..Len(a[i]) PROVE SameLine(b[i][j], a[i][j], step, claim)
    <2>1. CASE j = 1
      <3>1. a[i][j] = [keyword |-> Keyword(s, i), text |-> s[i].text, step |-> s[i].id, claim |-> NoClaim]
        BY <1>4, <2>1 DEF StepLine
      <3>2. b[i][j] = [keyword |-> Keyword(t, i), text |-> t[i].text, step |-> t[i].id, claim |-> NoClaim]
        BY <1>5, <2>1 DEF StepLine
      <3>3. /\ Keyword(t, i) = Keyword(s, i) /\ t[i].id = s[i].id
            /\ t[i].text = s[i].text \/ (s[i].id = step /\ claim = NoClaim)
        BY <1>1, <1>3 DEF Reworded
      <3>4. QED
        BY <3>1, <3>2, <3>3 DEF SameLine
    <2>2. CASE j # 1
      <3>1. j - 1 \in 1..Len(Expected(s[i])) /\ 1 + (j - 1) = j /\ j - 1 \in 1..Len(Expected(t[i]))
        BY <1>4, <1>6, <2>2
      <3>2. a[i][j] = Expected(s[i])[j - 1] /\ b[i][j] = Expected(t[i])[j - 1]
        BY <1>4, <1>5, <3>1
      <3>3. SameLine(Expected(t[i])[j - 1], Expected(s[i])[j - 1], step, claim)
        BY <1>2, <3>1 DEF SameLines
      <3>4. QED
        BY <3>2, <3>3
    <2>3. QED
      BY <2>1, <2>2
  <1>10. ASSUME NEW q \in 1..Len(FlattenSeq(a))
         PROVE  SameLine(FlattenSeq(b)[q], FlattenSeq(a)[q], step, claim)
    <2>1. PICK i \in 1..Len(a) : \E j \in 1..Len(a[i]) : q = Start(a, i) + j
      BY <1>4, FlatFrom
    <2>2. PICK j \in 1..Len(a[i]) : q = Start(a, i) + j
      BY <2>1
    <2>3. FlattenSeq(a)[q] = a[i][j]
      BY <1>4, <2>2, FlatPlaces
    <2>4. i \in 1..Len(b) /\ j \in 1..Len(b[i]) /\ q = Start(b, i) + j
      <3>1. i \in 1..(Len(a) + 1)
        BY <1>1, <1>4, IsSeqMeans
      <3>2. QED
        BY <1>4, <1>5, <1>7, <1>8, <2>2, <3>1
    <2>5. FlattenSeq(b)[q] = b[i][j]
      BY <1>5, <2>4, FlatPlaces
    <2>6. QED
      BY <1>4, <1>9, <2>2, <2>3, <2>5
  <1>11. IsSeq(FlattenSeq(a)) /\ IsSeq(FlattenSeq(b))
    BY <1>4, <1>5, StartsOf
  <1>12. QED
    BY <1>3, <1>4, <1>5, <1>8, <1>10, <1>11 DEF SameLines

\* What is lifted of the steps, and what is left.
LEMMA HalvesReworded ==
  ASSUME NEW t, NEW s, NEW step, NEW claim, RewordedSteps(t, s, step, claim), NEW lift
  PROVE  /\ SameLines(Lifted(t, lift), Lifted(s, lift), step, claim)
         /\ SameLines(Body(t, lift), Body(s, lift), step, claim)
  <1>1. AreSteps(s) /\ AreSteps(t) /\ Len(t) = Len(s) /\ \A i \in 1..Len(s) : Reworded(t[i], s[i], step, claim)
    BY DEF RewordedSteps
  <1>2. LeadingSetup(t) = LeadingSetup(s)
    BY LayOutReworded
  <1> DEFINE m == Lead(s, lift)
             u == Upper(s, lift)
             v == Lower(s, lift)
             x == Upper(t, lift)
             y == Lower(t, lift)
  <1>3. Lead(t, lift) = m
    BY <1>2 DEF Lead
  <1>4. /\ Len(s) \in Nat /\ m \in 0..Len(s)
        /\ AreSteps(u) /\ Len(u) = m /\ \A i \in 1..m : u[i] = s[i]
        /\ AreSteps(v) /\ Len(v) = Len(s) - m /\ \A i \in 1..(Len(s) - m) : v[i] = s[m + i]
        /\ Lifted(s, lift) = LayOut(u) /\ Body(s, lift) = LayOut(v)
    BY <1>1, Halves
  <1>5. /\ AreSteps(x) /\ Len(x) = m /\ \A i \in 1..m : x[i] = t[i]
        /\ AreSteps(y) /\ Len(y) = Len(s) - m /\ \A i \in 1..(Len(s) - m) : y[i] = t[m + i]
        /\ Lifted(t, lift) = LayOut(x) /\ Body(t, lift) = LayOut(y)
    <2> DEFINE n == Lead(t, lift)
    <2>1. /\ AreSteps(x) /\ Len(x) = n /\ \A i \in 1..n : x[i] = t[i] /\ Precondition(t[i])
          /\ AreSteps(y) /\ Len(y) = Len(t) - n /\ \A i \in 1..(Len(t) - n) : y[i] = t[n + i]
          /\ Lifted(t, lift) = LayOut(x) /\ Body(t, lift) = LayOut(y)
      BY <1>1, Halves
    <2> HIDE DEF x, y, m
    <2>2. QED
      BY <1>1, <1>3, <2>1
  <1> HIDE DEF m, u, v, x, y
  <1>6. RewordedSteps(x, u, step, claim)
    <2>1. ASSUME NEW i \in 1..Len(u) PROVE Reworded(x[i], u[i], step, claim)
      <3>1. i \in 1..m /\ i \in 1..Len(s)
        BY <1>4
      <3>2. x[i] = t[i] /\ u[i] = s[i]
        BY <1>4, <1>5, <3>1
      <3>3. QED
        BY <1>1, <3>1, <3>2
    <2>2. QED
      BY <1>4, <1>5, <2>1 DEF RewordedSteps
  <1>7. RewordedSteps(y, v, step, claim)
    <2>1. \A i \in 1..Len(v) : m + i \in 1..Len(s) /\ y[i] = t[m + i] /\ v[i] = s[m + i]
      BY <1>4, <1>5
    <2>2. QED
      BY <1>1, <1>4, <1>5, <2>1 DEF RewordedSteps
  <1>8. SameLines(LayOut(x), LayOut(u), step, claim) /\ SameLines(LayOut(y), LayOut(v), step, claim)
    BY <1>6, <1>7, LayOutReworded
  <1>9. QED
    BY <1>4, <1>5, <1>8

\* The scenarios of both, one by one.
LEMMA ScenariosReworded ==
  ASSUME NEW new, NEW old, NEW step, NEW claim, RewordedDoc(new, old, step, claim)
  PROVE  /\ Len(TestCases(new)) = Len(TestCases(old))
         /\ \A n \in 1..Len(TestCases(old)) :
               /\ TestCases(new)[n].pre = TestCases(old)[n].pre
               /\ RewordedSteps(TestCases(new)[n].steps, TestCases(old)[n].steps, step, claim)
  <1> DEFINE K == Scenes(old)
             f == FlattenSeq(Keeps(old, K))
             g == FlattenSeq(Keeps(new, K))
  <1>1. /\ IsDocument(new) /\ IsDocument(old) /\ Len(new) = Len(old)
        /\ \A c \in 1..Len(old) : /\ new[c].kind = old[c].kind /\ new[c].pre = old[c].pre
                                  /\ RewordedSteps(new[c].steps, old[c].steps, step, claim)
    BY DEF RewordedDoc
  <1>2. IsSeq(new) /\ IsSeq(old) /\ DOMAIN old = 1..Len(old) /\ DOMAIN new = 1..Len(old)
    BY <1>1, CasesAre
  <1>3. Scenes(new) = K
    BY <1>1, <1>2 DEF Scenes
  <1>4. TestCases(old) = f /\ TestCases(new) = g
    BY <1>1, <1>3, ScenariosAre
  <1> HIDE DEF K
  <1>5. Len(g) = Len(f)
    BY <1>1, <1>2, KeptOfBoth
  <1>6. \A q \in 1..Len(f) : \E k \in 1..Len(old) : k \in K /\ f[q] = old[k] /\ g[q] = new[k]
    BY <1>1, <1>2, KeptOfBoth
  <1> HIDE DEF f, g
  <1>7. ASSUME NEW n \in 1..Len(f)
        PROVE  g[n].pre = f[n].pre /\ RewordedSteps(g[n].steps, f[n].steps, step, claim)
    <2>1. PICK k \in 1..Len(old) : f[n] = old[k] /\ g[n] = new[k]
      BY <1>6
    <2>2. QED
      BY <1>1, <2>1
  <1>8. QED
    BY <1>4, <1>5, <1>7

\* The scenarios' own lines.
LEMMA BodiesReworded ==
  ASSUME NEW new, NEW old, NEW step, NEW claim, RewordedDoc(new, old, step, claim)
  PROVE  SameLines(Bodies(TestCases(new)), Bodies(TestCases(old)), step, claim)
  <1> DEFINE s == TestCases(old)
             t == TestCases(new)
             a == BodySeq(s)
             b == BodySeq(t)
  <1>1. /\ Len(t) = Len(s)
        /\ \A n \in 1..Len(s) : RewordedSteps(t[n].steps, s[n].steps, step, claim)
    BY ScenariosReworded
  <1>2. IsDocument(new) /\ IsDocument(old)
    BY DEF RewordedDoc
  <1>3. /\ SeqOfSeqs(a) /\ Len(a) = Len(s) /\ Bodies(s) = FlattenSeq(a)
        /\ \A n \in 1..Len(s) : a[n] = Body(s[n].steps, Lift(s, n))
        /\ IsSeq(Bodies(s)) /\ Len(Bodies(s)) \in Nat
    BY <1>2, BodiesAre
  <1>4. /\ SeqOfSeqs(b) /\ Len(b) = Len(t) /\ Bodies(t) = FlattenSeq(b)
        /\ \A n \in 1..Len(t) : b[n] = Body(t[n].steps, Lift(t, n))
        /\ IsSeq(Bodies(t)) /\ Len(Bodies(t)) \in Nat
    BY <1>2, BodiesAre
  <1> HIDE DEF s, t, a, b
  <1>5. ASSUME NEW n \in 1..Len(s) PROVE SameLines(b[n], a[n], step, claim)
    <2>1. Lift(t, n) = Lift(s, n)
      BY <1>1 DEF Lift
    <2>2. SameLines(Body(t[n].steps, Lift(s, n)), Body(s[n].steps, Lift(s, n)), step, claim)
      BY <1>1, HalvesReworded
    <2>3. QED
      BY <1>1, <1>3, <1>4, <2>1, <2>2
  <1>6. \A n \in 1..Len(a) : Len(a[n]) = Len(b[n])
    BY <1>3, <1>5 DEF SameLines
  <1>7. /\ \A n \in 1..(Len(a) + 1) : Start(a, n) = Start(b, n)
        /\ Len(FlattenSeq(a)) = Len(FlattenSeq(b))
    BY <1>1, <1>3, <1>4, <1>6, FlatAlike
  <1>8. ASSUME NEW q \in 1..Len(FlattenSeq(a))
        PROVE  SameLine(FlattenSeq(b)[q], FlattenSeq(a)[q], step, claim)
    <2>1. PICK n \in 1..Len(a) : \E j \in 1..Len(a[n]) : q = Start(a, n) + j
      BY <1>3, FlatFrom
    <2>2. PICK j \in 1..Len(a[n]) : q = Start(a, n) + j
      BY <2>1
    <2>3. FlattenSeq(a)[q] = a[n][j]
      BY <1>3, <2>2, FlatPlaces
    <2>4. n \in 1..Len(b) /\ j \in 1..Len(b[n]) /\ q = Start(b, n) + j
      <3>1. Len(a) \in Nat
        BY <1>3, IsSeqMeans DEF SeqOfSeqs
      <3>2. n \in 1..(Len(a) + 1)
        BY <3>1
      <3>3. QED
        BY <1>1, <1>3, <1>4, <1>6, <1>7, <2>2, <3>2
    <2>5. FlattenSeq(b)[q] = b[n][j]
      BY <1>4, <2>4, FlatPlaces
    <2>6. QED
      BY <1>3, <1>5, <2>2, <2>3, <2>5 DEF SameLines
  <1>9. QED
    BY <1>3, <1>4, <1>7, <1>8 DEF SameLines, s, t

\* The file is laid out the same, and differs in the one sentence.
LEMMA FileReworded ==
  ASSUME NEW new, NEW old, NEW step, NEW claim, RewordedDoc(new, old, step, claim)
  PROVE  SameLines(FeatureLines(new), FeatureLines(old), step, claim)
  <1> DEFINE s == TestCases(old)
             t == TestCases(new)
             pre == Inherited(s)
             a == LiftedLines(s)
             b == LiftedLines(t)
             c == Bodies(s)
             d == Bodies(t)
             f == FeatureLines(old)
             g == FeatureLines(new)
  <1>1. IsDocument(new) /\ IsDocument(old)
    BY DEF RewordedDoc
  <1>2. /\ Len(t) = Len(s)
        /\ \A n \in 1..Len(s) : t[n].pre = s[n].pre /\ RewordedSteps(t[n].steps, s[n].steps, step, claim)
    BY ScenariosReworded
  <1>3. SameLines(d, c, step, claim)
    BY BodiesReworded
  <1>4. /\ Len(s) \in Nat /\ (s = <<>> <=> Len(s) = 0) /\ (t = <<>> <=> Len(t) = 0)
    BY <1>1, ScenariosAre, IsSeqMeans
  <1>5. Inherited(t) = pre
    <2>1. s # <<>> => 1 \in 1..Len(s)
      BY <1>4
    <2> HIDE DEF s, t
    <2>2. QED
      BY <1>2, <1>4, <2>1 DEF Inherited
  <1>6. SameLines(b, a, step, claim)
    <2> HIDE DEF s, t
    <2>1. CASE s = <<>>
      <3>1. a = <<>> /\ b = <<>>
        BY <1>2, <1>4, <2>1 DEF LiftedLines
      <3> HIDE DEF a, b
      <3>2. QED
        BY <3>1, None DEF SameLines
    <2>2. CASE s # <<>>
      <3>1. 1 \in 1..Len(s) /\ t # <<>>
        BY <1>2, <1>4, <2>2
      <3>2. Lift(t, 1) = Lift(s, 1)
        BY <1>2 DEF Lift
      <3>3. SameLines(Lifted(t[1].steps, Lift(s, 1)), Lifted(s[1].steps, Lift(s, 1)), step, claim)
        BY <1>2, <3>1, HalvesReworded
      <3>4. QED
        BY <2>2, <3>1, <3>2, <3>3 DEF LiftedLines
    <2>3. QED
      BY <2>1, <2>2
  <1> DEFINE p == Len(pre)
  <1>7. /\ IsSeq(f) /\ IsSeq(pre) /\ IsSeq(a) /\ p \in Nat /\ Len(a) \in Nat /\ Len(c) \in Nat
        /\ Len(f) = (p + Len(a)) + Len(c)
    BY <1>1, FileIs
  <1>8. /\ \A k \in 1..p : Background(s)[k] = Top(pre)[k]
        /\ \A k \in 1..Len(a) : Background(s)[p + k] = Continued(a, pre)[k]
        /\ \A k \in 1..(p + Len(a)) : f[k] = Background(s)[k]
        /\ \A k \in 1..Len(c) : f[(p + Len(a)) + k] = c[k]
    BY <1>1, FileIs
  <1> DEFINE other == Inherited(t)
  <1>9. /\ IsSeq(g) /\ IsSeq(b)
        /\ Len(g) = (Len(other) + Len(b)) + Len(d)
    BY <1>1, FileIs
  <1>10. /\ \A k \in 1..Len(other) : Background(t)[k] = Top(other)[k]
         /\ \A k \in 1..Len(b) : Background(t)[Len(other) + k] = Continued(b, other)[k]
         /\ \A k \in 1..(Len(other) + Len(b)) : g[k] = Background(t)[k]
         /\ \A k \in 1..Len(d) : g[(Len(other) + Len(b)) + k] = d[k]
    BY <1>1, FileIs
  <1>11. other = pre
    BY <1>5
  <1> HIDE DEF s, t, pre, a, b, c, d, f, g, other
  <1>12. Len(b) = Len(a) /\ Len(d) = Len(c)
    BY <1>3, <1>6 DEF SameLines
  <1>13. ASSUME NEW k \in 1..p PROVE SameLine(g[k], f[k], step, claim)
    <2>1. Len(other) = p /\ k \in 1..(p + Len(a)) /\ k \in 1..Len(pre)
      BY <1>7, <1>11
    <2>2. g[k] = Top(pre)[k] /\ f[k] = Top(pre)[k]
      BY <1>8, <1>10, <1>11, <1>12, <2>1
    <2>3. k \in DOMAIN pre
      BY <1>7, <2>1, IsSeqMeans
    <2>4. Top(pre)[k] = [keyword |-> IF k = 1 THEN "Given" ELSE "And", text |-> pre[k],
                         step |-> NoStep, claim |-> NoClaim]
      BY <2>3 DEF Top
    <2>5. QED
      BY <2>2, <2>4 DEF SameLine
  <1>14. ASSUME NEW k \in 1..Len(a) PROVE SameLine(g[p + k], f[p + k], step, claim)
    <2>1. Len(other) = p /\ p + k \in 1..(p + Len(a))
      BY <1>7, <1>11
    <2>2. g[p + k] = Continued(b, pre)[k] /\ f[p + k] = Continued(a, pre)[k]
      BY <1>8, <1>10, <1>11, <1>12, <2>1
    <2>3. SameLine(b[k], a[k], step, claim)
      BY <1>6 DEF SameLines
    <2> DEFINE Goes == k = 1 /\ pre # <<>> /\ a[k].keyword = "Given"
    <2>4. b[k].keyword = a[k].keyword
      BY <2>3 DEF SameLine
    <2>5. /\ Continued(a, pre)[k] = IF Goes THEN [a[k] EXCEPT !.keyword = "And"] ELSE a[k]
          /\ Continued(b, pre)[k] = IF Goes THEN [b[k] EXCEPT !.keyword = "And"] ELSE b[k]
      <3>1. IsSeq(a) /\ IsSeq(b) /\ k \in 1..Len(a) /\ k \in 1..Len(b)
        BY <1>7, <1>9, <1>12
      <3>2. Continued(a, pre)[k] = IF Goes THEN [a[k] EXCEPT !.keyword = "And"] ELSE a[k]
        BY <3>1, ContinuedIs
      <3>3. Continued(b, pre)[k] = IF k = 1 /\ pre # <<>> /\ b[k].keyword = "Given"
                                   THEN [b[k] EXCEPT !.keyword = "And"] ELSE b[k]
        BY <3>1, ContinuedIs
      <3>4. QED
        BY <2>4, <3>2, <3>3
    <2> HIDE DEF Goes
    <2>6. SameLine([b[k] EXCEPT !.keyword = "And"], [a[k] EXCEPT !.keyword = "And"], step, claim)
      <3> DEFINE x == [a[k] EXCEPT !.keyword = "And"]
                 y == [b[k] EXCEPT !.keyword = "And"]
      <3>1. x = [keyword |-> "And", text |-> a[k].text, step |-> a[k].step, claim |-> a[k].claim]
        BY <2>3 DEF SameLine
      <3>2. y = [keyword |-> "And", text |-> b[k].text, step |-> b[k].step, claim |-> b[k].claim]
        BY <2>3 DEF SameLine
      <3>3. /\ b[k].step = a[k].step /\ b[k].claim = a[k].claim
            /\ b[k].text = a[k].text \/ (a[k].step = step /\ a[k].claim = claim)
        BY <2>3 DEF SameLine
      <3> HIDE DEF x, y
      <3>4. SameLine(y, x, step, claim)
        BY <3>1, <3>2, <3>3 DEF SameLine
      <3>5. QED
        BY <3>4 DEF x, y
    <2>7. QED
      BY <2>2, <2>3, <2>5, <2>6
  <1>15. ASSUME NEW k \in 1..Len(c) PROVE SameLine(g[(p + Len(a)) + k], f[(p + Len(a)) + k], step, claim)
    <2>1. g[(p + Len(a)) + k] = d[k] /\ f[(p + Len(a)) + k] = c[k]
      BY <1>8, <1>10, <1>11, <1>12
    <2>2. QED
      BY <1>3, <2>1 DEF SameLines
  <1>16. ASSUME NEW q \in 1..Len(f) PROVE SameLine(g[q], f[q], step, claim)
    <2> HIDE DEF p
    <2>1. \/ q \in 1..p
          \/ q - p \in 1..Len(a) /\ q = p + (q - p)
          \/ q - (p + Len(a)) \in 1..Len(c) /\ q = (p + Len(a)) + (q - (p + Len(a)))
      BY <1>7
    <2>2. CASE q \in 1..p
      BY <1>13, <2>2
    <2>3. CASE q - p \in 1..Len(a) /\ q = p + (q - p)
      BY <1>14, <2>3
    <2>4. CASE q - (p + Len(a)) \in 1..Len(c) /\ q = (p + Len(a)) + (q - (p + Len(a)))
      BY <1>15, <2>4
    <2>5. QED
      BY <2>1, <2>2, <2>3, <2>4
  <1>17. Len(g) = Len(f)
    BY <1>7, <1>9, <1>11, <1>12
  <1>18. QED
    BY <1>7, <1>9, <1>16, <1>17 DEF SameLines, f, g

\* A step is its own rewording.
LEMMA SameIsReworded ==
  ASSUME NEW x, NEW step, NEW claim
  PROVE  Reworded(x, x, step, claim)
  BY DEF Reworded, RewordedClaim

\* One step reworded, and the document saved.
LEMMA StepReworded ==
  ASSUME Shape, NEW c \in DOMAIN cases, NEW i \in DOMAIN cases[c].steps, NEW new, IsStep(new),
         NEW id, NEW claim, Reworded(new, cases[c].steps[i], id, claim)
  PROVE  RewordedDoc(Resync(WithStep(c, i, new)), cases, id, claim)
  <1> DEFINE old == cases[c].steps
             s == [old EXCEPT ![i] = new]
             doc == [cases EXCEPT ![c].steps = s]
             saved == Resync(doc)
  <1>1. /\ IsDocument(cases) /\ DOMAIN cases = 1..Len(cases) /\ c \in 1..Len(cases)
        /\ IsSeq(old) /\ DOMAIN old = 1..Len(old) /\ i \in 1..Len(old) /\ AreSteps(old)
        /\ \A j \in 1..Len(old) : IsStep(old[j])
    BY TheCase
  <1>2. WithStep(c, i, new) = doc
    BY DEF WithStep
  <1> HIDE DEF old
  <1>3. /\ IsSeq(s) /\ Len(s) = Len(old) /\ s[i] = new /\ \A j \in 1..Len(old) : j # i => s[j] = old[j]
    <2>1. IsSeq(old) /\ i \in 1..Len(old)
      BY <1>1
    <2>2. QED
      BY <2>1, ReplacedAt
  <1> HIDE DEF s
  <1>4. AreSteps(s) /\ \A j \in 1..Len(s) : IsStep(s[j])
    BY <1>1, <1>3 DEF AreSteps
  <1>5. Reworded(new, old[i], id, claim)
    BY DEF old
  <1>6. \A j \in 1..Len(old) : Reworded(s[j], old[j], id, claim)
    BY <1>3, <1>5, SameIsReworded
  <1>7. /\ IsDocument(doc) /\ Len(doc) = Len(cases) /\ DOMAIN doc = DOMAIN cases
        /\ doc[c].steps = s /\ doc[c].kind = cases[c].kind /\ doc[c].pre = cases[c].pre
        /\ \A d \in 1..Len(cases) : d # c => doc[d] = cases[d]
    <2>1. IsDocument(cases) /\ c \in 1..Len(cases) /\ AreSteps(s)
      BY <1>1, <1>4
    <2>2. IsDocument(doc) /\ Len(doc) = Len(cases) /\ DOMAIN doc = DOMAIN cases
      BY <2>1, OtherSteps
    <2>3. doc[c].steps = s
      BY <2>1, OtherSteps
    <2>4. doc[c].kind = cases[c].kind
      BY <2>1, OtherSteps, ZenonT(60)
    <2>5. doc[c].pre = cases[c].pre
      BY <2>1, OtherSteps, ZenonT(60)
    <2>6. \A d \in 1..Len(cases) : d # c => doc[d] = cases[d]
      BY <2>1, OtherSteps
    <2>7. QED
      BY <2>2, <2>3, <2>4, <2>5, <2>6
  <1> HIDE DEF doc
  <1>8. ASSUME NEW d \in 1..Len(cases)
        PROVE  /\ doc[d].kind = cases[d].kind /\ doc[d].pre = cases[d].pre
               /\ AreSteps(doc[d].steps) /\ AreSteps(cases[d].steps)
               /\ Len(doc[d].steps) = Len(cases[d].steps)
               /\ \A j \in 1..Len(cases[d].steps) : Reworded(doc[d].steps[j], cases[d].steps[j], id, claim)
    <2>1. CASE d = c
      BY <1>1, <1>3, <1>4, <1>6, <1>7, <2>1 DEF old
    <2>2. CASE d # c
      <3>1. AreSteps(cases[d].steps)
        BY <1>1, CasesAre
      <3>2. QED
        BY <1>7, <2>2, <3>1, SameIsReworded
    <2>3. QED
      BY <2>1, <2>2
  <1>9. /\ IsDocument(saved) /\ Len(saved) = Len(doc)
        /\ \A d \in 1..Len(doc) :
              /\ saved[d].kind = doc[d].kind /\ saved[d].pre = doc[d].pre
              /\ Len(saved[d].steps) = Len(doc[d].steps)
              /\ \A j \in 1..Len(doc[d].steps) :
                    saved[d].steps[j] = Rekeyed(doc[d].steps[j], Keyword(doc[d].steps, j))
    BY <1>7, Resynced
  <1> HIDE DEF saved
  <1>10. ASSUME NEW d \in 1..Len(cases)
         PROVE  /\ saved[d].kind = cases[d].kind /\ saved[d].pre = cases[d].pre
                /\ RewordedSteps(saved[d].steps, cases[d].steps, id, claim)
    <2>1. AreSteps(saved[d].steps)
      BY <1>7, <1>9, CasesAre
    <2>2. ASSUME NEW j \in 1..Len(cases[d].steps)
          PROVE  Reworded(saved[d].steps[j], cases[d].steps[j], id, claim)
      <3> DEFINE x == doc[d].steps[j]
                 w == Keyword(doc[d].steps, j)
      <3>1. IsStep(x) /\ Reworded(x, cases[d].steps[j], id, claim) /\ saved[d].steps[j] = Rekeyed(x, w)
        BY <1>7, <1>8, <1>9 DEF AreSteps
      <3> HIDE DEF x, w
      <3>2. /\ Rekeyed(x, w).id = x.id /\ Rekeyed(x, w).text = x.text /\ Rekeyed(x, w).role = x.role
            /\ Rekeyed(x, w).claims = x.claims
        BY <3>1, StepWithKeyword
      <3>3. Reworded(Rekeyed(x, w), cases[d].steps[j], id, claim)
        BY <3>1, <3>2 DEF Reworded
      <3>4. QED
        BY <3>1, <3>3
    <2>3. QED
      BY <1>7, <1>8, <1>9, <2>1, <2>2 DEF RewordedSteps
  <1>11. RewordedDoc(saved, cases, id, claim)
    BY <1>1, <1>7, <1>9, <1>10 DEF RewordedDoc
  <1>12. QED
    BY <1>2, <1>11 DEF saved

\* EditStepText rewords the step.
LEMMA TextStaysInItsLine ==
  ASSUME IInv, NEW c \in DOMAIN cases, NEW i \in DOMAIN cases[c].steps, NEW word, EditStepText(c, i, word)
  PROVE  RewordedDoc(cases', cases, cases[c].steps[i].id, NoClaim)
         /\ NotedAs("step_text", cases[c].steps[i].id, NoClaim)
  <1> DEFINE step == cases[c].steps[i]
             new == [step EXCEPT !.text = word]
  <1>1. Shape /\ IsStep(step)
    BY TheCase DEF IInv
  <1>2. cases' = Resync(WithStep(c, i, new)) /\ Record("step_text", c, step.id, NoClaim)
    BY DEF EditStepText, Save
  <1>3. /\ IsStep(new) /\ new.id = step.id /\ new.role = step.role /\ new.claims = step.claims
    <2> HIDE DEF step
    <2> QED BY <1>1, StepWithText
  <1> HIDE DEF new
  <1>4. Reworded(new, step, step.id, NoClaim)
    BY <1>3 DEF Reworded, RewordedClaim
  <1>5. RewordedDoc(Resync(WithStep(c, i, new)), cases, step.id, NoClaim)
    BY <1>1, <1>3, <1>4, StepReworded
  <1>6. QED
    BY <1>2, <1>5 DEF NotedAs

\* EditAssertionText rewords the expected result.
LEMMA ClaimStaysInItsLine ==
  ASSUME IInv, NEW c \in DOMAIN cases, NEW i \in DOMAIN cases[c].steps,
         NEW claim \in ClaimIds(cases[c].steps[i]), NEW word, EditAssertionText(c, i, claim, word)
  PROVE  RewordedDoc(cases', cases, cases[c].steps[i].id, claim)
         /\ NotedAs("assertion_text", cases[c].steps[i].id, claim)
  <1> DEFINE step == cases[c].steps[i]
             k == Place(step, claim)
             old == step.claims
             x == [old[k] EXCEPT !.text = word]
             claims == [old EXCEPT ![k] = x]
             new == Reclaimed(step, claims)
  <1>1. Shape /\ IsStep(step)
    BY TheCase DEF IInv
  <1>2. cases' = Resync(WithStep(c, i, new)) /\ Record("assertion_text", c, step.id, claim)
    BY DEF EditAssertionText, Save, Reclaimed
  <1>3. k \in 1..Len(old) /\ old[k].id = claim
    <2> HIDE DEF step
    <2>1. claim \in ClaimIds(step)
      BY DEF step
    <2>2. QED
      BY <1>1, <2>1, PlaceIs
  <1>4. IsSeq(old) /\ \A j \in 1..Len(old) : IsClaim(old[j])
    <2> HIDE DEF step
    <2>1. QED
      BY <1>1, IsSeqMeans DEF IsStep
  <1> HIDE DEF k, old
  <1>5. IsClaim(x) /\ x.id = old[k].id /\ x.accepted = old[k].accepted
    <2>1. IsClaim(old[k])
      BY <1>3, <1>4
    <2>2. QED
      BY <2>1, ClaimReworded
  <1> HIDE DEF x
  <1>6. /\ IsSeq(claims) /\ Len(claims) = Len(old) /\ claims[k] = x
        /\ \A j \in 1..Len(old) : j # k => claims[j] = old[j]
    BY <1>3, <1>4, ReplacedAt
  <1> HIDE DEF claims
  <1>7. \A j \in 1..Len(claims) : IsClaim(claims[j])
    BY <1>4, <1>5, <1>6
  <1>8. /\ IsStep(new) /\ new.claims = claims /\ new.id = step.id /\ new.text = step.text /\ new.role = step.role
    <2> HIDE DEF step
    <2>1. QED
      BY <1>1, <1>6, <1>7, StepWithClaims
  <1> HIDE DEF new
  <1>9. Reworded(new, step, step.id, claim)
    <2>1. ASSUME NEW j \in 1..Len(old)
          PROVE  /\ RewordedClaim(claims[j], old[j])
                 /\ claims[j].text = old[j].text \/ old[j].id = claim
      <3>1. CASE j = k
        BY <1>3, <1>5, <1>6, <3>1 DEF RewordedClaim
      <3>2. CASE j # k
        BY <1>6, <3>2 DEF RewordedClaim
      <3>3. QED
        BY <3>1, <3>2
    <2>2. Len(new.claims) = Len(old) /\ old = step.claims
      BY <1>6, <1>8 DEF old
    <2> HIDE DEF step
    <2>3. QED
      BY <1>8, <2>1, <2>2 DEF Reworded
  <1>10. RewordedDoc(Resync(WithStep(c, i, new)), cases, step.id, claim)
    BY <1>1, <1>8, <1>9, StepReworded
  <1>11. QED
    BY <1>2, <1>10 DEF NotedAs

\* A reworded document, recorded as such, has one other sentence.
LEMMA RewordedLines ==
  ASSUME IsSeq(edits), NEW kind, NEW id, NEW claim, NotedAs(kind, id, claim),
         RewordedDoc(cases', cases, id, claim)
  PROVE  OnlyRewords(Last(edits'), FeatureLines(cases), FeatureLines(cases'))
  <1> DEFINE was == FeatureLines(cases)
             now == FeatureLines(cases')
  <1>1. Last(edits').step = id /\ Last(edits').claim = claim
    BY NotedIsLast
  <1>2. SameLines(now, was, id, claim)
    BY FileReworded
  <1> HIDE DEF was, now
  <1>3. /\ Len(now) = Len(was) /\ DOMAIN was = 1..Len(was)
        /\ \A n \in 1..Len(was) : SameLine(now[n], was[n], id, claim)
    BY <1>2, IsSeqMeans DEF SameLines
  <1>4. ASSUME NEW n \in DOMAIN was
        PROVE  \/ now[n] = was[n]
               \/ /\ was[n].step = id /\ was[n].claim = claim
                  /\ [now[n] EXCEPT !.text = was[n].text] = was[n]
    <2>1. SameLine(now[n], was[n], id, claim)
      BY <1>3
    <2>2. QED
      BY <2>1, SameLinesMean
  <1>5. OnlyRewords(Last(edits'), was, now)
    BY <1>1, <1>3, <1>4 DEF OnlyRewords
  <1>6. QED
    BY <1>5 DEF was, now

\* Only these two are recorded as rewording.
LEMMA RewordsOneLine ==
  ASSUME IInv, [Next]_vars, edits' # edits, Last(edits').kind \in {"step_text", "assertion_text"}
  PROVE  OnlyRewords(Last(edits'), FeatureLines(cases), FeatureLines(cases'))
  <1>1. IsSeq(edits)
    BY DEF IInv, Shape
  <1>2. ASSUME NEW c \in DOMAIN cases, NEW i \in DOMAIN cases[c].steps, NEW word, EditStepText(c, i, word)
        PROVE  OnlyRewords(Last(edits'), FeatureLines(cases), FeatureLines(cases'))
    <2>1. RewordedDoc(cases', cases, cases[c].steps[i].id, NoClaim)
          /\ NotedAs("step_text", cases[c].steps[i].id, NoClaim)
      BY <1>2, TextStaysInItsLine
    <2>2. QED
      BY <1>1, <2>1, RewordedLines
  <1>3. ASSUME NEW c \in DOMAIN cases, NEW i \in DOMAIN cases[c].steps,
               NEW claim \in ClaimIds(cases[c].steps[i]), NEW word, EditAssertionText(c, i, claim, word)
        PROVE  OnlyRewords(Last(edits'), FeatureLines(cases), FeatureLines(cases'))
    <2>1. RewordedDoc(cases', cases, cases[c].steps[i].id, claim)
          /\ NotedAs("assertion_text", cases[c].steps[i].id, claim)
      BY <1>3, ClaimStaysInItsLine
    <2>2. QED
      BY <1>1, <2>1, RewordedLines
  <1>4. ASSUME NEW c \in DOMAIN cases, NEW i \in DOMAIN cases[c].steps, AnswerEscalation(c, i) PROVE FALSE
    <2>1. NotedAs("escalation_answered", cases[c].steps[i].id, NoClaim)
      BY <1>4 DEF AnswerEscalation, NotedAs
    <2>2. Last(edits').kind = "escalation_answered"
      BY <1>1, <2>1, NotedIsLast
    <2>3. QED
      BY <2>2
  <1>5. ASSUME NEW kind \in OtherKinds, NEW label, NEW claim, NotedAs(kind, label, claim) PROVE FALSE
    <2>1. Last(edits').kind = kind
      BY <1>1, <1>5, NotedIsLast
    <2>2. QED
      BY <2>1 DEF OtherKinds
  <1>6. Next /\ ~UNCHANGED vars
    BY DEF vars
  <1>7. QED
    BY <1>2, <1>3, <1>4, <1>5, <1>6, WhatHappens

\* Rewording a step or an expected result, in a form or in the feature text, changes
\* the line of the file that has the sentence and nothing else: no other line, no
\* keyword, and no line more or less (review.py:386-401).
THEOREM RewordingInItsLine == Spec => RewordingStaysInItsLine
  <1> DEFINE A == edits' # edits /\ Last(edits').kind \in {"step_text", "assertion_text"}
                  => OnlyRewords(Last(edits'), FeatureLines(cases), FeatureLines(cases'))
  <1>1. IInv /\ [Next]_vars => [A]_vars
    BY RewordsOneLine
  <1>2. QED
    BY <1>1, ReviewInvariant, PTL DEF Spec, RewordingStaysInItsLine
=============================================================================
