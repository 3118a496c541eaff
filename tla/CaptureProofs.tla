----------------------------- MODULE CaptureProofs -----------------------------
(* What is true of recordings for any number of frames, documents, actions,*)
(* calls and notes, and for any budget.                                    *)
EXTENDS Capture, FunctionTheorems, SequenceTheorems, FiniteSetTheorems, TLAPS

(***************************************************************************)
(* The inductive invariant.                                                *)
(***************************************************************************)

\* Actions have the times at which they were begun, in that order.
InOrder ==
    /\ \A i, k \in DOMAIN acts : i <= k => acts[i].at <= acts[k].at
    /\ \A i \in DOMAIN acts : acts[i].at <= clock

\* A row is that of one action and has its own number.
RowsFit ==
    /\ IsFiniteSet(rows)
    /\ \A r \in rows : /\ r.act \in DOMAIN acts \ pending
                       /\ r.at = acts[r.act].at /\ r.id = FrameId[acts[r.act].frame]
                       /\ r.order < Cardinality(rows)
    /\ \A r, s \in rows : r.act = s.act \/ r.order = s.order => r = s

\* What a frame has begun it sends before it begins anything else.
InTurn ==
    /\ \A r, s \in rows :
           acts[r.act].frame = acts[s.act].frame /\ r.act < s.act => r.order < s.order
    /\ \A n \in pending : \A m \in DOMAIN acts : acts[m].frame = acts[n].frame => m <= n

\* What stands for a call or a line, open or reported, was begun on the action it names.
Begun(o) == o.by # 0 => /\ o.by \in DOMAIN acts /\ acts[o.by].frame = o.frame
                        /\ acts[o.by].at <= o.at
Caused ==
    /\ \A f \in Frames : \A c \in doc[f].open : Begun(c) /\ c.frame = f
    /\ \A o \in obs : Begun(o) /\ o.id = FrameId[o.frame]

\* A note stands between the action it was made on and the next one.
Noted ==
    \A i \in DOMAIN notes :
        /\ notes[i].by \in 0..Len(acts) /\ notes[i].at <= clock
        /\ notes[i].by # 0 => acts[notes[i].by].at <= notes[i].at
        /\ \A m \in DOMAIN acts : m > notes[i].by => notes[i].at <= acts[m].at

\* The store keeps one observation for a key: of the answered calls the last one.
Superseded(c) == \E d \in answered : d.nth > c.nth /\ Key(d) = Key(c)
KeptByKey ==
    /\ IsFiniteSet(obs) /\ IsFiniteSet(answered)
    /\ \A o, p \in obs : Key(o) = Key(p) => o = p
    /\ \A o \in obs : o.type = "network" => o \in answered
    /\ \A c \in answered : c.nth < Cardinality(answered) /\ (c \in obs \/ Superseded(c))

\* What was typed is among the parameters once the action is sent, unless the
\* recorder of its document was started again meanwhile.
Remembered ==
    /\ \A r \in rows : acts[r.act].says # 0 /\ r.start = acts[r.act].start => acts[r.act].says \in params
    /\ \A n \in pending :
           LET d == doc[acts[n].frame]
           IN  /\ acts[n].start <= d.start
               /\ acts[n].start = d.start => acts[n].says <= Len(d.assigned)

\* The page assembles what the stores hold, and nothing comes after it.
Assembly == [calls |-> UNION {{r.act} \X (CallsOf(r) \cup LinesOf(r)) : r \in rows},
             notes |-> UNION {{r.act : r \in NoteOwner(notes[i])} \X {i} : i \in DOMAIN notes},
             parameters |-> LiveParameters]
Made == Assembled => recording = Assembly

IInv ==
    /\ TypeOK /\ InOrder /\ RowsFit /\ InTurn /\ Caused /\ Noted
    /\ KeptByKey /\ Remembered /\ Made

-----------------------------------------------------------------------------
Assignments == Seq(Values)
NoteLists == Seq([at : 0..MaxClock, boundary : BOOLEAN, by : Nat])
AllKinds == UNION {Kinds[f] : f \in Frames}

\* What is made of the constants alone.
LEMMA Constants ==
  /\ Docs' = Docs /\ Acts' = Acts /\ Rows' = Rows /\ Calls' = Calls /\ Entries' = Entries
  /\ NoteLists' = NoteLists /\ Assignments' = Assignments /\ Epoch' = Epoch
  /\ MaxClock \in Nat /\ Epoch \in Nat /\ MaxClock < Epoch /\ Lead \in Nat
  BY CaptureAssumption DEF Docs, Acts, Rows, Calls, Entries, NoteLists, Assignments, Epoch

-----------------------------------------------------------------------------
(* Numbers, sequences, and finite sets. *)

\* The least of some numbers, and the greatest of some that have a bound.
LEMMA Least ==
  ASSUME NEW T \in SUBSET Nat, T # {}
  PROVE  \E n \in T : \A m \in T : n <= m
  <1>1. T \subseteq Nat
    OBVIOUS
  <1>2. PICK n \in T : \A m \in T : ~(<<m, n>> \in OpToRel(<, Nat))
    BY <1>1, WFMin, NatLessThanWellFounded, Zenon
  <1>3. ASSUME NEW m \in T, m < n PROVE FALSE
    <2>1. <<m, n>> \in OpToRel(<, Nat)
      BY <1>1, <1>3 DEF OpToRel
    <2>2. QED
      BY <1>2, <2>1
  <1>4. QED
    BY <1>1, <1>3

LEMMA Greatest ==
  ASSUME NEW b \in Nat, NEW T \in SUBSET (0..b), T # {}
  PROVE  \E n \in T : \A m \in T : m <= n
  <1> DEFINE U == {k \in Nat : \E n \in T : k = b - n}
  <1>1. U \in SUBSET Nat /\ U # {}
    <2>1. PICK x \in T : x \in 0..b
      OBVIOUS
    <2>2. b - x \in Nat
      BY <2>1
    <2>3. b - x \in U
      BY <2>1, <2>2
    <2>4. QED
      BY <2>3
  <1>2. PICK k \in U : \A m \in U : k <= m
    BY <1>1, Least
  <1>3. PICK n \in T : k = b - n
    BY <1>2
  <1>4. \A m \in T : b - m \in U
    OBVIOUS
  <1>5. \A m \in T : m <= n
    BY <1>2, <1>3, <1>4
  <1>6. QED
    BY <1>5

\* An action has its parts; the list of them is as long as its last number.
LEMMA AnAct ==
  ASSUME NEW a \in Acts
  PROVE  /\ Len(a) \in Nat /\ DOMAIN a = 1..Len(a)
         /\ \A i \in DOMAIN a : /\ a[i].frame \in Frames /\ a[i].at \in 0..MaxClock
                                /\ a[i].start \in Nat /\ a[i].says \in Nat
  <1> DEFINE S == [frame : Frames, at : 0..MaxClock, start : Nat, says : Nat]
  <1>1. Len(a) \in Nat /\ DOMAIN a = 1..Len(a) /\ \A i \in 1..Len(a) : a[i] \in S
    BY LenProperties, ElementOfSeq DEF Acts
  <1>2. QED
    BY <1>1

AnAction == [frame : Frames, at : 0..MaxClock, start : Nat, says : Nat]

LEMMA OneMoreAct ==
  ASSUME NEW a \in Acts, NEW e \in AnAction
  PROVE  /\ Append(a, e) \in Acts /\ Len(Append(a, e)) = Len(a) + 1
         /\ DOMAIN Append(a, e) = DOMAIN a \cup {Len(a) + 1} /\ Len(a) + 1 \notin DOMAIN a
         /\ \A i \in DOMAIN a : Append(a, e)[i] = a[i] /\ i < Len(a) + 1
         /\ Append(a, e)[Len(a) + 1] = e
  <1> DEFINE b == Append(a, e)
  <1>1. a \in Seq(AnAction) /\ Acts = Seq(AnAction)
    BY DEF Acts, AnAction
  <1>2. /\ b \in Seq(AnAction) /\ Len(b) = Len(a) + 1
        /\ \A i \in 1..Len(a) : b[i] = a[i]
        /\ b[Len(a) + 1] = e
    BY <1>1, AppendProperties
  <1>3. Len(a) \in Nat /\ DOMAIN a = 1..Len(a) /\ DOMAIN b = 1..Len(a) + 1
    BY <1>1, <1>2, LenProperties
  <1> HIDE DEF b
  <1>4. DOMAIN b = DOMAIN a \cup {Len(a) + 1} /\ Len(a) + 1 \notin DOMAIN a
    BY <1>3
  <1>5. \A i \in DOMAIN a : i < Len(a) + 1
    BY <1>3
  <1>6. b \in Acts /\ Len(b) = Len(a) + 1 /\ b[Len(a) + 1] = e
    BY <1>1, <1>2
  <1>7. \A i \in DOMAIN a : b[i] = a[i]
    BY <1>2, <1>3
  <1>8. QED
    BY <1>4, <1>5, <1>6, <1>7 DEF b

\* A Redactor numbers a value it did not know after the ones it knows, and says
\* of every value the number at which it stands.
LEMMA Numbering ==
  ASSUME NEW s \in Assignments, NEW v \in Values \cup {NoValue}
  PROVE  /\ Known(s, v) \in Assignments /\ Len(s) \in Nat /\ Len(Known(s, v)) \in Nat
         /\ Len(s) <= Len(Known(s, v))
         /\ Placeholder(s, v) \in 0..Len(Known(s, v))
  <1>1. Len(s) \in Nat /\ DOMAIN s = 1..Len(s)
    BY LenProperties DEF Assignments
  <1>2. CASE v = NoValue
    BY <1>1, <1>2 DEF Known, Placeholder
  <1>3. CASE v # NoValue /\ \E i \in DOMAIN s : s[i] = v
    <2>1. Known(s, v) = s
      BY <1>3 DEF Known
    <2>2. Placeholder(s, v) \in 1..Len(s) 
      BY <1>1, <1>3, <2>1 DEF Placeholder
    <2>3. QED
      BY <1>1, <2>1, <2>2
  <1>4. CASE v # NoValue /\ ~\E i \in DOMAIN s : s[i] = v
    <2>1. Known(s, v) = Append(s, v) /\ v \in Values
      BY <1>4 DEF Known
    <2>2. /\ Append(s, v) \in Assignments /\ Len(Append(s, v)) = Len(s) + 1
          /\ Append(s, v)[Len(s) + 1] = v
      BY <2>1, AppendProperties DEF Assignments
    <2>3. Len(s) + 1 \in 1..Len(Known(s, v)) /\ Known(s, v)[Len(s) + 1] = v
      BY <1>1, <2>1, <2>2
    <2>4. Placeholder(s, v) \in 1..Len(Known(s, v))
      BY <1>4, <2>3 DEF Placeholder
    <2>5. QED
      BY <1>1, <2>1, <2>2, <2>4
  <1>5. QED
    BY <1>2, <1>3, <1>4

-----------------------------------------------------------------------------
(* The order of rows, and the order in which the budget takes calls. *)

\* Of some rows there is a latest one, and an earliest one.
LEMMA LatestOfRows ==
  ASSUME rows \subseteq Rows, RowsFit, NEW S \in SUBSET rows, S # {}
  PROVE  Latest(S) \in S /\ \A y \in S \ {Latest(S)} : Later(Latest(S), y)
  <1> DEFINE b == Cardinality(rows)
             Times == {x.at : x \in S}
  <1>1. b \in Nat /\ \A x \in S : x \in rows /\ x.at \in 0..MaxClock /\ x.order \in 0..b
    BY FS_CardinalityType DEF RowsFit, Rows
  <1>2. Times \in SUBSET (0..MaxClock) /\ Times # {}
    BY <1>1
  <1> HIDE DEF b
  <1>3. PICK t \in Times : \A u \in Times : u <= t
    BY <1>2, Constants, Greatest
  <1> DEFINE Orders == {x.order : x \in {y \in S : y.at = t}}
  <1>4. Orders \in SUBSET (0..b) /\ Orders # {}
    BY <1>1
  <1>5. PICK o \in Orders : \A u \in Orders : u <= o
    BY <1>1, <1>4, Greatest
  <1>6. PICK x \in S : x.at = t /\ x.order = o
    BY <1>5
  <1>7. \A y \in S \ {x} : Later(x, y)
    <2>1. SUFFICES ASSUME NEW y \in S, y # x PROVE Later(x, y)
      OBVIOUS
    <2>2. y.at <= x.at /\ y.order # x.order
      BY <1>1, <1>3, <1>6, <2>1 DEF RowsFit
    <2>3. CASE y.at = x.at
      <3>1. y.order <= x.order
        BY <1>5, <1>6, <2>3
      <3>2. QED
        BY <1>1, <2>2, <2>3, <3>1 DEF Later
    <2>4. CASE y.at # x.at
      BY <1>1, <1>6, <2>2, <2>4 DEF Later
    <2>5. QED
      BY <2>3, <2>4
  <1> HIDE DEF Orders, Times
  <1>8. QED
    BY <1>7 DEF Latest

LEMMA EarliestOfRows ==
  ASSUME rows \subseteq Rows, RowsFit, NEW S \in SUBSET rows, S # {}
  PROVE  Earliest(S) \in S
  <1> DEFINE Times == {x.at : x \in S}
  <1>1. \A x \in S : x \in rows /\ x.at \in Nat /\ x.order \in Nat
    BY DEF Rows
  <1>2. PICK t \in Times : \A u \in Times : t <= u
    <2>1. Times \in SUBSET Nat /\ Times # {}
      BY <1>1
    <2>2. QED
      BY <2>1, Least
  <1> DEFINE Orders == {x.order : x \in {y \in S : y.at = t}}
  <1>3. PICK o \in Orders : \A u \in Orders : o <= u
    <2>1. Orders \in SUBSET Nat /\ Orders # {}
      BY <1>1
    <2>2. QED
      BY <2>1, Least
  <1>4. PICK x \in S : x.at = t /\ x.order = o
    BY <1>3
  <1>5. \A y \in S \ {x} : Later(y, x)
    <2>1. SUFFICES ASSUME NEW y \in S, y # x PROVE Later(y, x)
      OBVIOUS
    <2>2. x.at <= y.at /\ y.order # x.order
      BY <1>1, <1>2, <1>4, <2>1 DEF RowsFit
    <2>3. CASE y.at = x.at
      <3>1. x.order <= y.order
        BY <1>3, <1>4, <2>3
      <3>2. QED
        BY <1>1, <2>2, <2>3, <3>1 DEF Later
    <2>4. CASE y.at # x.at
      BY <1>1, <1>4, <2>2, <2>4 DEF Later
    <2>5. QED
      BY <2>3, <2>4
  <1> HIDE DEF Orders, Times
  <1>6. QED
    BY <1>5 DEF Earliest

\* Calls with names of their own.
Distinct(S) == S \subseteq Calls /\ IsFiniteSet(S) /\ \A c, d \in S : c.name = d.name => c = d
Ahead(S, c) == {d \in S : Goes(d, c)}

LEMMA GoesIsAnOrder ==
  /\ \A c \in Calls : Rank(c) \in 0..3 /\ ~Goes(c, c)
  /\ \A c, d \in Calls : /\ Goes(c, d) => ~Goes(d, c) /\ Rank(c) <= Rank(d)
                         /\ c.name # d.name => Goes(c, d) \/ Goes(d, c)
  /\ \A c, d, e \in Calls : Goes(c, d) /\ Goes(d, e) => Goes(c, e)
  <1>1. \A c \in Calls : c.name \in Nat /\ c.at \in Nat
    BY Constants DEF Calls
  <1>2. \A c \in Calls : Rank(c) \in 0..3
    <2>1. SUFFICES ASSUME NEW c \in Calls PROVE Rank(c) \in 0..3
      OBVIOUS
    <2>2. PICK f \in Frames : c.kind \in Kinds[f]
      BY DEF Calls
    <2>3. c.kind.ours \in BOOLEAN /\ c.kind.writes \in BOOLEAN
      BY CaptureAssumption, <2>2
    <2>4. QED
      BY <2>3 DEF Rank
  <1> HIDE DEF Rank, Calls
  <1>3. QED
    BY <1>1, <1>2 DEF Goes, Before

LEMMA AheadCounts ==
  ASSUME NEW S, Distinct(S), NEW c
  PROVE  /\ Ahead(S, c) \subseteq S /\ IsFiniteSet(Ahead(S, c))
         /\ Cardinality(Ahead(S, c)) \in 0..Cardinality(S) /\ Cardinality(S) \in Nat
  <1>1. Ahead(S, c) \in SUBSET S /\ IsFiniteSet(S)
    BY DEF Ahead, Distinct
  <1>2. /\ IsFiniteSet(Ahead(S, c)) /\ Cardinality(Ahead(S, c)) <= Cardinality(S)
        /\ Cardinality(S) \in Nat
    BY <1>1, FS_Subset, FS_CardinalityType
  <1>3. Cardinality(Ahead(S, c)) \in Nat
    BY <1>2, FS_CardinalityType
  <1>4. QED
    BY <1>1, <1>2, <1>3

\* The further on, the more stand ahead.
LEMMA AheadGrows ==
  ASSUME NEW S, Distinct(S), NEW c \in S, NEW d \in S, Goes(c, d)
  PROVE  Cardinality(Ahead(S, c)) < Cardinality(Ahead(S, d))
  <1>1. Ahead(S, c) \cup {c} \subseteq Ahead(S, d) /\ c \notin Ahead(S, c)
    BY GoesIsAnOrder DEF Ahead, Distinct
  <1>2. Cardinality(Ahead(S, c) \cup {c}) = Cardinality(Ahead(S, c)) + 1
    BY <1>1, AheadCounts, FS_AddElement
  <1>3. Cardinality(Ahead(S, c) \cup {c}) <= Cardinality(Ahead(S, d))
    BY <1>1, AheadCounts, FS_Subset
  <1>4. QED
    BY <1>2, <1>3, AheadCounts

LEMMA LastOfCalls ==
  ASSUME NEW S, Distinct(S), S # {}
  PROVE  \E m \in S : \A x \in S \ {m} : Goes(x, m)
  <1> DEFINE Counts == {Cardinality(Ahead(S, c)) : c \in S}
  <1>1. Cardinality(S) \in Nat /\ Counts \in SUBSET (0..Cardinality(S)) /\ Counts # {}
    BY AheadCounts
  <1>2. PICK n \in Counts : \A u \in Counts : u <= n
    BY <1>1, Greatest
  <1>3. PICK m \in S : n = Cardinality(Ahead(S, m))
    BY <1>2
  <1>4. ASSUME NEW x \in S, x # m, ~Goes(x, m) PROVE FALSE
    <2>1. Goes(m, x)
      BY <1>4, GoesIsAnOrder DEF Distinct
    <2>2. Cardinality(Ahead(S, m)) < Cardinality(Ahead(S, x))
      BY <2>1, AheadGrows
    <2>3. Cardinality(Ahead(S, x)) <= n
      BY <1>2
    <2>4. QED
      BY <1>3, <2>2, <2>3, AheadCounts
  <1>5. QED
    BY <1>4

\* Among the first k there are k.
First(S, k) == {c \in S : Cardinality(Ahead(S, c)) < k}
Counted(S)  == \A k \in 0..Cardinality(S) : Cardinality(First(S, k)) = k

LEMMA DistinctParts ==
  ASSUME NEW S, Distinct(S), NEW T \in SUBSET S
  PROVE  Distinct(T)
  BY FS_Subset DEF Distinct

LEMMA CountedWithOneMore ==
  ASSUME NEW S, Distinct(S), NEW m \in S, \A x \in S \ {m} : Goes(x, m), Counted(S \ {m})
  PROVE  Counted(S)
  <1> DEFINE U == S \ {m}
  <1>1. /\ Distinct(U) /\ IsFiniteSet(S) /\ IsFiniteSet(U)
        /\ Cardinality(S) = Cardinality(U) + 1 /\ Cardinality(U) \in Nat
    <2>1. IsFiniteSet(S) /\ Distinct(U)
      BY DistinctParts DEF Distinct
    <2>2. IsFiniteSet(U) /\ Cardinality(U) = Cardinality(S) - 1
      BY <2>1, FS_RemoveElement
    <2>3. Cardinality(S) \in Nat /\ Cardinality(U) \in Nat
      BY <2>1, <2>2, FS_CardinalityType
    <2>4. QED
      BY <2>1, <2>2, <2>3
  <1>2. \A c \in U : Ahead(S, c) = Ahead(U, c)
    BY GoesIsAnOrder DEF Ahead, Distinct
  <1>3. Ahead(S, m) = U
    BY GoesIsAnOrder DEF Ahead, Distinct
  <1>4. \A c \in U : Cardinality(Ahead(U, c)) \in 0..Cardinality(U)
    BY <1>1, AheadCounts
  <1> HIDE DEF U
  <1>5. S = U \cup {m} /\ m \notin U
    BY DEF U
  <1>6. ASSUME NEW k \in 0..Cardinality(S) PROVE Cardinality(First(S, k)) = k
    <2>1. CASE k = Cardinality(S)
      <3>1. \A c \in S : Cardinality(Ahead(S, c)) < k
        <4>1. Cardinality(Ahead(S, m)) < k
          BY <1>1, <1>3, <2>1
        <4>2. \A c \in U : Cardinality(Ahead(S, c)) \in 0..Cardinality(U)
          BY <1>2, <1>4
        <4>3. \A c \in U : Cardinality(Ahead(S, c)) < k
          BY <1>1, <2>1, <4>2
        <4>4. QED
          BY <1>5, <4>1, <4>3
      <3>2. First(S, k) = S
        BY <3>1 DEF First
      <3>3. QED
        BY <2>1, <3>2
    <2>2. CASE k # Cardinality(S)
      <3>1. k \in 0..Cardinality(U)
        BY <1>1, <2>2
      <3>2. ~(Cardinality(Ahead(S, m)) < k)
        BY <1>1, <1>3, <3>1
      <3>3. First(S, k) = First(U, k)
        BY <1>2, <1>5, <3>2 DEF First
      <3>4. QED
        BY <3>1, <3>3 DEF Counted, U
    <2>3. QED
      BY <2>1, <2>2
  <1>7. QED
    BY <1>6 DEF Counted

LEMMA FirstOnes ==
  ASSUME NEW S, Distinct(S)
  PROVE  Counted(S)
  <1> DEFINE Bad == {T \in SUBSET S : ~Counted(T)}
             R == StrictSubsetOrdering(S)
  <1>1. SUFFICES ASSUME Bad # {} PROVE FALSE
    OBVIOUS
  <1>2. FiniteSubsetsOf(S) = SUBSET S /\ IsWellFoundedOn(R, FiniteSubsetsOf(S))
    BY FS_FiniteSubsetsOfFinite, FS_StrictSubsetOrderingWellFounded DEF Distinct
  <1>3. Bad \subseteq FiniteSubsetsOf(S)
    BY <1>2
  <1> HIDE DEF Bad, R
  <1>4. PICK T \in Bad : \A U \in Bad : ~(<<U, T>> \in R)
    BY <1>1, <1>2, <1>3, WFMin
  <1> USE DEF Bad, R
  <1>5. Distinct(T) /\ T \subseteq S /\ ~Counted(T)
    BY DistinctParts
  <1>6. CASE T = {}
    <2>1. Cardinality(T) = 0 /\ \A k : First(T, k) = {}
      BY <1>6, FS_EmptySet DEF First
    <2>2. Counted(T)
      <3>1. SUFFICES ASSUME NEW k \in 0..Cardinality(T) PROVE Cardinality(First(T, k)) = k
        BY DEF Counted
      <3>2. k = 0 /\ First(T, k) = T
        BY <1>6, <2>1
      <3>3. QED
        BY <2>1, <3>2
    <2>3. QED
      BY <1>5, <2>2
  <1>7. CASE T # {}
    <2>1. PICK m \in T : \A x \in T \ {m} : Goes(x, m)
      BY <1>5, <1>7, LastOfCalls
    <2>2. T \ {m} \in SUBSET S /\ <<T \ {m}, T>> \in R
      BY <1>5 DEF StrictSubsetOrdering
    <2>3. Counted(T \ {m})
      BY <1>4, <2>2
    <2>4. QED
      BY <1>5, <2>1, <2>3, CountedWithOneMore
  <1>8. QED
    BY <1>6, <1>7

\* budgetNetwork leaves a call out only for as many as there may be, none of which
\* says less of the application.
LEMMA BudgetIsFull ==
  ASSUME NEW S, Distinct(S), NEW c \in S \ Budget(S)
  PROVE  /\ Cardinality(Budget(S)) = MaxCallsPerEvent
         /\ \A x \in Budget(S) : Rank(x) <= Rank(c)
  <1>1. Budget(S) = First(S, MaxCallsPerEvent)
    BY DEF Budget, First, Ahead
  <1>2. Cardinality(Ahead(S, c)) >= MaxCallsPerEvent /\ MaxCallsPerEvent \in Nat
    BY <1>1, AheadCounts, CaptureAssumption DEF First
  <1>3. MaxCallsPerEvent \in 0..Cardinality(S)
    BY <1>2, AheadCounts
  <1>4. Cardinality(Budget(S)) = MaxCallsPerEvent
    BY <1>1, <1>3, FirstOnes DEF Counted
  <1>5. ASSUME NEW x \in Budget(S) PROVE Rank(x) <= Rank(c)
    <2>1. x \in S /\ Cardinality(Ahead(S, x)) < MaxCallsPerEvent
      BY <1>1 DEF First
    <2>2. Cardinality(Ahead(S, x)) < Cardinality(Ahead(S, c))
      BY <1>2, <2>1, AheadCounts
    <2>3. ~Goes(c, x) /\ x # c
      BY <2>1, <2>2, AheadGrows, AheadCounts
    <2>4. Goes(x, c)
      BY <2>1, <2>3, GoesIsAnOrder DEF Distinct
    <2>5. QED
      BY <2>1, <2>4, GoesIsAnOrder DEF Distinct
  <1>6. QED
    BY <1>4, <1>5

-----------------------------------------------------------------------------
(* The documents, and what keeps the parts of the invariant. *)
USE DEF docVars, actVars, obsVars, endVars, Open, Spend

\* What a step spends of the effort stays within it.
LEMMA SpentWithin ==
  ASSUME effort \in 0..MaxEffort, effort < MaxEffort, effort' = effort + 1
  PROVE  effort' \in 0..MaxEffort
  BY CaptureAssumption

OpenCalls == [name : Nat, at : 0..Epoch, kind : AllKinds, by : Nat, frame : Frames]

LEMMA ADoc ==
  ASSUME NEW d \in Docs
  PROVE  /\ d.start \in Nat /\ d.calls \in Nat /\ d.lines \in Nat
         /\ d.assigned \in Assignments /\ d.open \in SUBSET OpenCalls
  BY DEF Docs, Assignments, OpenCalls, AllKinds

LEMMA Documents ==
  /\ Fresh \in Docs
  /\ \A d \in Docs : \A s \in Assignments, n \in Nat, O \in SUBSET OpenCalls :
        /\ [d EXCEPT !.start = n, !.assigned = s] \in Docs
        /\ [d EXCEPT !.assigned = s] \in Docs
        /\ [d EXCEPT !.calls = n, !.open = O] \in Docs
        /\ [d EXCEPT !.open = O, !.assigned = s] \in Docs
        /\ [d EXCEPT !.lines = n, !.assigned = s] \in Docs
  <1>1. <<>> \in Seq(Values)
    OBVIOUS
  <1>2. Fresh \in Docs
    BY <1>1 DEF Fresh, Docs
  <1> DEFINE A == Seq(Values)
  <1> HIDE DEF A
  <1>3. Docs = [start : Nat, calls : Nat, lines : Nat, assigned : A, open : SUBSET OpenCalls] /\ Assignments = A
    BY DEF Docs, Assignments, OpenCalls, AllKinds, A
  <1>4. QED
    BY <1>2, <1>3, ZenonT(30)

\* The actions, what is settling and what is sent stay, or the clock goes on.
LEMMA OrderStays ==
  ASSUME IInv, UNCHANGED acts, clock' \in Nat, clock <= clock'
  PROVE  InOrder'
  BY AnAct DEF IInv, TypeOK, InOrder

LEMMA RowsStay ==
  ASSUME IInv, UNCHANGED <<acts, rows>>, pending' \subseteq pending
  PROVE  RowsFit' /\ InTurn'
  BY DEF IInv, RowsFit, InTurn

LEMMA NotesStay ==
  ASSUME IInv, UNCHANGED <<acts, notes>>, clock' \in Nat, clock <= clock'
  PROVE  Noted'
  <1>1. \A i \in DOMAIN notes : notes[i].at \in Nat
    <2>1. notes \in Seq([at : 0..MaxClock, boundary : BOOLEAN, by : Nat])
      BY DEF IInv, TypeOK
    <2>2. \A i \in DOMAIN notes : notes[i] \in [at : 0..MaxClock, boundary : BOOLEAN, by : Nat]
      BY <2>1, LenProperties, ElementOfSeq
    <2>3. QED
      BY <2>2, Constants
  <1>2. QED
    BY <1>1 DEF IInv, TypeOK, Noted

LEMMA StoreStays ==
  ASSUME IInv, UNCHANGED <<obs, answered>>
  PROVE  KeptByKey'
  BY DEF IInv, KeptByKey, Superseded, Key

LEMMA CausesStay ==
  ASSUME IInv, UNCHANGED <<acts, obs>>, \A f \in Frames : doc'[f].open \subseteq doc[f].open
  PROVE  Caused'
  BY DEF IInv, Caused, Begun

\* As long as the session is not assembled nothing is said of the recording.
LEMMA NotMadeYet ==
  ASSUME stage' # "assembled"
  PROVE  Made'
  BY DEF Made, Assembled

LEMMA OthersStay ==
  ASSUME IInv, UNCHANGED <<acts, rows, obs, answered, notes, clock>>, pending' \subseteq pending,
         stage' # "assembled"
  PROVE  InOrder' /\ RowsFit' /\ InTurn' /\ Noted' /\ KeptByKey' /\ Made'
  <1>1. clock' \in Nat /\ clock <= clock'
    BY Constants DEF IInv, TypeOK
  <1>2. InOrder' /\ Noted'
    BY <1>1, OrderStays, NotesStay
  <1>3. RowsFit' /\ InTurn'
    BY RowsStay
  <1>4. KeptByKey' /\ Made'
    BY StoreStays, NotMadeYet
  <1>5. QED
    BY <1>2, <1>3, <1>4

-----------------------------------------------------------------------------
(* The steps. *)

LEMMA InitIInv ==
  ASSUME Init
  PROVE  IInv
  <1>1. <<>> \in Acts /\ <<>> \in NoteLists /\ DOMAIN <<>> = {}
    BY DEF Acts, NoteLists
  <1>2. TypeOK
    <2>1. doc \in [Frames -> Docs]
      BY Documents DEF Init
    <2>2. acts \in Acts /\ pending \subseteq DOMAIN acts /\ notes \in NoteLists
      BY <1>1 DEF Init
    <2>3. /\ recording.calls \subseteq Nat \X (Calls \cup Entries)
          /\ recording.notes \subseteq Nat \X Nat /\ recording.parameters \subseteq Nat
      BY DEF Init, Nothing
    <2>4. QED
      BY <2>1, <2>2, <2>3, CaptureAssumption DEF Init, TypeOK, NoteLists
  <1>3. IsFiniteSet({})
    BY FS_EmptySet
  <1>4. InOrder /\ RowsFit /\ InTurn /\ Noted /\ Remembered /\ KeptByKey
    BY <1>1, <1>3 DEF Init, InOrder, RowsFit, InTurn, Noted, Remembered, KeptByKey
  <1>5. Caused /\ Made
    BY DEF Init, Caused, Fresh, Made, Assembled
  <1>6. QED
    BY <1>2, <1>4, <1>5 DEF IInv

LEMMA LoadKeepsIInv ==
  ASSUME IInv, NEW f \in Frames, Load(f)
  PROVE  IInv'
  <1>1. /\ doc' = [doc EXCEPT ![f] = Fresh] /\ pending' = {n \in pending : acts[n].frame # f}
        /\ loads' \in 0..MaxLoads /\ effort' \in 0..MaxEffort /\ stage' # "assembled"
        /\ UNCHANGED <<acts, rows, params, obs, answered, notes, clock, stage, recording, starts>>
    BY CaptureAssumption DEF Load, IInv, TypeOK
  <1>2. doc \in [Frames -> Docs] /\ doc' \in [Frames -> Docs]
    BY <1>1, Documents DEF IInv, TypeOK
  <1>3. TypeOK'
    BY <1>1, <1>2, Constants DEF IInv, TypeOK
  <1>4. InOrder' /\ RowsFit' /\ InTurn' /\ Noted' /\ KeptByKey' /\ Made'
    BY <1>1, OthersStay
  <1>5. Caused'
    <2>1. \A g \in Frames : doc'[g].open \subseteq doc[g].open
      BY <1>1, <1>2 DEF Fresh
    <2>2. QED
      BY <1>1, <2>1, CausesStay
  <1>6. Remembered'
    <2>1. \A n \in pending' : n \in pending /\ doc'[acts[n].frame] = doc[acts[n].frame]
      BY <1>1, <1>2
    <2>2. QED
      BY <1>1, <2>1 DEF IInv, Remembered
  <1>7. QED
    BY <1>3, <1>4, <1>5, <1>6 DEF IInv

LEMMA StartKeepsIInv ==
  ASSUME IInv, NEW f \in Frames, Start(f)
  PROVE  IInv'
  <1>1. /\ doc' = [doc EXCEPT ![f].start = @ + 1, ![f].assigned = <<>>]
        /\ starts' \in 0..MaxStarts /\ stage' # "assembled"
        /\ UNCHANGED <<acts, pending, rows, params, obs, answered, notes, clock, stage, recording, loads, effort>>
    BY CaptureAssumption, SMTT(30) DEF Start, IInv, TypeOK
  <1>2. doc \in [Frames -> Docs] /\ doc[f] \in Docs /\ doc[f].start \in Nat
    BY ADoc DEF IInv, TypeOK
  <1>3. doc' \in [Frames -> Docs]
    <2>1. <<>> \in Assignments
      BY DEF Assignments
    <2>2. \A n \in Nat : [doc[f] EXCEPT !.start = n, !.assigned = <<>>] \in Docs
      BY <1>2, <2>1, Documents
    <2>3. [doc[f] EXCEPT !.start = doc[f].start + 1, !.assigned = <<>>] \in Docs
      <3>1. doc[f].start + 1 \in Nat
        BY <1>2
      <3>2. QED
        BY <2>2, <3>1, Zenon
    <2>4. doc' = [doc EXCEPT ![f] = [doc[f] EXCEPT !.start = doc[f].start + 1, !.assigned = <<>>]]
      BY <1>1, <1>2
    <2>5. QED
      BY <1>2, <2>3, <2>4
  <1>4. TypeOK'
    BY <1>1, <1>3, Constants DEF IInv, TypeOK
  <1>5. InOrder' /\ RowsFit' /\ InTurn' /\ Noted' /\ KeptByKey' /\ Made'
    BY <1>1, OthersStay
  <1>6. /\ doc'[f].start = doc[f].start + 1 /\ doc'[f].open = doc[f].open
        /\ \A g \in Frames \ {f} : doc'[g] = doc[g]
    BY <1>1, <1>2 DEF Docs
  <1>7. Caused'
    BY <1>1, <1>6, CausesStay
  <1>8. Remembered'
    <2>1. ASSUME NEW n \in pending
          PROVE  /\ acts[n].start <= doc'[acts[n].frame].start
                 /\ acts[n].start = doc'[acts[n].frame].start => acts[n].says <= Len(doc'[acts[n].frame].assigned)
      <3>1. /\ acts[n].start <= doc[acts[n].frame].start /\ acts[n].start \in Nat /\ acts[n].frame \in Frames
            /\ acts[n].start = doc[acts[n].frame].start => acts[n].says <= Len(doc[acts[n].frame].assigned)
        BY AnAct DEF IInv, TypeOK, Remembered
      <3>2. CASE acts[n].frame = f
        BY <1>2, <1>6, <3>1, <3>2
      <3>3. CASE acts[n].frame # f
        BY <1>6, <3>1, <3>3
      <3>4. QED
        BY <3>2, <3>3
    <2>2. QED
      BY <1>1, <2>1 DEF IInv, Remembered
  <1>9. QED
    BY <1>4, <1>5, <1>7, <1>8 DEF IInv

LEMMA BeginKeepsIInv ==
  ASSUME IInv, NEW f \in Frames, NEW v \in Typed[f], Begin(f, v)
  PROVE  IInv'
  <1> DEFINE k == Len(acts) + 1
  <1>1. /\ stage = "live" /\ \A n \in pending : acts[n].frame # f
        /\ acts' = Append(acts, [frame |-> f, at |-> clock, start |-> doc[f].start,
                                 says |-> Placeholder(doc[f].assigned, v)])
        /\ pending' = pending \cup {k}
        /\ doc' = [doc EXCEPT ![f].assigned = Known(@, v)]
        /\ UNCHANGED <<rows, params, obs, answered, notes, clock, stage, recording, loads, starts>>
    BY DEF Begin
  <1>2. /\ doc \in [Frames -> Docs] /\ doc[f] \in Docs /\ doc[f].start \in Nat /\ doc[f].assigned \in Assignments
        /\ clock \in 0..MaxClock /\ acts \in Acts /\ pending \subseteq DOMAIN acts
    BY ADoc DEF IInv, TypeOK
  <1> DEFINE s == Known(doc[f].assigned, v)
             p == Placeholder(doc[f].assigned, v)
  <1>3. s \in Assignments /\ p \in Nat /\ p <= Len(s) /\ Len(s) \in Nat
    <2>1. v \in Values \cup {NoValue}
      BY CaptureAssumption
    <2>2. s \in Assignments /\ Len(s) \in Nat /\ p \in 0..Len(s)
      BY <1>2, <2>1, Numbering
    <2> HIDE DEF s, p
    <2>3. QED
      BY <2>2
  <1> HIDE DEF s, p
  <1>4. doc' = [doc EXCEPT ![f] = [doc[f] EXCEPT !.assigned = s]]
    BY <1>1, <1>2 DEF s
  <1>5. doc' \in [Frames -> Docs]
    <2>1. [doc[f] EXCEPT !.assigned = s] \in Docs
      BY <1>2, <1>3, Documents
    <2>2. QED
      BY <1>2, <1>4, <2>1
  <1>6. /\ doc'[f].assigned = s /\ doc'[f].start = doc[f].start /\ doc'[f].open = doc[f].open
        /\ \A g \in Frames \ {f} : doc'[g] = doc[g]
    BY <1>2, <1>4 DEF Docs
  <1>7. /\ acts' \in Acts /\ DOMAIN acts' = DOMAIN acts \cup {k} /\ k \notin DOMAIN acts /\ Len(acts') = k
        /\ \A i \in DOMAIN acts : acts'[i] = acts[i] /\ i < k
        /\ acts'[k] = [frame |-> f, at |-> clock, start |-> doc[f].start, says |-> p]
    <2> DEFINE e == [frame |-> f, at |-> clock, start |-> doc[f].start, says |-> p]
    <2>1. acts' = Append(acts, e)
      BY <1>1 DEF p
    <2>2. e \in AnAction
      BY <1>2, <1>3 DEF AnAction
    <2> HIDE DEF e, k
    <2>3. /\ acts' \in Acts /\ Len(acts') = Len(acts) + 1 /\ DOMAIN acts' = DOMAIN acts \cup {Len(acts) + 1}
          /\ Len(acts) + 1 \notin DOMAIN acts
          /\ \A i \in DOMAIN acts : acts'[i] = acts[i] /\ i < Len(acts) + 1
          /\ acts'[Len(acts) + 1] = e
      <3>1. acts \in Acts
        BY <1>2
      <3>2. /\ Append(acts, e) \in Acts /\ Len(Append(acts, e)) = Len(acts) + 1
            /\ DOMAIN Append(acts, e) = DOMAIN acts \cup {Len(acts) + 1} /\ Len(acts) + 1 \notin DOMAIN acts
            /\ \A i \in DOMAIN acts : Append(acts, e)[i] = acts[i] /\ i < Len(acts) + 1
            /\ Append(acts, e)[Len(acts) + 1] = e
        BY <2>2, <3>1, OneMoreAct
      <3>3. QED
        BY <2>1, <3>2
    <2>4. QED
      BY <2>3 DEF e, k
  <1>8. Len(acts) \in Nat /\ k \in Nat /\ DOMAIN acts \subseteq Nat
    BY <1>2, AnAct
  <1> HIDE DEF k
  <1>9. TypeOK'
    <2>1. effort' \in 0..MaxEffort
      <3>1. effort < MaxEffort /\ effort' = effort + 1
        BY DEF Begin
      <3>2. effort \in 0..MaxEffort
        BY DEF IInv, TypeOK
      <3>3. QED
        BY <3>1, <3>2, SpentWithin
    <2>2. pending' \subseteq DOMAIN acts'
      BY <1>1, <1>2, <1>7
    <2>3. QED
      BY <1>1, <1>5, <1>7, <2>1, <2>2, Constants DEF IInv, TypeOK
  <1>10. InOrder'
    <2>1. \A i \in DOMAIN acts' : acts'[i].at <= clock
      BY <1>2, <1>7, Constants DEF IInv, InOrder
    <2>2. \A i, j \in DOMAIN acts' : i <= j => acts'[i].at <= acts'[j].at
      <3>1. SUFFICES ASSUME NEW i \in DOMAIN acts', NEW j \in DOMAIN acts', i <= j
                     PROVE  acts'[i].at <= acts'[j].at
        OBVIOUS
      <3>2. CASE j = k
        BY <1>7, <2>1, <3>2
      <3>3. CASE j # k
        <4>1. i \in DOMAIN acts /\ j \in DOMAIN acts
          BY <1>7, <1>8, <3>1, <3>3
        <4>2. QED
          BY <1>7, <3>1, <4>1 DEF IInv, InOrder
      <3>4. QED
        BY <3>2, <3>3
    <2>3. QED
      BY <1>1, <2>1, <2>2 DEF InOrder
  <1>11. \A r \in rows : r.act \in DOMAIN acts \ pending /\ acts'[r.act] = acts[r.act]
    BY <1>7 DEF IInv, RowsFit
  <1>12. RowsFit'
    BY <1>1, <1>7, <1>11 DEF IInv, RowsFit
  <1>13. InTurn'
    <2>1. \A r, s2 \in rows : acts'[r.act].frame = acts'[s2.act].frame /\ r.act < s2.act => r.order < s2.order
      BY <1>11 DEF IInv, InTurn
    <2>2. ASSUME NEW n \in pending', NEW m \in DOMAIN acts', acts'[m].frame = acts'[n].frame PROVE m <= n
      <3>1. CASE n = k
        BY <1>7, <1>8, <3>1
      <3>2. CASE n # k
        <4>1. n \in pending /\ n \in DOMAIN acts /\ acts'[n].frame # f
          BY <1>1, <1>2, <1>7, <3>2
        <4>2. m \in DOMAIN acts
          BY <1>7, <2>2, <4>1
        <4>3. QED
          BY <1>7, <2>2, <4>1, <4>2 DEF IInv, InTurn
      <3>3. QED
        BY <3>1, <3>2
    <2>3. QED
      BY <1>1, <2>1, <2>2 DEF InTurn
  <1>14. Caused'
    <2>1. ASSUME NEW o, Begun(o) PROVE Begun(o)'
      BY <1>7, <2>1 DEF Begun
    <2>2. \A g \in Frames : doc'[g].open = doc[g].open
      BY <1>6
    <2>3. QED
      BY <1>1, <1>7, <2>2 DEF IInv, Caused, Begun
  <1>15. Noted'
    <2>1. ASSUME NEW i \in DOMAIN notes
          PROVE  /\ notes[i].by \in 0..Len(acts') /\ notes[i].at <= clock
                 /\ notes[i].by # 0 => acts'[notes[i].by].at <= notes[i].at
                 /\ \A m \in DOMAIN acts' : m > notes[i].by => notes[i].at <= acts'[m].at
      <3>1. /\ notes[i].by \in 0..Len(acts) /\ notes[i].at <= clock
            /\ notes[i].by # 0 => acts[notes[i].by].at <= notes[i].at
            /\ \A m \in DOMAIN acts : m > notes[i].by => notes[i].at <= acts[m].at
        BY DEF IInv, Noted
      <3>2. Len(acts') = Len(acts) + 1
        BY <1>7 DEF k
      <3>3. notes[i].by # 0 => notes[i].by \in DOMAIN acts
        BY <1>2, <3>1, AnAct
      <3>4. QED
        BY <1>7, <1>8, <3>1, <3>2, <3>3
    <2>2. QED
      BY <1>1, <2>1 DEF Noted
  <1>16. KeptByKey' /\ Made'
    BY <1>1, StoreStays, NotMadeYet
  <1>17. Remembered'
    <2>1. \A r \in rows : acts'[r.act].says # 0 /\ r.start = acts'[r.act].start => acts'[r.act].says \in params
      BY <1>11 DEF IInv, Remembered
    <2>2. ASSUME NEW n \in pending'
          PROVE  /\ acts'[n].start <= doc'[acts'[n].frame].start
                 /\ acts'[n].start = doc'[acts'[n].frame].start
                        => acts'[n].says <= Len(doc'[acts'[n].frame].assigned)
      <3>1. CASE n = k
        BY <1>2, <1>3, <1>6, <1>7, <3>1
      <3>2. CASE n # k
        <4>1. n \in pending /\ n \in DOMAIN acts /\ acts'[n] = acts[n] /\ acts[n].frame \in Frames \ {f}
          BY <1>1, <1>2, <1>7, <3>2, AnAct
        <4>2. QED
          BY <1>6, <4>1 DEF IInv, Remembered
      <3>3. QED
        BY <3>1, <3>2
    <2>3. QED
      BY <1>1, <2>1, <2>2 DEF Remembered
  <1>18. QED
    BY <1>9, <1>10, <1>12, <1>13, <1>14, <1>15, <1>16, <1>17 DEF IInv

LEMMA SendKeepsIInv ==
  ASSUME IInv, NEW n \in pending, Send(n)
  PROVE  IInv'
  <1> DEFINE f == acts[n].frame
             d == doc[acts[n].frame]
             new == [act |-> n, at |-> acts[n].at, order |-> Cardinality(rows), id |-> FrameId[acts[n].frame],
                     start |-> doc[acts[n].frame].start]
  <1>1. /\ pending' = pending \ {n} /\ rows' = rows \cup {new}
        /\ params' = params \cup Parameters(d.assigned) /\ stage' # "assembled"
        /\ UNCHANGED <<doc, acts, obs, answered, notes, clock, stage, recording, loads, starts, effort>>
    BY DEF Send
  <1>2. /\ n \in DOMAIN acts /\ f \in Frames /\ acts[n].at \in 0..MaxClock /\ acts[n].start \in Nat
        /\ acts[n].says \in Nat /\ DOMAIN acts \subseteq Nat /\ d \in Docs
    BY AnAct DEF IInv, TypeOK
  <1>3. d.start \in Nat /\ d.assigned \in Assignments /\ Len(d.assigned) \in Nat
    BY <1>2, ADoc, LenProperties DEF Assignments
  <1>4. IsFiniteSet(rows) /\ Cardinality(rows) \in Nat
    BY FS_CardinalityType DEF IInv, RowsFit
  <1>5. new \notin rows /\ \A r \in rows : r.order < Cardinality(rows) /\ r.order \in Nat /\ r.act # n
    BY <1>4 DEF IInv, TypeOK, Rows, RowsFit
  <1>6. IsFiniteSet(rows') /\ Cardinality(rows') = Cardinality(rows) + 1
    <2> HIDE DEF new
    <2>1. IsFiniteSet(rows \cup {new}) /\ Cardinality(rows \cup {new}) = Cardinality(rows) + 1
      BY <1>4, <1>5, FS_AddElement
    <2>2. QED
      BY <1>1, <2>1
  <1>7. /\ new \in Rows /\ new.act = n /\ new.at = acts[n].at /\ new.order = Cardinality(rows)
        /\ new.id = FrameId[f] /\ new.start = d.start
    BY <1>2, <1>3, <1>4, CaptureAssumption DEF Rows
  <1> HIDE DEF f, d, new
  <1>8. TypeOK'
    <2>1. params' \subseteq Nat
      <3>1. Parameters(d.assigned) \subseteq Nat /\ params \subseteq Nat
        BY DEF IInv, TypeOK, Parameters
      <3>2. QED
        BY <1>1, <3>1
    <2>2. QED
      BY <1>1, <1>7, <2>1, Constants DEF IInv, TypeOK
  <1>9. InOrder' /\ Noted'
    <2>1. clock' \in Nat /\ clock <= clock'
      BY <1>1, Constants DEF IInv, TypeOK
    <2>2. QED
      BY <1>1, <2>1, OrderStays, NotesStay
  <1>10. RowsFit'
    <2>1. ASSUME NEW r \in rows'
          PROVE  /\ r.act \in DOMAIN acts' \ pending'
                 /\ r.at = acts'[r.act].at /\ r.id = FrameId[acts'[r.act].frame]
                 /\ r.order < Cardinality(rows')
      <3>1. CASE r = new
        BY <1>1, <1>2, <1>4, <1>6, <1>7, <3>1 DEF f
      <3>2. CASE r \in rows
        BY <1>1, <1>4, <1>5, <1>6, <3>2 DEF IInv, RowsFit
      <3>3. QED
        BY <1>1, <3>1, <3>2
    <2>2. ASSUME NEW r \in rows', NEW s \in rows', r.act = s.act \/ r.order = s.order PROVE r = s
      BY <1>1, <1>4, <1>5, <1>7, <2>2 DEF IInv, RowsFit
    <2>3. QED
      BY <1>6, <2>1, <2>2 DEF RowsFit
  <1>11. InTurn'
    <2>1. ASSUME NEW r \in rows', NEW s \in rows', acts[r.act].frame = acts[s.act].frame, r.act < s.act
          PROVE  r.order < s.order
      <3>1. CASE r = new
        <4>1. s.act \in DOMAIN acts /\ s.act <= n
          BY <1>1, <1>2, <1>7, <2>1, <3>1 DEF IInv, RowsFit, InTurn
        <4>2. QED
          BY <1>2, <1>7, <2>1, <3>1, <4>1
      <3>2. CASE r # new /\ s = new
        BY <1>1, <1>5, <1>7, <3>2
      <3>3. CASE r # new /\ s # new
        BY <1>1, <2>1, <3>3 DEF IInv, InTurn
      <3>4. QED
        BY <3>1, <3>2, <3>3
    <2>2. QED
      BY <1>1, <2>1 DEF IInv, InTurn
  <1>12. Caused' /\ KeptByKey' /\ Made'
    BY <1>1, CausesStay, StoreStays, NotMadeYet
  <1>13. Remembered'
    <2>1. ASSUME NEW r \in rows', acts[r.act].says # 0, r.start = acts[r.act].start
          PROVE  acts[r.act].says \in params'
      <3>1. CASE r = new
        <4>1. acts[n].says <= Len(d.assigned)
          BY <1>7, <2>1, <3>1 DEF IInv, Remembered, d
        <4>2. acts[n].says \in 1..Len(d.assigned)
          BY <1>2, <1>3, <1>7, <2>1, <3>1, <4>1
        <4>3. QED
          BY <1>1, <1>7, <3>1, <4>2 DEF Parameters
      <3>2. CASE r \in rows
        BY <1>1, <2>1, <3>2 DEF IInv, Remembered
      <3>3. QED
        BY <1>1, <3>1, <3>2
    <2>2. QED
      BY <1>1, <2>1 DEF IInv, Remembered
  <1>14. QED
    BY <1>8, <1>9, <1>10, <1>11, <1>12, <1>13 DEF IInv

\* What the documents do on the wire leaves actions, rows and notes alone.
LEMMA WireStays ==
  ASSUME IInv, UNCHANGED <<acts, pending, rows, params, notes, clock>>, stage' # "assembled",
         doc' \in [Frames -> Docs],
         \A f \in Frames : /\ doc'[f].start = doc[f].start
                           /\ Len(doc[f].assigned) <= Len(doc'[f].assigned)
                           /\ Len(doc[f].assigned) \in Nat /\ Len(doc'[f].assigned) \in Nat
  PROVE  InOrder' /\ RowsFit' /\ InTurn' /\ Noted' /\ Remembered' /\ Made'
  <1>1. clock' \in Nat /\ clock <= clock'
    BY Constants DEF IInv, TypeOK
  <1>2. InOrder' /\ RowsFit' /\ InTurn' /\ Noted' /\ Made'
    BY <1>1, OrderStays, NotesStay, RowsStay, NotMadeYet
  <1>3. Remembered'
    <2>1. ASSUME NEW n \in pending
          PROVE  /\ acts[n].start <= doc'[acts[n].frame].start
                 /\ acts[n].start = doc'[acts[n].frame].start => acts[n].says <= Len(doc'[acts[n].frame].assigned)
      <3>1. /\ acts[n].start <= doc[acts[n].frame].start /\ acts[n].says \in Nat /\ acts[n].frame \in Frames
            /\ acts[n].start = doc[acts[n].frame].start => acts[n].says <= Len(doc[acts[n].frame].assigned)
        BY AnAct DEF IInv, TypeOK, Remembered
      <3>2. PICK g \in Frames : g = acts[n].frame
        BY <3>1
      <3>3. /\ doc'[g].start = doc[g].start /\ Len(doc[g].assigned) <= Len(doc'[g].assigned)
            /\ Len(doc[g].assigned) \in Nat /\ Len(doc'[g].assigned) \in Nat
        OBVIOUS
      <3> DEFINE L == Len(doc[g].assigned)
                 M == Len(doc'[g].assigned)
                 says == acts[n].says
      <3>4. L <= M /\ L \in Nat /\ M \in Nat /\ says \in Nat
        BY <3>1, <3>3
      <3>5. says <= L => says <= M
        <4> HIDE DEF L, M, says
        <4>1. QED
          BY <3>4
      <3>6. acts[n].start <= doc'[g].start
        BY <3>1, <3>2, <3>3, Zenon
      <3>7. acts[n].start = doc'[g].start => says <= M
        BY <3>1, <3>2, <3>3, <3>5, Zenon
      <3>8. QED
        BY <3>2, <3>6, <3>7, Zenon
    <2>2. QED
      BY <2>1 DEF IInv, Remembered
  <1>4. QED
    BY <1>2, <1>3

\* The last action begun in a frame.
LEMMA CauseIsBegun ==
  ASSUME IInv, NEW f \in Frames, Cause(f) # 0
  PROVE  Cause(f) \in DOMAIN acts /\ acts[Cause(f)].frame = f
  <1>1. acts \in Acts /\ Len(acts) \in Nat /\ DOMAIN acts = 1..Len(acts)
    BY AnAct DEF IInv, TypeOK
  <1> DEFINE T == {i \in DOMAIN acts : acts[i].frame = f}
  <1>2. T # {} /\ T \in SUBSET (0..Len(acts))
    BY <1>1 DEF Cause
  <1>3. PICK n \in T : \A m \in T : m <= n
    BY <1>1, <1>2, Greatest
  <1>4. \A m \in n + 1..Len(acts) : acts[m].frame # f
    <2>1. ASSUME NEW m \in n + 1..Len(acts), acts[m].frame = f PROVE FALSE
      <3>1. n \in 1..Len(acts) /\ m \in DOMAIN acts /\ ~(m <= n)
        BY <1>1, <1>3
      <3>2. QED
        BY <1>3, <2>1, <3>1
    <2>2. QED
      BY <2>1
  <1>5. QED
    BY <1>1, <1>3, <1>4 DEF Cause

\* A document dates what it sees after what was begun in its frame.
LEMMA DatedAfterItsCause ==
  ASSUME IInv, NEW f \in Frames, NEW o, o.by = Cause(f), o.frame = f, o.at = Now(f)
  PROVE  Begun(o) /\ Now(f) \in 0..Epoch
  <1>1. clock \in 0..MaxClock /\ Now(f) \in 0..Epoch /\ clock <= Now(f)
    BY Constants DEF IInv, TypeOK, Now
  <1>2. ASSUME o.by # 0 PROVE o.by \in DOMAIN acts /\ acts[o.by].frame = o.frame /\ acts[o.by].at <= o.at
    <2>1. Cause(f) \in DOMAIN acts /\ acts[Cause(f)].frame = f
      BY <1>2, CauseIsBegun
    <2>2. acts[Cause(f)].at <= clock /\ acts[Cause(f)].at \in 0..MaxClock
      BY <2>1, AnAct DEF IInv, TypeOK, InOrder
    <2>3. QED
      BY <1>1, <2>1, <2>2, Constants
  <1>3. QED
    BY <1>1, <1>2 DEF Begun

LEMMA CauseIsANumber ==
  ASSUME IInv, NEW f \in Frames
  PROVE  Cause(f) \in Nat
  <1>1. DOMAIN acts \subseteq Nat
    BY AnAct DEF IInv, TypeOK
  <1>2. QED
    BY <1>1, CauseIsBegun

LEMMA RequestKeepsIInv ==
  ASSUME IInv, NEW f \in Frames, NEW kind \in Kinds[f], Request(f, kind)
  PROVE  IInv'
  <1> DEFINE c == [name |-> doc[f].calls + 1, at |-> Now(f), kind |-> kind, by |-> Cause(f), frame |-> f]
             n == doc[f].calls + 1
             O == doc[f].open \cup {c}
  <1>1. /\ doc' = [doc EXCEPT ![f].calls = @ + 1, ![f].open = @ \cup {c}]
        /\ stage' # "assembled" /\ effort' \in 0..MaxEffort
        /\ UNCHANGED <<acts, pending, rows, params, obs, answered, notes, clock, stage, recording, loads, starts>>
    <2>1. effort < MaxEffort /\ effort' = effort + 1
      BY DEF Request
    <2>2. effort' \in 0..MaxEffort
      <3>1. effort \in 0..MaxEffort
        BY DEF IInv, TypeOK
      <3>2. QED
        BY <2>1, <3>1, SpentWithin
    <2>3. QED
      BY <2>2 DEF Request
  <1>2. doc \in [Frames -> Docs] /\ doc[f] \in Docs /\ doc[f].calls \in Nat /\ doc[f].open \in SUBSET OpenCalls
    BY ADoc DEF IInv, TypeOK
  <1>3. Begun(c) /\ c.frame = f /\ Now(f) \in 0..Epoch
    BY DatedAfterItsCause
  <1>4. n \in Nat /\ O \in SUBSET OpenCalls
    <2>1. kind \in AllKinds
      BY DEF AllKinds
    <2>2. c \in OpenCalls
      BY <1>2, <1>3, <2>1, CauseIsANumber DEF OpenCalls
    <2>3. QED
      BY <1>2, <2>2
  <1>5. doc' = [doc EXCEPT ![f] = [doc[f] EXCEPT !.calls = n, !.open = O]]
    BY <1>1, <1>2
  <1> HIDE DEF n, O, c
  <1>6. doc' \in [Frames -> Docs]
    <2>1. [doc[f] EXCEPT !.calls = n, !.open = O] \in Docs
      <3>1. \A m \in Nat, P \in SUBSET OpenCalls : [doc[f] EXCEPT !.calls = m, !.open = P] \in Docs
        BY <1>2, ADoc, Documents
      <3>2. QED
        BY <1>4, <3>1, Zenon
    <2>2. QED
      BY <1>2, <1>5, <2>1
  <1>7. /\ doc'[f].start = doc[f].start /\ doc'[f].assigned = doc[f].assigned /\ doc'[f].open = O
        /\ \A g \in Frames \ {f} : doc'[g] = doc[g]
    BY <1>2, <1>5 DEF Docs
  <1>8. TypeOK'
    BY <1>1, <1>6, Constants DEF IInv, TypeOK
  <1>9. InOrder' /\ RowsFit' /\ InTurn' /\ Noted' /\ Remembered' /\ Made'
    <2>1. \A g \in Frames : Len(doc[g].assigned) \in Nat
      BY <1>2, ADoc, LenProperties DEF Assignments
    <2>2. \A g \in Frames : /\ doc'[g].start = doc[g].start /\ Len(doc[g].assigned) <= Len(doc'[g].assigned)
                            /\ Len(doc'[g].assigned) \in Nat
      BY <1>7, <2>1
    <2>3. QED
      BY <1>1, <1>6, <2>1, <2>2, WireStays
  <1>10. Caused'
    <2>1. \A g \in Frames : \A o \in doc'[g].open : Begun(o) /\ o.frame = g
      BY <1>3, <1>7 DEF IInv, Caused, O
    <2>2. QED
      BY <1>1, <2>1, ZenonT(30) DEF IInv, Caused, Begun
  <1>11. KeptByKey'
    BY <1>1, StoreStays
  <1>12. QED
    BY <1>8, <1>9, <1>10, <1>11 DEF IInv

\* Reporting keeps one observation for a key, whichever came last.
LEMMA ReportedOne ==
  ASSUME IInv, stage \in {"live", "stopping"}, NEW o, Begun(o), o.id = FrameId[o.frame],
         obs' = Reported(o), UNCHANGED acts
  PROVE  /\ obs' = {x \in obs : Key(x) # Key(o)} \cup {o} /\ IsFiniteSet(obs')
         /\ \A x, y \in obs' : Key(x) = Key(y) => x = y
         /\ \A x \in obs' : Begun(x)' /\ x.id = FrameId[x.frame]
  <1> DEFINE kept == {x \in obs : Key(x) # Key(o)}
  <1>1. obs' = kept \cup {o}
    BY DEF Reported
  <1>2. IsFiniteSet(kept)
    BY FS_Subset DEF IInv, KeptByKey
  <1>3. IsFiniteSet(kept \cup {o})
    <2> HIDE DEF kept
    <2>1. QED
      BY <1>2, FS_AddElement
  <1>4. \A x, y \in obs' : Key(x) = Key(y) => x = y
    <2>1. \A x, y \in obs : Key(x) = Key(y) => x = y
      BY DEF IInv, KeptByKey
    <2>2. QED
      BY <1>1, <2>1
  <1>5. \A x \in obs' : Begun(x)' /\ x.id = FrameId[x.frame]
    BY <1>1 DEF IInv, Caused, Begun
  <1>6. QED
    BY <1>1, <1>3, <1>4, <1>5

LEMMA RespondKeepsIInv ==
  ASSUME IInv, NEW f \in Frames, NEW c \in doc[f].open, Respond(f, c)
  PROVE  IInv'
  <1> DEFINE s == Known(doc[f].assigned, c.kind.value)
             O == doc[f].open \ {c}
             o == [id |-> FrameId[f], type |-> "network", name |-> c.name, at |-> c.at, kind |-> c.kind,
                   says |-> Placeholder(doc[f].assigned, c.kind.value), by |-> c.by, frame |-> f,
                   nth |-> Cardinality(answered)]
  <1>1. /\ stage \in {"live", "stopping"}
        /\ doc' = [doc EXCEPT ![f].open = @ \ {c}, ![f].assigned = Known(@, c.kind.value)]
        /\ obs' = Reported(o) /\ answered' = answered \cup {o}
        /\ UNCHANGED <<acts, pending, rows, params, notes, clock, stage, recording, loads, starts, effort>>
    BY DEF Respond
  <1>2. /\ doc \in [Frames -> Docs] /\ doc[f] \in Docs /\ doc[f].open \in SUBSET OpenCalls
        /\ doc[f].assigned \in Assignments
    BY ADoc DEF IInv, TypeOK
  <1>3. /\ c \in OpenCalls /\ c.name \in Nat /\ c.at \in 0..Epoch /\ c.by \in Nat /\ c.kind \in AllKinds
        /\ c.kind.value \in Values \cup {NoValue} /\ O \in SUBSET OpenCalls
    <2>1. c \in OpenCalls /\ O \in SUBSET OpenCalls
      BY <1>2
    <2>2. c.name \in Nat /\ c.at \in 0..Epoch /\ c.by \in Nat /\ c.kind \in AllKinds
      BY <2>1 DEF OpenCalls
    <2>3. c.kind.value \in Values \cup {NoValue}
      BY CaptureAssumption, <2>2 DEF AllKinds
    <2>4. QED
      BY <2>1, <2>2, <2>3
  <1>4. /\ s \in Assignments /\ Len(doc[f].assigned) \in Nat /\ Len(s) \in Nat
        /\ Len(doc[f].assigned) <= Len(s)
        /\ Placeholder(doc[f].assigned, c.kind.value) \in Nat
    <2>1. Placeholder(doc[f].assigned, c.kind.value) \in 0..Len(s)
      BY <1>2, <1>3, Numbering
    <2>2. /\ s \in Assignments /\ Len(doc[f].assigned) \in Nat /\ Len(s) \in Nat
          /\ Len(doc[f].assigned) <= Len(s)
      BY <1>2, <1>3, Numbering
    <2>3. QED
      BY <2>1, <2>2
  <1>5. IsFiniteSet(answered) /\ Cardinality(answered) \in Nat
    BY FS_CardinalityType DEF IInv, KeptByKey
  <1>6. /\ o \in Calls /\ o.id = FrameId[o.frame] /\ o.type = "network" /\ o.nth = Cardinality(answered)
        /\ Begun(o)
    <2>1. o \in Calls
      BY <1>3, <1>4, <1>5, CaptureAssumption DEF Calls, AllKinds
    <2>2. Begun(c) /\ c.frame = f
      BY DEF IInv, Caused
    <2>3. Begun(o)
      BY <2>2 DEF Begun
    <2>4. QED
      BY <2>1, <2>3
  <1>7. doc' = [doc EXCEPT ![f] = [doc[f] EXCEPT !.open = O, !.assigned = s]]
    BY <1>1, <1>2
  <1> HIDE DEF s, O, o
  <1>8. doc' \in [Frames -> Docs]
    <2>1. [doc[f] EXCEPT !.open = O, !.assigned = s] \in Docs
      <3>1. \A t \in Assignments, P \in SUBSET OpenCalls : [doc[f] EXCEPT !.open = P, !.assigned = t] \in Docs
        BY <1>2, ADoc, Documents
      <3>2. QED
        BY <1>3, <1>4, <3>1, Zenon
    <2>2. QED
      BY <1>2, <1>7, <2>1
  <1>9. /\ doc'[f].start = doc[f].start /\ doc'[f].assigned = s /\ doc'[f].open = O
        /\ \A g \in Frames \ {f} : doc'[g] = doc[g]
    BY <1>2, <1>7 DEF Docs
  <1>10. /\ obs' = {x \in obs : Key(x) # Key(o)} \cup {o} /\ IsFiniteSet(obs')
         /\ \A x, y \in obs' : Key(x) = Key(y) => x = y
         /\ \A x \in obs' : Begun(x)' /\ x.id = FrameId[x.frame]
    BY <1>1, <1>6, ReportedOne
  <1>11. TypeOK'
    <2>1. obs' \subseteq Calls \cup Entries /\ answered' \subseteq Calls
      BY <1>1, <1>6, <1>10 DEF IInv, TypeOK
    <2>2. QED
      BY <1>1, <1>8, <2>1, Constants DEF IInv, TypeOK
  <1>12. InOrder' /\ RowsFit' /\ InTurn' /\ Noted' /\ Remembered' /\ Made'
    <2>1. \A g \in Frames : Len(doc[g].assigned) \in Nat
      BY <1>2, ADoc, LenProperties DEF Assignments
    <2>2. ASSUME NEW g \in Frames
          PROVE  /\ doc'[g].start = doc[g].start /\ Len(doc[g].assigned) <= Len(doc'[g].assigned)
                 /\ Len(doc'[g].assigned) \in Nat
      <3>1. CASE g = f
        BY <1>4, <1>9, <3>1
      <3>2. CASE g # f
        BY <1>9, <2>1, <3>2
      <3>3. QED
        BY <3>1, <3>2
    <2>3. stage' # "assembled"
      BY <1>1
    <2>4. QED
      BY <1>1, <1>8, <2>1, <2>2, <2>3, WireStays
  <1>13. Caused'
    <2>1. \A g \in Frames : \A x \in doc'[g].open : Begun(x) /\ x.frame = g
      BY <1>9 DEF IInv, Caused, O
    <2>2. QED
      BY <1>1, <1>10, <2>1 DEF Caused, Begun
  <1>14. KeptByKey'
    <2>1. o \notin answered
      BY <1>5, <1>6 DEF IInv, KeptByKey
    <2>2. IsFiniteSet(answered') /\ Cardinality(answered') = Cardinality(answered) + 1
      BY <1>1, <1>5, <2>1, FS_AddElement
    <2>3. \A x \in obs' : x.type = "network" => x \in answered'
      BY <1>1, <1>10 DEF IInv, KeptByKey
    <2>4. ASSUME NEW x \in answered'
          PROVE  x.nth < Cardinality(answered') /\ (x \in obs' \/ Superseded(x)')
      <3>1. CASE x = o
        BY <1>5, <1>6, <1>10, <2>2, <3>1
      <3>2. CASE x \in answered
        <4>1. x.nth < Cardinality(answered) /\ x.nth \in Nat /\ (x \in obs \/ Superseded(x))
          BY <3>2 DEF IInv, TypeOK, KeptByKey, Calls
        <4>2. x.nth < Cardinality(answered')
          BY <1>5, <2>2, <4>1
        <4>3. CASE Superseded(x)
          <5>1. PICK d \in answered : d.nth > x.nth /\ Key(d) = Key(x)
            BY <4>3 DEF Superseded
          <5>2. d \in answered'
            BY <1>1
          <5>3. Superseded(x)'
            BY <5>1, <5>2 DEF Superseded, Key
          <5>4. QED
            BY <4>2, <5>3
        <4>4. CASE x \in obs /\ Key(x) # Key(o)
          <5>1. x \in obs'
            BY <1>10, <4>4
          <5>2. QED
            BY <4>2, <5>1
        <4>5. CASE x \in obs /\ Key(x) = Key(o)
          <5>1. o \in answered' /\ o.nth > x.nth /\ Key(o) = Key(x)
            BY <1>1, <1>5, <1>6, <4>1, <4>5
          <5>2. Superseded(x)'
            BY <5>1 DEF Superseded, Key
          <5>3. QED
            BY <4>2, <5>2
        <4>6. QED
          BY <4>1, <4>2, <4>3, <4>4, <4>5
      <3>3. QED
        BY <1>1, <3>1, <3>2
    <2>5. (\A x, y \in obs : Key(x) = Key(y) => x = y)'
      BY <1>10 DEF Key
    <2>6. QED
      BY <1>10, <2>2, <2>3, <2>4, <2>5 DEF KeptByKey
  <1>15. QED
    BY <1>11, <1>12, <1>13, <1>14 DEF IInv

LEMMA LogKeepsIInv ==
  ASSUME IInv, NEW f \in Frames, NEW v \in Lines[f], Log(f, v)
  PROVE  IInv'
  <1> DEFINE s == Known(doc[f].assigned, v)
             n == doc[f].lines + 1
             o == [id |-> FrameId[f], type |-> "console", name |-> doc[f].lines + 1, at |-> Now(f),
                   says |-> Placeholder(doc[f].assigned, v), by |-> Cause(f), frame |-> f]
  <1>1. /\ stage \in {"live", "stopping"} /\ effort' \in 0..MaxEffort
        /\ doc' = [doc EXCEPT ![f].lines = @ + 1, ![f].assigned = Known(@, v)]
        /\ obs' = Reported(o)
        /\ UNCHANGED <<acts, pending, rows, params, answered, notes, clock, stage, recording, loads, starts>>
    <2>1. effort < MaxEffort /\ effort' = effort + 1
      BY DEF Log
    <2>2. effort' \in 0..MaxEffort
      <3>1. effort \in 0..MaxEffort
        BY DEF IInv, TypeOK
      <3>2. QED
        BY <2>1, <3>1, SpentWithin
    <2>3. QED
      BY <2>2 DEF Log
  <1>2. /\ doc \in [Frames -> Docs] /\ doc[f] \in Docs /\ doc[f].lines \in Nat /\ n \in Nat
        /\ doc[f].assigned \in Assignments
    BY ADoc DEF IInv, TypeOK
  <1>3. /\ s \in Assignments /\ Len(doc[f].assigned) \in Nat /\ Len(s) \in Nat
        /\ Len(doc[f].assigned) <= Len(s) /\ Placeholder(doc[f].assigned, v) \in Nat
    <2>1. v \in Values \cup {NoValue}
      BY CaptureAssumption
    <2>2. Placeholder(doc[f].assigned, v) \in 0..Len(s)
      BY <1>2, <2>1, Numbering
    <2>3. /\ s \in Assignments /\ Len(doc[f].assigned) \in Nat /\ Len(s) \in Nat
          /\ Len(doc[f].assigned) <= Len(s)
      BY <1>2, <2>1, Numbering
    <2>4. QED
      BY <2>2, <2>3
  <1>4. o \in Entries /\ o.id = FrameId[o.frame] /\ o.type = "console" /\ Begun(o)
    <2>1. Begun(o) /\ Now(f) \in 0..Epoch
      BY DatedAfterItsCause
    <2>2. o \in Entries
      BY <1>2, <1>3, <2>1, CauseIsANumber, CaptureAssumption DEF Entries
    <2>3. QED
      BY <2>1, <2>2
  <1>5. doc' = [doc EXCEPT ![f] = [doc[f] EXCEPT !.lines = n, !.assigned = s]]
    BY <1>1, <1>2
  <1> HIDE DEF s, n, o
  <1>6. doc' \in [Frames -> Docs]
    <2>1. [doc[f] EXCEPT !.lines = n, !.assigned = s] \in Docs
      <3>1. \A t \in Assignments, m \in Nat : [doc[f] EXCEPT !.lines = m, !.assigned = t] \in Docs
        BY <1>2, ADoc, Documents
      <3>2. QED
        BY <1>2, <1>3, <3>1, Zenon
    <2>2. QED
      BY <1>2, <1>5, <2>1
  <1>7. /\ doc'[f].start = doc[f].start /\ doc'[f].assigned = s /\ doc'[f].open = doc[f].open
        /\ \A g \in Frames \ {f} : doc'[g] = doc[g]
    BY <1>2, <1>5 DEF Docs
  <1>8. /\ obs' = {x \in obs : Key(x) # Key(o)} \cup {o} /\ IsFiniteSet(obs')
        /\ \A x, y \in obs' : Key(x) = Key(y) => x = y
        /\ \A x \in obs' : Begun(x)' /\ x.id = FrameId[x.frame]
    BY <1>1, <1>4, ReportedOne
  <1>9. TypeOK'
    <2>1. obs' \subseteq Calls \cup Entries
      BY <1>4, <1>8 DEF IInv, TypeOK
    <2>2. QED
      BY <1>1, <1>6, <2>1, Constants DEF IInv, TypeOK
  <1>10. InOrder' /\ RowsFit' /\ InTurn' /\ Noted' /\ Remembered' /\ Made'
    <2>1. \A g \in Frames : Len(doc[g].assigned) \in Nat
      BY <1>2, ADoc, LenProperties DEF Assignments
    <2>2. ASSUME NEW g \in Frames
          PROVE  /\ doc'[g].start = doc[g].start /\ Len(doc[g].assigned) <= Len(doc'[g].assigned)
                 /\ Len(doc'[g].assigned) \in Nat
      <3>1. CASE g = f
        BY <1>3, <1>7, <3>1
      <3>2. CASE g # f
        BY <1>7, <2>1, <3>2
      <3>3. QED
        BY <3>1, <3>2
    <2>3. stage' # "assembled"
      BY <1>1
    <2>4. QED
      BY <1>1, <1>6, <2>1, <2>2, <2>3, WireStays
  <1>11. Caused'
    <2>1. \A g \in Frames : \A x \in doc'[g].open : Begun(x) /\ x.frame = g
      BY <1>7 DEF IInv, Caused
    <2>2. QED
      BY <1>1, <1>8, <2>1 DEF Caused, Begun
  <1>12. KeptByKey'
    <2>1. \A x \in obs' : x.type = "network" => x \in answered
      BY <1>4, <1>8 DEF IInv, KeptByKey
    <2>2. ASSUME NEW x \in answered PROVE x.nth < Cardinality(answered) /\ (x \in obs' \/ Superseded(x))
      <3>1. x.type = "network" /\ x.nth < Cardinality(answered) /\ (x \in obs \/ Superseded(x))
        BY DEF IInv, TypeOK, KeptByKey, Calls
      <3>2. Key(x) # Key(o)
        BY <1>4, <3>1 DEF Key
      <3>3. QED
        BY <1>8, <3>1, <3>2
    <2>3. (\A x, y \in obs : Key(x) = Key(y) => x = y)'
      BY <1>8 DEF Key
    <2>4. QED
      BY <1>1, <1>8, <2>1, <2>2, <2>3 DEF IInv, KeptByKey, Superseded, Key
  <1>13. QED
    BY <1>9, <1>10, <1>11, <1>12 DEF IInv

\* A note takes its place after the last action begun.
LEMMA NoteKeepsIInv ==
  ASSUME IInv, NEW boundary \in BOOLEAN, Note(boundary)
  PROVE  IInv'
  <1> DEFINE e == [at |-> clock, boundary |-> boundary, by |-> Len(acts)]
  <1>1. /\ notes' = Append(notes, e) /\ effort' \in 0..MaxEffort /\ stage' # "assembled"
        /\ UNCHANGED <<doc, acts, pending, rows, params, obs, answered, clock, stage, recording, loads, starts>>
    <2>1. effort < MaxEffort /\ effort' = effort + 1
      BY DEF Note
    <2>2. effort' \in 0..MaxEffort
      <3>1. effort \in 0..MaxEffort
        BY DEF IInv, TypeOK
      <3>2. QED
        BY <2>1, <3>1, SpentWithin
    <2>3. QED
      BY <2>2 DEF Note
  <1> DEFINE ANote == [at : 0..MaxClock, boundary : BOOLEAN, by : Nat]
  <1>2. acts \in Acts /\ Len(acts) \in Nat /\ DOMAIN acts = 1..Len(acts) /\ clock \in 0..MaxClock
    BY AnAct DEF IInv, TypeOK
  <1>3. e \in ANote /\ notes \in Seq(ANote) /\ e.at = clock /\ e.by = Len(acts)
    BY <1>2 DEF IInv, TypeOK
  <1> HIDE DEF e, ANote
  <1>4. /\ notes' \in Seq(ANote) /\ Len(notes) \in Nat /\ DOMAIN notes = 1..Len(notes)
        /\ DOMAIN notes' = 1..Len(notes) + 1 /\ notes'[Len(notes) + 1] = e
        /\ \A i \in 1..Len(notes) : notes'[i] = notes[i]
    <2>1. Append(notes, e) \in Seq(ANote) /\ Len(Append(notes, e)) = Len(notes) + 1
      BY <1>3, AppendProperties
    <2>2. DOMAIN Append(notes, e) = 1..Len(notes) + 1
      BY <2>1, LenProperties
    <2>3. Append(notes, e)[Len(notes) + 1] = e /\ \A i \in 1..Len(notes) : Append(notes, e)[i] = notes[i]
      BY <1>3, AppendProperties
    <2>4. Len(notes) \in Nat /\ DOMAIN notes = 1..Len(notes)
      BY <1>3, LenProperties
    <2>5. QED
      BY <1>1, <2>1, <2>2, <2>3, <2>4
  <1>5. TypeOK'
    <2>1. notes' \in NoteLists
      BY <1>4 DEF NoteLists, ANote
    <2>2. QED
      BY <1>1, <2>1, Constants DEF IInv, TypeOK, NoteLists
  <1>6. Noted'
    <2>1. ASSUME NEW i \in DOMAIN notes'
          PROVE  /\ notes'[i].by \in 0..Len(acts) /\ notes'[i].at <= clock
                 /\ notes'[i].by # 0 => acts[notes'[i].by].at <= notes'[i].at
                 /\ \A m \in DOMAIN acts : m > notes'[i].by => notes'[i].at <= acts[m].at
      <3>1. CASE i = Len(notes) + 1
        <4>1. notes'[i].at = clock /\ notes'[i].by = Len(acts)
          BY <1>3, <1>4, <3>1
        <4>2. Len(acts) # 0 => acts[Len(acts)].at <= clock
          BY <1>2 DEF IInv, InOrder
        <4>3. QED
          BY <1>2, <4>1, <4>2, Constants
      <3>2. CASE i # Len(notes) + 1
        <4>1. i \in DOMAIN notes /\ notes'[i] = notes[i]
          BY <1>4, <3>2
        <4>2. QED
          BY <4>1 DEF IInv, Noted
      <3>3. QED
        BY <3>1, <3>2
    <2>2. QED
      BY <1>1, <2>1 DEF Noted
  <1>7. InOrder'
    BY <1>1, <1>2, OrderStays, Constants
  <1>8. RowsFit' /\ InTurn' /\ KeptByKey' /\ Caused' /\ Made'
    BY <1>1, RowsStay, StoreStays, CausesStay, NotMadeYet
  <1>9. Remembered'
    BY <1>1 DEF IInv, Remembered
  <1>10. QED
    BY <1>5, <1>6, <1>7, <1>8, <1>9 DEF IInv

LEMMA TickKeepsIInv ==
  ASSUME IInv, Tick
  PROVE  IInv'
  <1>1. /\ clock' \in 0..MaxClock /\ clock <= clock' /\ stage' # "assembled"
        /\ UNCHANGED <<doc, acts, pending, rows, params, obs, answered, notes, stage, recording,
                       loads, starts, effort>>
    BY Constants DEF Tick, IInv, TypeOK
  <1>2. TypeOK'
    BY <1>1, Constants DEF IInv, TypeOK
  <1>3. InOrder' /\ Noted'
    BY <1>1, OrderStays, NotesStay, Constants
  <1>4. RowsFit' /\ InTurn' /\ KeptByKey' /\ Caused' /\ Made'
    BY <1>1, RowsStay, StoreStays, CausesStay, NotMadeYet
  <1>5. Remembered'
    BY <1>1 DEF IInv, Remembered
  <1>6. QED
    BY <1>2, <1>3, <1>4, <1>5 DEF IInv

\* The session ends, in two steps that touch nothing else.
LEMMA StopKeepsIInv ==
  ASSUME IInv, Stop \/ MarkStopped
  PROVE  IInv'
  <1>1. /\ stage' \in {"stopping", "stopped"}
        /\ UNCHANGED <<doc, acts, pending, rows, params, obs, answered, notes, clock, recording,
                       loads, starts, effort>>
    BY DEF Stop, MarkStopped
  <1>2. TypeOK'
    BY <1>1, Constants DEF IInv, TypeOK
  <1>3. InOrder' /\ RowsFit' /\ InTurn' /\ Noted' /\ KeptByKey' /\ Made'
    BY <1>1, OthersStay
  <1>4. Caused' /\ Remembered'
    BY <1>1, CausesStay DEF IInv, Remembered
  <1>5. QED
    BY <1>2, <1>3, <1>4 DEF IInv

\* What is read from the stores when assembling is the same when they stay.
LEMMA AssemblyStays ==
  ASSUME UNCHANGED <<acts, rows, params, obs, notes>>
  PROVE  Assembly' = Assembly
  BY DEF Assembly, CallsOf, LinesOf, Budget, Goes, Before, Rank, Owner, Latest, Earliest, Later,
         NoteOwner, LiveParameters, Mentioned

\* What an event is given are observations of the store.
LEMMA OfTheStore ==
  ASSUME NEW r
  PROVE  CallsOf(r) \subseteq obs /\ LinesOf(r) \subseteq obs
  BY DEF CallsOf, LinesOf, Budget

LEMMA AssembleKeepsIInv ==
  ASSUME IInv, Assemble
  PROVE  IInv'
  <1>1. /\ stage' = "assembled" /\ recording' = Assembly
        /\ UNCHANGED <<doc, acts, pending, rows, params, obs, answered, notes, clock, loads, starts, effort>>
    BY DEF Assemble, Assembly
  <1>2. /\ Assembly.calls \subseteq Nat \X (Calls \cup Entries)
        /\ Assembly.notes \subseteq Nat \X Nat /\ Assembly.parameters \subseteq Nat
    <2>1. Assembly.calls \subseteq Nat \X (Calls \cup Entries)
      <3>1. \A r \in rows : r.act \in Nat /\ CallsOf(r) \cup LinesOf(r) \subseteq Calls \cup Entries
        BY OfTheStore DEF IInv, TypeOK, Rows
      <3>2. Assembly.calls = UNION {{r.act} \X (CallsOf(r) \cup LinesOf(r)) : r \in rows}
        BY DEF Assembly
      <3>3. QED
        BY <3>1, <3>2
    <2>2. Assembly.notes \subseteq Nat \X Nat
      <3>1. DOMAIN notes \subseteq Nat
        BY LenProperties DEF IInv, TypeOK
      <3>2. \A n : NoteOwner(n) \subseteq rows
        <4>1. SUFFICES ASSUME NEW n, NEW r \in NoteOwner(n) PROVE r \in rows
          OBVIOUS
        <4> DEFINE begun == {x \in rows : x.at <= n.at}
        <4>2. rows \subseteq Rows /\ RowsFit
          BY DEF IInv, TypeOK
        <4>3. rows # {} /\ r = IF begun # {} THEN Latest(begun) ELSE Earliest(rows)
          BY <4>1 DEF NoteOwner
        <4>4. begun # {} => Latest(begun) \in rows
          BY <4>2, LatestOfRows
        <4>5. Earliest(rows) \in rows
          BY <4>2, <4>3, EarliestOfRows
        <4>6. QED
          BY <4>3, <4>4, <4>5
      <3>3. \A r \in rows : r.act \in Nat
        BY DEF IInv, TypeOK, Rows
      <3>4. \A i \in DOMAIN notes : {r.act : r \in NoteOwner(notes[i])} \X {i} \subseteq Nat \X Nat
        BY <3>1, <3>2, <3>3
      <3>5. Assembly.notes = UNION {{r.act : r \in NoteOwner(notes[i])} \X {i} : i \in DOMAIN notes}
        BY DEF Assembly
      <3>6. QED
        BY <3>4, <3>5
    <2>3. Assembly.parameters \subseteq Nat
      BY DEF Assembly, LiveParameters, IInv, TypeOK
    <2>4. QED
      BY <2>1, <2>2, <2>3
  <1>3. TypeOK'
    BY <1>1, <1>2, Constants DEF IInv, TypeOK
  <1>4. clock' \in Nat /\ clock <= clock'
    BY <1>1, Constants DEF IInv, TypeOK
  <1>5. InOrder' /\ RowsFit' /\ InTurn' /\ Noted' /\ KeptByKey'
    BY <1>1, <1>4, OrderStays, RowsStay, NotesStay, StoreStays
  <1>6. Caused' /\ Remembered'
    BY <1>1, CausesStay DEF IInv, Remembered
  <1>7. Made'
    BY <1>1, AssemblyStays DEF Made
  <1>8. QED
    BY <1>3, <1>5, <1>6, <1>7 DEF IInv

LEMMA StutteringKeepsIInv ==
  ASSUME IInv, UNCHANGED vars
  PROVE  IInv'
  <1>1. UNCHANGED <<doc, acts, pending, rows, params, obs, answered, notes, clock, stage, recording,
                    loads, starts, effort>>
    BY DEF vars
  <1>2. TypeOK'
    BY <1>1, Constants DEF IInv, TypeOK
  <1>3. clock' \in Nat /\ clock <= clock'
    BY <1>1, Constants DEF IInv, TypeOK
  <1>4. InOrder' /\ RowsFit' /\ InTurn' /\ Noted' /\ KeptByKey'
    BY <1>1, <1>3, OrderStays, RowsStay, NotesStay, StoreStays
  <1>5. Caused' /\ Remembered'
    BY <1>1, CausesStay DEF IInv, Remembered
  <1>6. Made'
    BY <1>1, AssemblyStays DEF IInv, Made, Assembled
  <1>7. QED
    BY <1>2, <1>4, <1>5, <1>6 DEF IInv

LEMMA NextKeepsIInv ==
  ASSUME IInv, [Next]_vars
  PROVE  IInv'
  <1>1. ASSUME NEW f \in Frames, Load(f) \/ Start(f) PROVE IInv'
    BY <1>1, LoadKeepsIInv, StartKeepsIInv
  <1>2. ASSUME NEW f \in Frames, NEW v \in Typed[f], Begin(f, v) PROVE IInv'
    BY <1>2, BeginKeepsIInv
  <1>3. ASSUME NEW f \in Frames, NEW v \in Lines[f], Log(f, v) PROVE IInv'
    BY <1>3, LogKeepsIInv
  <1>4. ASSUME NEW n \in pending, Send(n) PROVE IInv'
    BY <1>4, SendKeepsIInv
  <1>5. ASSUME NEW f \in Frames, NEW kind \in Kinds[f], Request(f, kind) PROVE IInv'
    BY <1>5, RequestKeepsIInv
  <1>6. ASSUME NEW f \in Frames, NEW c \in doc[f].open, Respond(f, c) PROVE IInv'
    BY <1>6, RespondKeepsIInv
  <1>7. ASSUME NEW boundary \in BOOLEAN, Note(boundary) PROVE IInv'
    BY <1>7, NoteKeepsIInv
  <1>8. ASSUME Tick \/ Stop \/ MarkStopped \/ Assemble PROVE IInv'
    BY <1>8, TickKeepsIInv, StopKeepsIInv, AssembleKeepsIInv
  <1>9. CASE UNCHANGED vars
    BY <1>9, StutteringKeepsIInv
  <1>10. QED
    BY <1>1, <1>2, <1>3, <1>4, <1>5, <1>6, <1>7, <1>8, <1>9 DEF Next

\* What the session has done, what the stores hold and what is assembled fit each
\* other, whatever the frames do and however the worker takes it in.
THEOREM CaptureInvariant == Spec => []IInv
  <1>1. Init => IInv
    BY InitIInv
  <1>2. IInv /\ [Next]_vars => IInv'
    BY NextKeepsIInv
  <1>3. QED
    BY <1>1, <1>2, PTL DEF Spec

\* Every variable has the type Capture gives it.
THEOREM CaptureTypeCorrect == Spec => []TypeOK
  <1>1. IInv => TypeOK
    BY DEF IInv
  <1>2. QED
    BY <1>1, CaptureInvariant, PTL

-----------------------------------------------------------------------------
(* What the assembly says of what was recorded. *)

LEMMA OwnersRow ==
  ASSUME IInv, NEW o, NEW r \in Owner(o)
  PROVE  /\ r \in rows /\ r.id = o.id
         /\ \A s \in rows : s.id = o.id /\ s.at <= o.at + Lead
                                => r.at <= o.at + Lead /\ (s = r \/ Later(r, s))
  <1> DEFINE candidates == {x \in rows : x.id = o.id}
             begun == {x \in candidates : x.at <= o.at + Lead}
  <1>1. candidates # {} /\ r = IF begun # {} THEN Latest(begun) ELSE Earliest(candidates)
    BY DEF Owner
  <1>2. rows \subseteq Rows /\ RowsFit
    BY DEF IInv, TypeOK
  <1>3. CASE begun = {}
    <2>1. Earliest(candidates) \in candidates
      BY <1>1, <1>2, EarliestOfRows
    <2>2. QED
      BY <1>1, <1>3, <2>1
  <1>4. CASE begun # {}
    <2>1. Latest(begun) \in begun /\ \A y \in begun \ {Latest(begun)} : Later(Latest(begun), y)
      BY <1>2, <1>4, LatestOfRows
    <2>2. QED
      BY <1>1, <1>4, <2>1
  <1>5. QED
    BY <1>3, <1>4

LEMMA NoteOwnersRow ==
  ASSUME IInv, NEW n, NEW r \in NoteOwner(n)
  PROVE  /\ r \in rows
         /\ \A s \in rows : s.at <= n.at => r.at <= n.at /\ (s = r \/ Later(r, s))
  <1> DEFINE begun == {x \in rows : x.at <= n.at}
  <1>1. rows # {} /\ r = IF begun # {} THEN Latest(begun) ELSE Earliest(rows)
    BY DEF NoteOwner
  <1>2. rows \subseteq Rows /\ RowsFit
    BY DEF IInv, TypeOK
  <1>3. CASE begun = {}
    BY <1>1, <1>2, <1>3, EarliestOfRows
  <1>4. CASE begun # {}
    <2>1. Latest(begun) \in begun /\ \A y \in begun \ {Latest(begun)} : Later(Latest(begun), y)
      BY <1>2, <1>4, LatestOfRows
    <2>2. QED
      BY <1>1, <1>4, <2>1
  <1>5. QED
    BY <1>3, <1>4

LEMMA RowsAndActs ==
  ASSUME IInv, NEW r \in rows
  PROVE  /\ r.act \in DOMAIN acts /\ r.act \in Nat /\ r.at \in Nat /\ r.order \in Nat
         /\ r.at = acts[r.act].at /\ acts[r.act].frame \in Frames /\ r.id = FrameId[acts[r.act].frame]
  <1>1. r.act \in DOMAIN acts /\ r.at = acts[r.act].at /\ r.id = FrameId[acts[r.act].frame]
    BY DEF IInv, RowsFit
  <1>2. acts[r.act].frame \in Frames
    BY <1>1, AnAct DEF IInv, TypeOK
  <1>3. r.act \in Nat /\ r.at \in Nat /\ r.order \in Nat
    BY DEF IInv, TypeOK, Rows
  <1>4. QED
    BY <1>1, <1>2, <1>3

LEMMA CallsFollow ==
  ASSUME IInv, NEW r \in rows, NEW o \in obs, r \in Owner(o), NEW s \in rows, s.act = o.by, o.by # 0,
         \A g \in Frames \ {o.frame} : FrameId[g] # o.id
  PROVE  r.act = o.by \/ (r.act > o.by /\ acts[r.act].frame = o.frame /\ acts[r.act].at <= o.at + Lead)
  <1>1. /\ o.by \in DOMAIN acts /\ acts[o.by].frame = o.frame /\ acts[o.by].at <= o.at
        /\ o.id = FrameId[o.frame]
    BY DEF IInv, Caused, Begun
  <1>2. o.at \in Nat /\ Lead \in Nat
    BY Constants DEF IInv, TypeOK, Calls, Entries
  <1>3. /\ r.act \in Nat /\ r.at \in Nat /\ r.order \in Nat
        /\ r.at = acts[r.act].at /\ acts[r.act].frame \in Frames /\ r.id = FrameId[acts[r.act].frame]
    BY RowsAndActs
  <1>4. /\ s.act \in Nat /\ s.at \in Nat /\ s.order \in Nat
        /\ s.at = acts[s.act].at /\ s.id = FrameId[acts[s.act].frame]
    BY RowsAndActs
  <1>5. s.id = o.id /\ s.at <= o.at + Lead
    BY <1>1, <1>2, <1>4
  <1>6. r.id = o.id /\ r.at <= o.at + Lead /\ (s = r \/ Later(r, s))
    BY <1>5, OwnersRow
  <1>7. acts[r.act].frame = o.frame
    BY <1>3, <1>6
  <1>8. ASSUME r.act < s.act PROVE FALSE
    <2>1. r.order < s.order
      BY <1>1, <1>7, <1>8 DEF IInv, InTurn
    <2>2. r.at <= s.at
      <3>1. r.act \in DOMAIN acts /\ s.act \in DOMAIN acts /\ r.act <= s.act
        BY <1>3, <1>4, <1>8, RowsAndActs
      <3>2. acts[r.act].at <= acts[s.act].at
        BY <3>1 DEF IInv, InOrder
      <3>3. QED
        BY <1>3, <1>4, <3>2
    <2>3. QED
      BY <1>3, <1>4, <1>6, <2>1, <2>2 DEF Later
  <1>9. QED
    BY <1>3, <1>4, <1>6, <1>7, <1>8

\* Every call and line of the recording that was seen on the clock of the session,
\* in a frame whose number is no other's, is in the event of the last action begun
\* in that frame before it, or of one begun within the lead after it.
THEOREM CallsFollowActions == Spec => []CallsBelongToTheirAction
  <1>1. ASSUME IInv PROVE CallsBelongToTheirAction
    <2>1. SUFFICES ASSUME Assembled, NEW x \in recording.calls,
                          \A g \in Frames \ {x[2].frame} : FrameId[g] # x[2].id,
                          x[2].by # 0, Stored(x[2].by)
                   PROVE  \/ x[1] = x[2].by
                          \/ /\ x[1] > x[2].by /\ acts[x[1]].frame = x[2].frame
                             /\ acts[x[1]].at <= x[2].at + Lead
      BY DEF CallsBelongToTheirAction
    <2>2. x \in UNION {{r.act} \X (CallsOf(r) \cup LinesOf(r)) : r \in rows}
      BY <1>1, <2>1 DEF IInv, Made, Assembly
    <2>3. PICK r \in rows : x \in {r.act} \X (CallsOf(r) \cup LinesOf(r))
      BY <2>2
    <2>4. x[1] = r.act /\ x[2] \in CallsOf(r) \cup LinesOf(r)
      BY <2>3
    <2>5. x[2] \in obs /\ r \in Owner(x[2])
      BY <2>4 DEF CallsOf, LinesOf, Budget
    <2>6. PICK s \in rows : s.act = x[2].by
      BY <2>1 DEF Stored
    <2>7. QED
      BY <1>1, <2>1, <2>4, <2>5, <2>6, CallsFollow
  <1>2. QED
    BY <1>1, CaptureInvariant, PTL

\* A note is put into the event of the action it was made on, or of one begun at
\* the moment of either.
THEOREM NotesFollowActions == Spec => []NotesFollowTheirAction
  <1>1. ASSUME IInv PROVE NotesFollowTheirAction
    <2>1. SUFFICES ASSUME Assembled, NEW x \in recording.notes, notes[x[2]].by # 0, Stored(notes[x[2]].by)
                   PROVE  acts[x[1]].at \in {acts[notes[x[2]].by].at, notes[x[2]].at}
      BY DEF NotesFollowTheirAction
    <2>2. x \in UNION {{r.act : r \in NoteOwner(notes[i])} \X {i} : i \in DOMAIN notes}
      BY <1>1, <2>1 DEF IInv, Made, Assembly
    <2>3. PICK i \in DOMAIN notes : x \in {r.act : r \in NoteOwner(notes[i])} \X {i}
      BY <2>2
    <2>4. x[2] = i /\ x[1] \in {r.act : r \in NoteOwner(notes[i])}
      BY <2>3
    <2>5. PICK r \in NoteOwner(notes[i]) : x[1] = r.act
      BY <2>4
    <2>6. PICK s \in rows : s.act = notes[i].by
      BY <2>1, <2>4 DEF Stored
    <2>7. /\ s.act \in DOMAIN acts /\ s.act \in Nat /\ s.at \in Nat /\ s.order \in Nat /\ s.at = acts[s.act].at
      BY <1>1, RowsAndActs
    <2>8. s.at <= notes[i].at /\ \A m \in DOMAIN acts : m > s.act => notes[i].at <= acts[m].at
      BY <1>1, <2>1, <2>4, <2>6, <2>7 DEF IInv, Noted
    <2>9. r \in rows /\ r.at <= notes[i].at /\ (s = r \/ Later(r, s))
      BY <1>1, <2>8, NoteOwnersRow
    <2>10. /\ r.act \in DOMAIN acts /\ r.act \in Nat /\ r.at \in Nat /\ r.order \in Nat /\ r.at = acts[r.act].at
      BY <1>1, <2>9, RowsAndActs
    <2>11. notes[i].at \in Nat
      <3>1. notes[i] \in [at : 0..MaxClock, boundary : BOOLEAN, by : Nat]
        BY <1>1, LenProperties, ElementOfSeq DEF IInv, TypeOK
      <3>2. QED
        BY <3>1, Constants
    <2>12. s.at <= r.at
      BY <2>7, <2>9, <2>10 DEF Later
    <2>13. CASE r.act <= s.act
      <3>1. acts[r.act].at <= acts[s.act].at
        BY <1>1, <2>7, <2>10, <2>13 DEF IInv, InOrder
      <3>2. acts[r.act].at = acts[s.act].at
        BY <2>7, <2>10, <2>12, <3>1
      <3>3. QED
        BY <2>4, <2>5, <2>6, <3>2
    <2>14. CASE r.act > s.act
      <3>1. acts[r.act].at = notes[i].at
        BY <2>8, <2>9, <2>10, <2>11, <2>14
      <3>2. QED
        BY <2>4, <2>5, <3>1
    <2>15. QED
      BY <2>7, <2>10, <2>13, <2>14
  <1>2. QED
    BY <1>1, CaptureInvariant, PTL

\* The parameters of the test are those its events mention, and those of what was
\* typed are all among them.
THEOREM ParametersAreThoseMentioned == Spec => []ParametersFit
  <1>1. ASSUME IInv, Assembled PROVE ParametersFit
    <2>1. recording.parameters = params \cap Mentioned
      BY <1>1 DEF IInv, Made, Assembly, LiveParameters
    <2>2. recording.calls = UNION {{r.act} \X (CallsOf(r) \cup LinesOf(r)) : r \in rows}
      BY <1>1 DEF IInv, Made, Assembly
    <2>3. ASSUME NEW p \in Mentioned
          PROVE  p \in {acts[r.act].says : r \in rows} \cup {x[2].says : x \in recording.calls}
      <3>1. CASE p \in {o.says : o \in UNION {CallsOf(r) \cup LinesOf(r) : r \in rows}}
        <4>1. PICK r \in rows : \E o \in CallsOf(r) \cup LinesOf(r) : p = o.says
          BY <3>1
        <4>2. PICK o \in CallsOf(r) \cup LinesOf(r) : p = o.says
          BY <4>1
        <4>3. <<r.act, o>> \in recording.calls
          BY <2>2, <4>2
        <4>4. <<r.act, o>>[2].says = p
          BY <4>2
        <4>5. QED
          BY <4>3, <4>4
      <3>2. QED
        BY <3>1 DEF Mentioned
    <2>4. ASSUME NEW r \in rows, acts[r.act].says # 0, r.start = acts[r.act].start
          PROVE  acts[r.act].says \in recording.parameters
      <3>1. acts[r.act].says \in params
        BY <1>1, <2>4 DEF IInv, Remembered
      <3>2. acts[r.act].says \in Mentioned
        BY DEF Mentioned
      <3>3. QED
        BY <2>1, <3>1, <3>2
    <2>5. QED
      BY <2>1, <2>3, <2>4 DEF ParametersFit
  <1>2. IInv => ParametersFit
    BY <1>1 DEF ParametersFit
  <1>3. QED
    BY <1>2, CaptureInvariant, PTL

\* The calls of an event before the budget have names of their own.
LEMMA OwnedCallsAreDistinct ==
  ASSUME IInv, NEW r
  PROVE  Distinct({o \in obs : o.type = "network" /\ r \in Owner(o)})
  <1> DEFINE S == {o \in obs : o.type = "network" /\ r \in Owner(o)}
  <1>1. S \subseteq Calls
    BY DEF IInv, TypeOK, Entries
  <1>2. IsFiniteSet(S)
    BY FS_Subset DEF IInv, KeptByKey
  <1>3. ASSUME NEW o \in S, NEW p \in S, o.name = p.name PROVE o = p
    <2>1. o.id = p.id
      BY OwnersRow
    <2>2. Key(o) = Key(p)
      BY <1>3, <2>1 DEF Key
    <2>3. QED
      BY <2>2 DEF IInv, KeptByKey
  <1>4. QED
    BY <1>1, <1>2, <1>3 DEF Distinct

\* A pair with one first part for each of some things: as many as they are.
LEMMA PairsCount ==
  ASSUME NEW a, NEW S, IsFiniteSet(S)
  PROVE  Cardinality({a} \X S) = Cardinality(S)
  <1> DEFINE P == {a} \X S
             b == [x \in S |-> <<a, x>>]
  <1>1. b \in Bijection(S, P)
    <2>1. b \in [S -> P] /\ \A y \in P : \E x \in S : b[x] = y
      <3>1. b \in [S -> P]
        OBVIOUS
      <3>2. ASSUME NEW y \in P PROVE \E x \in S : b[x] = y
        <4>1. y[2] \in S /\ y = <<a, y[2]>>
          OBVIOUS
        <4>2. b[y[2]] = y
          BY <4>1
        <4>3. QED
          BY <4>1, <4>2
      <3>3. QED
        BY <3>1, <3>2
    <2>2. \A x, y \in S : b[x] = b[y] => x = y
      OBVIOUS
    <2> HIDE DEF P, b
    <2>3. QED
      BY <2>1, <2>2, Fun_IsBij
  <1> HIDE DEF P, b
  <1>2. QED
    BY <1>1, FS_Bijection DEF P, ExistsBijection

\* A call answered before the session was marked stopped is in the recording,
\* unless a later one has its key, its frame has no event, or the one it would be
\* in is full of calls that come no later in the budget's order.
THEOREM AnsweredCallsHaveAPlace == Spec => []AnsweredCallsAreKept
  <1>1. ASSUME IInv, Assembled, NEW c \in answered, ~Superseded(c), \E r \in rows : r.id = c.id,
               ~Kept(c)
        PROVE  \E r \in rows : LET full == {x \in recording.calls : x[1] = r.act /\ x[2].type = "network"}
                               IN  /\ Cardinality(full) = MaxCallsPerEvent
                                   /\ \A x \in full : Rank(x[2]) <= Rank(c)
    <2>1. recording.calls = UNION {{r.act} \X (CallsOf(r) \cup LinesOf(r)) : r \in rows}
      BY <1>1 DEF IInv, Made, Assembly
    <2>2. c \in obs /\ c.type = "network"
      BY <1>1 DEF IInv, TypeOK, KeptByKey, Calls
    <2>3. PICK r : r \in Owner(c)
      BY <1>1 DEF Owner
    <2>4. r \in rows
      BY <1>1, <2>3, OwnersRow
    <2> DEFINE S == {o \in obs : o.type = "network" /\ r \in Owner(o)}
               full == {x \in recording.calls : x[1] = r.act /\ x[2].type = "network"}
    <2>5. CallsOf(r) = Budget(S) /\ c \in S /\ Distinct(S)
      BY <1>1, <2>2, <2>3, OwnedCallsAreDistinct DEF CallsOf
    <2>6. c \notin Budget(S)
      <3>1. ASSUME c \in CallsOf(r) PROVE FALSE
        <4>1. <<r.act, c>> \in recording.calls
          BY <2>1, <2>4, <3>1
        <4>2. QED
          BY <1>1, <4>1 DEF Kept
      <3>2. QED
        BY <2>5, <3>1
    <2>7. /\ Cardinality(Budget(S)) = MaxCallsPerEvent
          /\ \A x \in Budget(S) : Rank(x) <= Rank(c)
      <3> HIDE DEF S
      <3>1. QED
        BY <2>5, <2>6, BudgetIsFull
    <2>8. full = {r.act} \X Budget(S)
      <3>1. ASSUME NEW x \in full PROVE x \in {r.act} \X Budget(S)
        <4>1. PICK s \in rows : x \in {s.act} \X (CallsOf(s) \cup LinesOf(s))
          BY <2>1
        <4>2. x[1] = s.act /\ x[2] \in CallsOf(s) \cup LinesOf(s) /\ x = <<x[1], x[2]>>
          BY <4>1
        <4>3. s = r
          BY <1>1, <2>4, <4>2 DEF IInv, RowsFit
        <4>4. x[2] \notin LinesOf(s)
          BY DEF LinesOf
        <4>5. x[2] \in CallsOf(r)
          BY <4>2, <4>3, <4>4
        <4>6. QED
          BY <2>5, <4>2, <4>3, <4>5
      <3>2. ASSUME NEW y \in Budget(S) PROVE <<r.act, y>> \in full
        <4>1. y \in CallsOf(r) /\ y.type = "network"
          BY <2>5 DEF Budget
        <4>2. <<r.act, y>> \in recording.calls
          BY <2>1, <2>4, <4>1
        <4>3. QED
          BY <4>1, <4>2
      <3>3. QED
        BY <3>1, <3>2
    <2>9. IsFiniteSet(Budget(S))
      <3>1. Budget(S) \subseteq S /\ IsFiniteSet(S)
        BY <2>5 DEF Budget, Distinct
      <3>2. QED
        BY <3>1, FS_Subset
    <2> HIDE DEF S, full
    <2>10. Cardinality(full) = MaxCallsPerEvent
      BY <2>7, <2>8, <2>9, PairsCount
    <2>11. \A x \in full : Rank(x[2]) <= Rank(c)
      BY <2>7, <2>8
    <2>12. QED
      BY <2>4, <2>10, <2>11 DEF full
  <1>2. IInv => AnsweredCallsAreKept
    BY <1>1 DEF AnsweredCallsAreKept, Superseded
  <1>3. QED
    BY <1>2, CaptureInvariant, PTL

================================================================================
