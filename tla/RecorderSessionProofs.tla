------------------------- MODULE RecorderSessionProofs -------------------------
(* What is true of recorded sessions for any number of tabs, actions,      *)
(* starts, stops, loads and evictions.                                     *)
EXTENDS RecorderSession, FiniteSetTheorems, TLAPS

(***************************************************************************)
(* The inductive invariant.                                                *)
(***************************************************************************)

\* The actions whose event has a number.
Stored == {a \in Actions : life[a] \in {"stored", "shot", "merging", "done"}}

\* A record of a session, wherever a handler holds one, is of a session that has
\* begun; if it says stopped, Stop had been pressed by the moment it names.
Sound(r) ==
    r # NoSession => /\ r.id <= starts
                     /\ r.stopped => pressed[r.id] <= begun[r.id] + r.stoppedAt
Records ==
    /\ Sound(session) /\ Sound(stopSeen)
    /\ \A a \in Actions : Sound(seen[a])
    /\ \A n \in Notes : Sound(noteSeen[n])
    /\ \A f \in Frames : Sound(tabSeen[f])

\* What a handler that is under way has at hand.
UnderWay ==
    /\ \A a \in Actions : life[a] \in Handled => seen[a] # NoSession
    /\ \A n \in Notes : note[n] = "read" => noteSeen[n] # NoSession
    /\ starter # "idle" => target \in Frames /\ stopper = "idle"
    /\ starter \in {"events", "shots", "meta", "begin"} => starts < MaxSessions
    /\ starter = "tell" => starts > 0
    /\ stopper = "asked" => session # NoSession
    /\ stopper = "telling" => stopSeen # NoSession
    /\ stopper # "telling" => untold = {}

\* Stop was pressed before it was obeyed.
Obeyed ==
    /\ stopper # "idle" => \A s \in 1..starts : pressed[s] <= clock
    /\ stopSeen # NoSession => pressed[stopSeen.id] <= clock

\* Nothing has a time in the future, or a session to come.
Unmade == {"none", "typed", "unflushed"}
Past ==
    /\ \A s \in 1..starts : begun[s] <= clock
    /\ \A f \in Frames : zero[f] <= starts /\ joining[f] <= starts /\ (rec[f] => zero[f] # 0)
    /\ \A a \in Actions : /\ made[a] <= starts
                          /\ life[a] \notin Unmade => made[a] # 0 /\ Moment(a) <= clock
                          /\ life[a] = "typed" => frame[a] \in Frames
    /\ starts = 0 => \A a \in Actions : life[a] = "none"

\* A frame that has been told to stop has no window open for an action that came
\* before the Stop.
Drained ==
    \A a \in Actions :
        /\ stopSeen # NoSession /\ made[a] = stopSeen.id
        /\ frame[a] \in stopSeen.tabs \ untold /\ life[a] = "settling"
        => Moment(a) >= pressed[made[a]]

\* In the first session, the number of an event is below the worker's next one, or
\* the worker was evicted since, and whatever comes in now happened later.
Coming == {"settling", "sent", "read"}
Numbered ==
    starts <= 1 =>
        \A a \in Stored : \/ number[a] < order
                          \/ /\ at[a] + begun[1] < clock
                             /\ \A b \in Actions : life[b] \in Coming => at[a] < at[b]
Distinct ==
    starts <= 1 => \A a, b \in Stored : at[a] = at[b] /\ number[a] = number[b] => a = b
Kept ==
    starts = 1 /\ starter \in {"idle", "tell"} =>
        \A a \in Stored : \E x \in rows : x.act = a /\ x.at = at[a] /\ x.order = number[a]

IInv ==
    /\ TypeOK /\ order <= Cardinality(Stored)
    /\ Records /\ UnderWay /\ Obeyed /\ Past
    /\ Drained /\ Numbered /\ Distinct /\ Kept

-----------------------------------------------------------------------------
USE RecorderAssumption
USE DEF storeVars, workerVars, ingestVars, noteVars, startVars, stopVars, frameVars, actionVars,
        pageVars, worldVars, Go, Handled, Gone, Unmade, Coming

\* What is made of the constants alone.
LEMMA Constants ==
  /\ Sessions' = Sessions /\ Times' = Times /\ Orders' = Orders /\ Rows' = Rows /\ Lives' = Lives
  /\ SessionRecords' = SessionRecords /\ MaybeSession' = MaybeSession /\ NoSession' = NoSession
  /\ Cardinality(Actions) \in Nat
  <1>1. Cardinality(Actions) \in Nat
    BY FS_CardinalityType
  <1>2. QED
    BY <1>1 DEF Sessions, Times, Orders, Rows, Lives, SessionRecords, MaybeSession, NoSession

\* A session record is none that is not there, and has its fields.
LEMMA ARecord ==
  /\ NoSession \in MaybeSession /\ SessionRecords \subseteq MaybeSession
  /\ \A r \in MaybeSession : r # NoSession => r \in SessionRecords
  /\ \A r \in SessionRecords :
        /\ r # NoSession /\ r.id \in Sessions /\ r.tabs \in SUBSET Frames
        /\ r.stopped \in BOOLEAN /\ r.stoppedAt \in Times
  BY DEF MaybeSession, SessionRecords, NoSession, Sessions

\* What a handler writes back says of the stop what the record it read said.
LEMMA Rewritten ==
  ASSUME NEW r \in SessionRecords, NEW a \in Actions, NEW n \in Notes, NEW f \in Frames,
         NEW t \in {[r EXCEPT !.merged = @ \cup {a}], [r EXCEPT !.notes = @ \cup {n}],
                    [r EXCEPT !.tabs = @ \cup {f}]}
  PROVE  t \in SessionRecords /\ t.id = r.id /\ t.stopped = r.stopped /\ t.stoppedAt = r.stoppedAt
  BY DEF SessionRecords

LEMMA StoredIsFinite ==
  /\ Stored \subseteq Actions /\ IsFiniteSet(Stored) /\ Cardinality(Stored) \in Nat
  /\ Cardinality(Stored) <= Cardinality(Actions)
  <1>1. Stored \subseteq Actions
    BY DEF Stored
  <1>2. QED BY <1>1, FS_Subset, FS_CardinalityType

-----------------------------------------------------------------------------
\* What keeps the parts of the invariant.

LEMMA RecordsStay ==
  ASSUME Records, UNCHANGED <<session, stopSeen, seen, noteSeen, tabSeen, starts, pressed, begun>>
  PROVE  Records'
  BY Constants DEF Records, Sound

LEMMA UnderWayStays ==
  ASSUME UnderWay, UNCHANGED <<life, seen, note, noteSeen, starter, target, stopper, starts,
                               session, stopSeen, untold>>
  PROVE  UnderWay'
  BY Constants DEF UnderWay

LEMMA ObeyedStays ==
  ASSUME Obeyed, UNCHANGED <<stopper, stopSeen, starts, pressed, clock>>
  PROVE  Obeyed'
  BY Constants DEF Obeyed

LEMMA PastStays ==
  ASSUME Past, UNCHANGED <<begun, clock, starts, zero, joining, rec, made, life, at, frame>>
  PROVE  Past'
  BY DEF Past, Moment

LEMMA DrainedStays ==
  ASSUME Drained, UNCHANGED <<stopSeen, untold, made, frame, life, at, begun, pressed>>
  PROVE  Drained'
  BY Constants DEF Drained, Moment

\* The order of what is stored.
Ordered == order <= Cardinality(Stored) /\ Numbered /\ Distinct

LEMMA OrderStays ==
  ASSUME Ordered, UNCHANGED <<life, number, order, at, begun, clock, starts>>
  PROVE  Ordered'
  <1>1. Stored' = Stored
    BY DEF Stored
  <1>2. QED BY <1>1 DEF Ordered, Numbered, Distinct

LEMMA KeptStays ==
  ASSUME Kept, UNCHANGED <<life, number, at, rows, starts, starter>>
  PROVE  Kept'
  BY DEF Kept, Stored

\* An action that has been made goes on, on its way to the store or not.
LEMMA ActionMoves ==
  ASSUME TypeOK, Past, Drained, NEW a \in Actions,
         NEW to \in Lives \ {"none", "typed", "unflushed", "settling"},
         life[a] \notin Unmade, life' = [life EXCEPT ![a] = to],
         UNCHANGED <<begun, clock, starts, zero, joining, rec, made, at, frame,
                     stopSeen, untold, pressed>>
  PROVE  Past' /\ Drained'
  <1>1. Past'
    BY DEF TypeOK, Past, Moment
  <1>2. Drained'
    BY Constants DEF TypeOK, Drained, Moment
  <1>3. QED BY <1>1, <1>2

\* What is not stored yet, and is not on its way there all of a sudden, does not
\* change what is.
LEMMA StoreRests ==
  ASSUME TypeOK, Ordered, Kept, Stored' = Stored, UNCHANGED <<number, order, starts, starter, rows, begun>>,
         clock' >= clock, clock' \in Times, clock \in Times,
         at' \in [Actions -> Times],
         \A b \in Stored : at'[b] = at[b],
         \A b \in Actions : life'[b] \in Coming =>
             \/ life[b] \in Coming /\ at'[b] = at[b]
             \/ starts <= 1 => at'[b] + begun[1] >= clock
  PROVE  Ordered' /\ Kept'
  <1>1. begun[1] \in Nat
    BY DEF TypeOK, Sessions, Times
  <1>2. \A b \in Actions : at[b] \in Nat /\ at'[b] \in Nat
    BY DEF TypeOK, Times
  <1>3. Stored \subseteq Actions
    BY DEF Stored
  <1>4. Kept'
    BY <1>3 DEF Kept
  <1>5. Distinct' /\ order' <= Cardinality(Stored')
    BY <1>3 DEF Ordered, Distinct
  <1>6. Numbered'
    <2> SUFFICES ASSUME starts <= 1, NEW b \in Stored, ~(number[b] < order)
                 PROVE  /\ at[b] + begun[1] < clock'
                        /\ \A c \in Actions : life'[c] \in Coming => at[b] < at'[c]
      BY DEF Numbered
    <2>1. at[b] + begun[1] < clock /\ \A c \in Actions : life[c] \in Coming => at[b] < at[c]
      BY DEF Ordered, Numbered
    <2>2. at[b] + begun[1] < clock'
      BY <1>1, <1>2, <1>3, <2>1 DEF Times
    <2>3. ASSUME NEW c \in Actions, life'[c] \in Coming PROVE at[b] < at'[c]
      <3>1. CASE life[c] \in Coming /\ at'[c] = at[c]
        BY <2>1, <3>1
      <3>2. CASE at'[c] + begun[1] >= clock
        <4>1. at[b] + begun[1] < at'[c] + begun[1]
          BY <1>1, <1>2, <1>3, <2>1, <3>2 DEF Times
        <4>2. QED BY <1>1, <1>2, <1>3, <4>1
      <3>3. QED BY <2>3, <3>1, <3>2
    <2>4. QED BY <2>2, <2>3
  <1>7. QED BY <1>4, <1>5, <1>6 DEF Ordered

-----------------------------------------------------------------------------
(***************************************************************************)
(* The content script keeps the invariant.                                 *)
(***************************************************************************)

LEMMA InitIsFine == Init => IInv
  <1> SUFFICES ASSUME Init PROVE IInv
    OBVIOUS
  <1> USE DEF Init
  <1>1. TypeOK
    BY Constants, ARecord DEF TypeOK, Sessions, Times, Orders, Lives
  <1>2. order <= Cardinality(Stored)
    BY StoredIsFinite
  <1>3. Records /\ UnderWay /\ Obeyed /\ Past /\ Drained
    BY ARecord DEF Records, Sound, UnderWay, Obeyed, Past, Drained
  <1>4. Stored = {}
    BY DEF Stored
  <1>5. Numbered /\ Distinct /\ Kept
    BY <1>4 DEF Numbered, Distinct, Kept
  <1>6. QED BY <1>1, <1>2, <1>3, <1>5 DEF IInv

LEMMA TypeKeepsIInv == ASSUME IInv, NEW a \in Actions, NEW f \in Frames, Type(a, f) PROVE IInv'
  <1> USE DEF Type
  <1> TypeOK /\ Past
    BY DEF IInv
  <1>1. TypeOK'
    BY Constants DEF TypeOK, Lives
  <1>2. Records' /\ Obeyed'
    BY RecordsStay, ObeyedStays DEF IInv
  <1>3. UnderWay'
    BY Constants DEF IInv, TypeOK, UnderWay
  <1>4. Past'
    BY DEF TypeOK, Past, Moment
  <1>5. Drained'
    BY Constants DEF IInv, TypeOK, Drained, Moment
  <1>6. Stored' = Stored
    BY DEF TypeOK, Stored
  <1>7. Ordered' /\ Kept'
    BY <1>1, <1>6, StoreRests DEF IInv, Ordered, TypeOK, Times
  <1>8. QED BY <1>1, <1>2, <1>3, <1>4, <1>5, <1>7 DEF IInv, Ordered

\* The moment of an action is not before that of any press of Stop so far.
LEMMA BeginKeepsIInv ==
  ASSUME IInv, NEW a \in Actions, NEW f \in Frames, Begin(a, f), rec[f],
         life[a] \in {"none", "typed"}, frame' = [frame EXCEPT ![a] = f]
  PROVE  IInv'
  <1> TypeOK /\ Past
    BY DEF IInv
  <1>1. PICK now \in {clock, clock + 1} \cap Times :
            /\ clock' = now
            /\ life' = [Cut(f) EXCEPT ![a] = "settling"]
            /\ at' = [at EXCEPT ![a] = now - begun[zero[f]]]
            /\ made' = [made EXCEPT ![a] = zero[f]]
    BY DEF Begin
  <1>2. /\ UNCHANGED <<storeVars, workerVars, ingestVars, noteVars, tabSeen, startVars, stopVars,
                       frameVars, pageVars, covered, begun, starts, stops, loads, evictions, pressed>>
    BY DEF Begin
  <1>3. /\ clock \in Nat /\ now \in Nat /\ clock <= now /\ now <= MaxClock /\ MaxClock \in Nat
        /\ starts \in Nat /\ zero[f] \in 1..starts /\ zero[f] \in Sessions
        /\ begun[zero[f]] \in Nat /\ begun[zero[f]] <= clock
    BY DEF TypeOK, Times, Sessions, Past
  <1>4. \A b \in Actions : /\ b # a /\ life'[b] # life[b] => life[b] = "settling" /\ frame[b] = f
                                                            /\ life'[b] = "sent"
                           /\ b # a /\ life[b] = "settling" /\ frame[b] = f => life'[b] = "sent"
                           /\ b # a => at'[b] = at[b] /\ made'[b] = made[b] /\ frame'[b] = frame[b]
    BY <1>1 DEF Cut, TypeOK
  <1>5. /\ life'[a] = "settling" /\ made'[a] = zero[f] /\ at'[a] = now - begun[zero[f]]
        /\ frame'[a] = f /\ at'[a] + begun[zero[f]] = now
    BY <1>1, <1>3 DEF TypeOK, Cut
  <1>6. TypeOK'
    <2>1. life' \in [Actions -> Lives]
      BY <1>1 DEF TypeOK, Cut, Lives
    <2>2. at' \in [Actions -> Times]
      BY <1>1, <1>3 DEF TypeOK, Times
    <2>3. made' \in [Actions -> 0..MaxSessions]
      BY <1>1, <1>3 DEF TypeOK
    <2>4. frame' \in [Actions -> Frames \cup {NoFrame}] /\ clock' \in Times
      BY <1>1 DEF TypeOK
    <2>5. QED BY <1>2, <2>1, <2>2, <2>3, <2>4, Constants DEF TypeOK
  <1>7. Records'
    BY <1>2, RecordsStay DEF IInv
  <1>8. UnderWay'
    BY <1>2, <1>4, <1>5, Constants DEF IInv, UnderWay
  <1>9. Obeyed'
    <2>1. \A s \in Sessions : pressed[s] \in Nat
      BY DEF TypeOK, Times
    <2>2. stopSeen # NoSession => stopSeen.id \in Sessions
      BY ARecord DEF TypeOK
    <2>3. 1..starts \subseteq Sessions
      BY DEF TypeOK, Sessions
    <2>4. QED BY <1>1, <1>2, <1>3, <2>1, <2>2, <2>3, Constants DEF IInv, Obeyed
  <1>10. Past'
    <2>1. \A s \in 1..starts : begun[s] \in Nat
      BY DEF TypeOK, Times, Sessions
    <2>2. \A b \in Actions : made[b] # 0 => at[b] \in Nat /\ begun[made[b]] \in Nat
      BY DEF TypeOK, Times, Sessions
    <2>3. \A s \in 1..starts' : begun'[s] <= clock'
      BY <1>1, <1>2, <1>3, <2>1 DEF Past
    <2>4. ASSUME NEW b \in Actions
          PROVE  /\ made'[b] <= starts'
                 /\ life'[b] \notin Unmade => made'[b] # 0 /\ Moment(b)' <= clock'
                 /\ life'[b] = "typed" => frame'[b] \in Frames
      <3>1. CASE b = a
        BY <1>1, <1>2, <1>3, <1>5, <3>1 DEF Moment
      <3>2. CASE b # a
        <4>1. life'[b] \notin Unmade => life[b] \notin Unmade
          BY <1>4, <3>2
        <4>2. Moment(b)' = Moment(b)
          BY <1>2, <1>4, <3>2 DEF Moment
        <4>3. QED BY <1>1, <1>2, <1>3, <1>4, <2>2, <3>2, <4>1, <4>2 DEF Past, Moment
      <3>3. QED BY <3>1, <3>2
    <2>5. QED BY <1>2, <1>3, <2>3, <2>4 DEF Past
  <1>11. Drained'
    <2> SUFFICES ASSUME NEW b \in Actions, stopSeen # NoSession, made'[b] = stopSeen.id,
                        frame'[b] \in stopSeen.tabs \ untold, life'[b] = "settling"
                 PROVE  Moment(b)' >= pressed[made'[b]]
      BY <1>2, Constants DEF Drained
    <2>1. CASE b = a
      <3>1. Moment(a)' = now
        BY <1>2, <1>5 DEF Moment
      <3>2. pressed[stopSeen.id] <= clock
        BY DEF IInv, Obeyed
      <3>3. pressed[stopSeen.id] \in Nat
        BY ARecord DEF TypeOK, Times
      <3>4. QED BY <1>3, <2>1, <3>1, <3>2, <3>3
    <2>2. CASE b # a
      <3>1. Moment(b)' = Moment(b) /\ life[b] = "settling"
        BY <1>2, <1>4, <2>2 DEF Moment
      <3>2. QED BY <1>4, <2>2, <3>1 DEF IInv, Drained
    <2>3. QED BY <2>1, <2>2
  <1>12. Stored' = Stored
    BY <1>4, <1>5 DEF Stored
  <1>13. \A b \in Stored : at'[b] = at[b]
    BY <1>4 DEF Stored
  <1>14. \A b \in Actions : life'[b] \in Coming =>
             \/ life[b] \in Coming /\ at'[b] = at[b]
             \/ starts <= 1 => at'[b] + begun[1] >= clock
    <2>1. starts <= 1 => zero[f] = 1
      BY <1>3
    <2>2. QED BY <1>3, <1>4, <1>5, <2>1
  <1>15. Ordered' /\ Kept'
    BY <1>1, <1>2, <1>3, <1>6, <1>12, <1>13, <1>14, StoreRests DEF IInv, Ordered, TypeOK
  <1>16. QED BY <1>6, <1>7, <1>8, <1>9, <1>10, <1>11, <1>15 DEF IInv, Ordered

LEMMA ActKeepsIInv == ASSUME IInv, NEW a \in Actions, NEW f \in Frames, Act(a, f) PROVE IInv'
  BY BeginKeepsIInv DEF Act

LEMMA CommitKeepsIInv == ASSUME IInv, NEW a \in Actions, Commit(a) PROVE IInv'
  <1>1. life[a] = "typed" /\ rec[frame[a]] /\ Begin(a, frame[a]) /\ frame' = frame
    BY DEF Commit
  <1>2. frame[a] \in Frames /\ frame' = [frame EXCEPT ![a] = frame[a]]
    BY <1>1 DEF IInv, Past, TypeOK
  <1>3. QED BY <1>1, <1>2, BeginKeepsIInv

LEMMA SettleDownKeepsIInv == ASSUME IInv, NEW a \in Actions, SettleDown(a) PROVE IInv'
  <1> USE DEF SettleDown
  <1> TypeOK /\ Past /\ Drained
    BY DEF IInv
  <1>1. TypeOK'
    BY Constants DEF TypeOK, Lives
  <1>2. Records' /\ Obeyed'
    BY RecordsStay, ObeyedStays DEF IInv
  <1>3. UnderWay'
    BY Constants DEF IInv, TypeOK, UnderWay
  <1>4. Past' /\ Drained'
    BY ActionMoves DEF Lives
  <1>5. Stored' = Stored
    BY DEF TypeOK, Stored
  <1>6. Ordered' /\ Kept'
    BY <1>1, <1>5, StoreRests DEF IInv, Ordered, TypeOK, Times
  <1>7. QED BY <1>1, <1>2, <1>3, <1>4, <1>6 DEF IInv, Ordered

LEMMA LoadKeepsIInv == ASSUME IInv, NEW f \in Frames, Load(f) PROVE IInv'
  <1> USE DEF Load
  <1> TypeOK /\ Past
    BY DEF IInv
  <1>1. joining' \in [Frames -> 0..MaxSessions] /\ \A g \in Frames : joining'[g] <= starts
    <2>1. Live(session) => session.id \in Sessions /\ session.id <= starts
      BY ARecord DEF IInv, TypeOK, Records, Sound, Live
    <2>2. \A g \in Frames : joining[g] <= starts
      BY DEF Past
    <2>3. 0 <= starts
      BY DEF TypeOK
    <2>4. joining' = [joining EXCEPT ![f] = IF Live(session) THEN session.id ELSE 0]
      OBVIOUS
    <2>5. joining \in [Frames -> 0..MaxSessions]
      BY DEF TypeOK
    <2>6. Sessions \subseteq 0..MaxSessions
      BY DEF Sessions
    <2>7. QED BY <2>1, <2>2, <2>3, <2>4, <2>5, <2>6
  <1>2. \A a \in Actions : /\ life'[a] \in {life[a], "unflushed", "unloaded"}
                           /\ life'[a] = "unloaded" => life[a] = "settling" \/ life[a] = "unloaded"
                           /\ life'[a] = "unflushed" => life[a] = "typed" \/ life[a] = "unflushed"
    OBVIOUS
  <1>3. TypeOK'
    <2>1. life' \in [Actions -> Lives]
      BY DEF TypeOK, Lives
    <2>2. rec' \in [Frames -> BOOLEAN] /\ zero' \in [Frames -> 0..MaxSessions] /\ loads' \in 0..MaxLoads
      BY DEF TypeOK
    <2>3. QED BY <1>1, <2>1, <2>2, Constants DEF TypeOK
  <1>4. Records' /\ Obeyed'
    BY RecordsStay, ObeyedStays DEF IInv
  <1>5. UnderWay'
    BY <1>2, Constants DEF IInv, UnderWay
  <1>6. Past'
    <2>1. \A g \in Frames : zero'[g] <= starts /\ (rec'[g] => zero'[g] # 0)
      BY DEF TypeOK, Past
    <2>2. \A a \in Actions : Moment(a)' = Moment(a)
      BY DEF Moment
    <2>3. starts = 0 => \A a \in Actions : life'[a] = "none"
      BY DEF Past
    <2>4. QED BY <1>1, <1>2, <2>1, <2>2, <2>3 DEF Past
  <1>7. Drained'
    BY <1>2, Constants DEF IInv, Drained, Moment
  <1>8. Stored' = Stored
    BY DEF Stored
  <1>9. Ordered' /\ Kept'
    BY <1>2, <1>3, <1>8, StoreRests DEF IInv, Ordered, TypeOK, Times
  <1>10. QED BY <1>3, <1>4, <1>5, <1>6, <1>7, <1>9 DEF IInv, Ordered

LEMMA JoinKeepsIInv == ASSUME IInv, NEW f \in Frames, Join(f) PROVE IInv'
  <1> USE DEF Join
  <1>1. TypeOK'
    BY Constants DEF IInv, TypeOK
  <1>2. Records' /\ Obeyed' /\ UnderWay' /\ Drained'
    BY RecordsStay, ObeyedStays, UnderWayStays, DrainedStays DEF IInv
  <1>3. Past'
    BY DEF IInv, TypeOK, Past, Moment
  <1>4. Ordered' /\ Kept'
    BY OrderStays, KeptStays DEF IInv, Ordered
  <1>5. QED BY <1>1, <1>2, <1>3, <1>4 DEF IInv, Ordered

-----------------------------------------------------------------------------
(***************************************************************************)
(* The worker's ingest keeps it.                                           *)
(***************************************************************************)

\* An event that is refused, accepted, photographed or not: nothing is stored or
\* numbered.
LEMMA IngestRests ==
  ASSUME IInv, NEW a \in Actions, NEW from, NEW to \in Lives, Go(a, from, to), IngestOnly,
         from \in {"sent", "stored"}, from = "sent" => to \in {"orphaned", "refused", "read"},
         from = "stored" => to \in {"shot", "merging"},
         UNCHANGED <<session, rows, order, number>>
  PROVE  Past' /\ Drained' /\ Ordered' /\ Kept' /\ Obeyed'
  <1> USE DEF IngestOnly
  <1> TypeOK /\ Past /\ Drained
    BY DEF IInv
  <1>1. Past' /\ Drained'
    BY ActionMoves
  <1>2. Stored' = Stored
    BY DEF TypeOK, Stored
  <1>3. Ordered' /\ Kept'
    BY <1>2, StoreRests DEF IInv, Ordered, TypeOK, Times
  <1>4. Obeyed'
    BY ObeyedStays DEF IInv
  <1>5. QED BY <1>1, <1>3, <1>4

LEMMA OrphanKeepsIInv == ASSUME IInv, NEW a \in Actions, Orphan(a) PROVE IInv'
  <1> USE DEF Orphan, IngestOnly
  <1>1. TypeOK'
    BY Constants DEF IInv, TypeOK, Lives
  <1>2. Records'
    BY RecordsStay DEF IInv
  <1>3. UnderWay'
    BY Constants DEF IInv, TypeOK, UnderWay
  <1>4. Past' /\ Drained' /\ Ordered' /\ Kept' /\ Obeyed'
    BY IngestRests DEF Lives
  <1>5. QED BY <1>1, <1>2, <1>3, <1>4 DEF IInv, Ordered

LEMMA RefuseKeepsIInv == ASSUME IInv, NEW a \in Actions, Refuse(a) PROVE IInv'
  <1> USE DEF Refuse, IngestOnly
  <1>1. TypeOK'
    BY Constants DEF IInv, TypeOK, Lives
  <1>2. Records'
    BY RecordsStay DEF IInv
  <1>3. UnderWay'
    BY Constants DEF IInv, TypeOK, UnderWay
  <1>4. Past' /\ Drained' /\ Ordered' /\ Kept' /\ Obeyed'
    BY IngestRests DEF Lives
  <1>5. QED BY <1>1, <1>2, <1>3, <1>4 DEF IInv, Ordered

LEMMA AcceptKeepsIInv == ASSUME IInv, NEW a \in Actions, Accept(a) PROVE IInv'
  <1> USE DEF Accept, IngestOnly
  <1>1. TypeOK'
    BY Constants DEF IInv, TypeOK, Lives
  <1>2. Records'
    BY Constants DEF IInv, TypeOK, Records, Sound
  <1>3. UnderWay'
    BY Constants DEF IInv, TypeOK, UnderWay
  <1>4. Past' /\ Drained' /\ Ordered' /\ Kept' /\ Obeyed'
    BY IngestRests DEF Lives
  <1>5. QED BY <1>1, <1>2, <1>3, <1>4 DEF IInv, Ordered

LEMMA TakeShotKeepsIInv == ASSUME IInv, NEW a \in Actions, TakeShot(a) PROVE IInv'
  <1> USE DEF TakeShot, IngestOnly
  <1>1. TypeOK'
    BY Constants DEF IInv, TypeOK, Lives
  <1>2. Records'
    BY RecordsStay DEF IInv
  <1>3. UnderWay'
    BY Constants DEF IInv, TypeOK, UnderWay
  <1>4. Past' /\ Drained' /\ Ordered' /\ Kept' /\ Obeyed'
    BY IngestRests DEF Lives
  <1>5. QED BY <1>1, <1>2, <1>3, <1>4 DEF IInv, Ordered

LEMMA NoShotKeepsIInv == ASSUME IInv, NEW a \in Actions, NoShot(a) PROVE IInv'
  <1> USE DEF NoShot, IngestOnly
  <1>1. TypeOK'
    BY Constants DEF IInv, TypeOK, Lives
  <1>2. Records'
    BY RecordsStay DEF IInv
  <1>3. UnderWay'
    BY Constants DEF IInv, TypeOK, UnderWay
  <1>4. Past' /\ Drained' /\ Ordered' /\ Kept' /\ Obeyed'
    BY IngestRests DEF Lives
  <1>5. QED BY <1>1, <1>2, <1>3, <1>4 DEF IInv, Ordered

\* An event that is put replaces only what has its time and number.
LEMMA PutLeavesTheOthers ==
  ASSUME NEW row \in Rows, rows \in SUBSET Rows
  PROVE  /\ Put(row) \in SUBSET Rows /\ row \in Put(row)
         /\ \A x \in rows : x.at # row.at \/ x.order # row.order => x \in Put(row)
  BY DEF Put

\* An event gets a number that no other has at its time.
LEMMA StoreKeepsIInv == ASSUME IInv, NEW a \in Actions, Store(a) PROVE IInv'
  <1> DEFINE row == [at |-> at[a], order |-> order, act |-> a, shot |-> FALSE]
  <1> TypeOK /\ Past /\ Drained
    BY DEF IInv
  <1>1. /\ life[a] = "read" /\ life' = [life EXCEPT ![a] = "stored"]
        /\ number' = [number EXCEPT ![a] = order] /\ order' = order + 1 /\ rows' = Put(row)
        /\ UNCHANGED <<session, shots, seen, noteVars, tabSeen, startVars, stopVars, frameVars,
                       frame, at, made, pageVars, worldVars, listening>>
    BY DEF Store, IngestOnly, NextOrder
  <1> HIDE DEF row
  <1>2. a \notin Stored /\ Stored' = Stored \cup {a}
    BY <1>1 DEF TypeOK, Stored
  <1>3. Cardinality(Stored') = Cardinality(Stored) + 1 /\ Stored' \subseteq Actions
    BY <1>2, StoredIsFinite, FS_AddElement
  <1>4. order \in Nat /\ order + 1 <= Cardinality(Stored') /\ Cardinality(Stored') <= Cardinality(Actions)
        /\ Cardinality(Stored') \in Nat
    <2>1. Cardinality(Stored') <= Cardinality(Actions) /\ Cardinality(Stored') \in Nat
      BY <1>3, StoredIsFinite, FS_Subset, FS_CardinalityType
    <2>2. order \in Nat /\ order <= Cardinality(Stored)
      BY Constants DEF IInv, TypeOK, Orders
    <2>3. QED BY <1>3, <2>1, <2>2, StoredIsFinite
  <1>5. order \in Orders /\ order + 1 \in Orders /\ order < order + 1
    BY <1>4, Constants DEF Orders
  <1>6. row \in Rows /\ row.at = at[a] /\ row.order = order /\ row.act = a
    BY <1>5 DEF row, Rows, TypeOK
  <1>7. TypeOK'
    <2>1. rows' \in SUBSET Rows
      BY <1>1, <1>6, PutLeavesTheOthers DEF TypeOK
    <2>2. life' \in [Actions -> Lives] /\ number' \in [Actions -> Orders] /\ order' \in Orders
      BY <1>1, <1>5 DEF TypeOK, Lives
    <2>3. QED BY <1>1, <2>1, <2>2, Constants DEF TypeOK
  <1>8. Records' /\ Obeyed'
    BY <1>1, RecordsStay, ObeyedStays DEF IInv
  <1>9. UnderWay'
    BY <1>1, Constants DEF IInv, TypeOK, UnderWay
  <1>10. Past' /\ Drained'
    BY <1>1, ActionMoves DEF Lives
  <1>11. number'[a] = order /\ \A b \in Stored : number'[b] = number[b] /\ b \in Actions
    BY <1>1, <1>2 DEF TypeOK, Stored
  <1>12. \A b \in Stored : at[b] \in Nat /\ number[b] \in Nat
    BY Constants DEF TypeOK, Stored, Times, Orders
  <1>13. starts <= 1 => \A b \in Stored : number[b] < order \/ at[b] < at[a]
    BY <1>1 DEF IInv, Numbered
  <1>14. Numbered'
    <2>1. \A b \in Actions : life'[b] \in Coming => life[b] \in Coming
      BY <1>1 DEF TypeOK
    <2>2. \A b \in Stored : number[b] < order => number[b] < order'
      BY <1>1, <1>4, <1>12
    <2>3. QED BY <1>1, <1>2, <1>4, <1>5, <1>11, <2>1, <2>2 DEF IInv, Numbered
  <1>15. Distinct'
    <2>1. starts <= 1 => \A b \in Stored : at[b] # at[a] \/ number[b] # order
      BY <1>4, <1>12, <1>13, TypeOK DEF TypeOK, Times
    <2>2. QED BY <1>1, <1>2, <1>11, <2>1 DEF IInv, Distinct
  <1>16. Kept'
    <2> SUFFICES ASSUME starts = 1, starter \in {"idle", "tell"}, NEW b \in Stored'
                 PROVE  \E x \in rows' : x.act = b /\ x.at = at[b] /\ x.order = number'[b]
      BY <1>1 DEF Kept
    <2>1. CASE b = a
      BY <1>1, <1>6, <1>11, <2>1, PutLeavesTheOthers DEF TypeOK
    <2>2. CASE b \in Stored
      <3>1. PICK x \in rows : x.act = b /\ x.at = at[b] /\ x.order = number[b]
        BY <2>2 DEF IInv, Kept
      <3>2. number[b] < order \/ at[b] < at[a]
        BY <1>13, <2>2
      <3>3. x.at # row.at \/ x.order # row.order
        BY <1>4, <1>6, <1>12, <2>2, <3>1, <3>2 DEF TypeOK, Times
      <3>4. x \in rows'
        BY <1>1, <1>6, <3>3, PutLeavesTheOthers DEF TypeOK
      <3>5. QED BY <1>11, <2>2, <3>1, <3>4
    <2>3. QED BY <1>2, <2>1, <2>2
  <1>17. order' <= Cardinality(Stored')
    BY <1>1, <1>4
  <1>18. QED BY <1>7, <1>8, <1>9, <1>10, <1>14, <1>15, <1>16, <1>17 DEF IInv

LEMMA PutShotKeepsIInv == ASSUME IInv, NEW a \in Actions, PutShot(a) PROVE IInv'
  <1> DEFINE row == [at |-> at[a], order |-> number[a], act |-> a, shot |-> TRUE]
  <1> TypeOK /\ Past /\ Drained
    BY DEF IInv
  <1>1. /\ life[a] = "shot" /\ life' = [life EXCEPT ![a] = "merging"] /\ rows' = Put(row)
        /\ UNCHANGED <<session, shots, order, ingestVars, noteVars, tabSeen, startVars, stopVars,
                       frameVars, frame, at, made, pageVars, worldVars, listening>>
    BY DEF PutShot, IngestOnly
  <1> HIDE DEF row
  <1>2. a \in Stored /\ Stored' = Stored
    BY <1>1 DEF TypeOK, Stored
  <1>3. row \in Rows /\ row.at = at[a] /\ row.order = number[a] /\ row.act = a
    BY DEF row, Rows, TypeOK
  <1>4. TypeOK'
    <2>1. rows' \in SUBSET Rows
      BY <1>1, <1>3, PutLeavesTheOthers DEF TypeOK
    <2>2. life' \in [Actions -> Lives]
      BY <1>1 DEF TypeOK, Lives
    <2>3. QED BY <1>1, <2>1, <2>2, Constants DEF TypeOK
  <1>5. Records' /\ Obeyed'
    BY <1>1, RecordsStay, ObeyedStays DEF IInv
  <1>6. UnderWay'
    BY <1>1, Constants DEF IInv, TypeOK, UnderWay
  <1>7. Past' /\ Drained'
    BY <1>1, ActionMoves DEF Lives
  <1>8. order' <= Cardinality(Stored') /\ Numbered' /\ Distinct'
    BY <1>1, <1>2 DEF IInv, TypeOK, Numbered, Distinct
  <1>9. Kept'
    <2> SUFFICES ASSUME starts = 1, starter \in {"idle", "tell"}, NEW b \in Stored
                 PROVE  \E x \in rows' : x.act = b /\ x.at = at[b] /\ x.order = number[b]
      BY <1>1, <1>2 DEF Kept
    <2>1. CASE b = a
      BY <1>1, <1>3, <2>1, PutLeavesTheOthers DEF TypeOK
    <2>2. CASE b # a
      <3>1. PICK x \in rows : x.act = b /\ x.at = at[b] /\ x.order = number[b]
        BY DEF IInv, Kept
      <3>2. at[b] # at[a] \/ number[b] # number[a]
        BY <1>2, <2>2 DEF IInv, Distinct
      <3>3. x \in rows'
        BY <1>1, <1>3, <3>1, <3>2, PutLeavesTheOthers DEF TypeOK
      <3>4. QED BY <3>1, <3>3
    <2>3. QED BY <2>1, <2>2
  <1>10. QED BY <1>4, <1>5, <1>6, <1>7, <1>8, <1>9 DEF IInv

LEMMA MergeKeepsIInv == ASSUME IInv, NEW a \in Actions, Merge(a) PROVE IInv'
  <1> DEFINE back == [seen[a] EXCEPT !.merged = @ \cup {a}]
  <1> TypeOK /\ Past /\ Drained
    BY DEF IInv
  <1>1. /\ life[a] = "merging" /\ life' = [life EXCEPT ![a] = "done"]
        /\ session' = back /\ seen' = [seen EXCEPT ![a] = NoSession]
        /\ UNCHANGED <<rows, shots, order, number, noteVars, tabSeen, startVars, stopVars,
                       frameVars, frame, at, made, pageVars, worldVars, listening>>
    BY DEF Merge, IngestOnly
  <1> HIDE DEF back
  <1>2. seen[a] \in SessionRecords /\ seen[a] # NoSession
    BY <1>1, ARecord DEF IInv, UnderWay, TypeOK
  <1>3. back \in SessionRecords /\ back.id = seen[a].id /\ back.stopped = seen[a].stopped
        /\ back.stoppedAt = seen[a].stoppedAt
    BY <1>2 DEF back, SessionRecords
  <1>4. TypeOK'
    BY <1>1, <1>3, Constants, ARecord DEF TypeOK, Lives
  <1>5. Records'
    BY <1>1, <1>2, <1>3, Constants DEF IInv, TypeOK, Records, Sound
  <1>6. UnderWay'
    BY <1>1, <1>3, ARecord, Constants DEF IInv, TypeOK, UnderWay
  <1>7. Obeyed'
    BY <1>1, ObeyedStays DEF IInv
  <1>8. Past' /\ Drained'
    BY <1>1, ActionMoves DEF Lives
  <1>9. Stored' = Stored
    BY <1>1 DEF TypeOK, Stored
  <1>10. order' <= Cardinality(Stored') /\ Numbered' /\ Distinct' /\ Kept'
    BY <1>1, <1>9 DEF IInv, TypeOK, Numbered, Distinct, Kept
  <1>11. QED BY <1>4, <1>5, <1>6, <1>7, <1>8, <1>10 DEF IInv

-----------------------------------------------------------------------------
(***************************************************************************)
(* Notes and tabs keep it.                                                 *)
(***************************************************************************)

LEMMA ReadForNoteKeepsIInv == ASSUME IInv, NEW n \in Notes, ReadForNote(n) PROVE IInv'
  <1> USE DEF ReadForNote, NoteOnly
  <1>1. TypeOK'
    BY Constants DEF IInv, TypeOK
  <1>2. Records'
    BY Constants DEF IInv, TypeOK, Records, Sound
  <1>3. UnderWay'
    BY Constants DEF IInv, TypeOK, UnderWay
  <1>4. Obeyed' /\ Past' /\ Drained'
    BY ObeyedStays, PastStays, DrainedStays DEF IInv
  <1>5. Ordered' /\ Kept'
    BY OrderStays, KeptStays DEF IInv, Ordered
  <1>6. QED BY <1>1, <1>2, <1>3, <1>4, <1>5 DEF IInv, Ordered

LEMMA WriteNoteKeepsIInv == ASSUME IInv, NEW n \in Notes, WriteNote(n) PROVE IInv'
  <1> DEFINE back == [noteSeen[n] EXCEPT !.notes = @ \cup {n}]
  <1>1. /\ note[n] = "read" /\ note' = [note EXCEPT ![n] = "kept"]
        /\ noteSeen' = [noteSeen EXCEPT ![n] = NoSession] /\ session' = back
        /\ UNCHANGED <<rows, shots, workerVars, ingestVars, tabSeen, startVars, stopVars,
                       frameVars, actionVars, pageVars, worldVars>>
    BY DEF WriteNote, NoteOnly
  <1> HIDE DEF back
  <1>2. noteSeen[n] \in SessionRecords /\ noteSeen[n] # NoSession
    BY <1>1, ARecord DEF IInv, UnderWay, TypeOK
  <1>3. back \in SessionRecords /\ back.id = noteSeen[n].id /\ back.stopped = noteSeen[n].stopped
        /\ back.stoppedAt = noteSeen[n].stoppedAt
    BY <1>2 DEF back, SessionRecords
  <1>4. TypeOK'
    BY <1>1, <1>3, Constants, ARecord DEF IInv, TypeOK
  <1>5. Records'
    BY <1>1, <1>2, <1>3, Constants DEF IInv, TypeOK, Records, Sound
  <1>6. UnderWay'
    BY <1>1, <1>3, ARecord, Constants DEF IInv, TypeOK, UnderWay
  <1>7. Obeyed' /\ Past' /\ Drained'
    BY <1>1, ObeyedStays, PastStays, DrainedStays DEF IInv
  <1>8. Ordered' /\ Kept'
    BY <1>1, OrderStays, KeptStays DEF IInv, Ordered
  <1>9. QED BY <1>4, <1>5, <1>6, <1>7, <1>8 DEF IInv, Ordered

LEMMA TabCreatedKeepsIInv == ASSUME IInv, NEW f \in Frames, TabCreated(f) PROVE IInv'
  <1> USE DEF TabCreated, TabOnly
  <1>1. TypeOK'
    BY Constants DEF IInv, TypeOK
  <1>2. Records'
    BY Constants DEF IInv, TypeOK, Records, Sound
  <1>3. UnderWay' /\ Obeyed' /\ Past' /\ Drained'
    BY UnderWayStays, ObeyedStays, PastStays, DrainedStays DEF IInv
  <1>4. Ordered' /\ Kept'
    BY OrderStays, KeptStays DEF IInv, Ordered
  <1>5. QED BY <1>1, <1>2, <1>3, <1>4 DEF IInv, Ordered

LEMMA AddTabKeepsIInv == ASSUME IInv, NEW f \in Frames, AddTab(f) PROVE IInv'
  <1> DEFINE back == [tabSeen[f] EXCEPT !.tabs = @ \cup {f}]
  <1>1. /\ tabSeen[f] # NoSession /\ session' = back
        /\ tabSeen' = [tabSeen EXCEPT ![f] = NoSession] /\ listening' = listening \cup {f}
        /\ UNCHANGED <<covered, frameVars, rows, shots, order, ingestVars, noteVars, startVars,
                       stopVars, actionVars, pageVars, clock, begun, starts, stops, loads,
                       evictions, pressed>>
    BY DEF AddTab, TabOnly
  <1> HIDE DEF back
  <1>2. tabSeen[f] \in SessionRecords
    BY <1>1, ARecord DEF IInv, TypeOK
  <1>3. back \in SessionRecords /\ back.id = tabSeen[f].id /\ back.stopped = tabSeen[f].stopped
        /\ back.stoppedAt = tabSeen[f].stoppedAt
    BY <1>2 DEF back, SessionRecords
  <1>4. TypeOK'
    BY <1>1, <1>3, Constants, ARecord DEF IInv, TypeOK
  <1>5. Records'
    BY <1>1, <1>2, <1>3, Constants DEF IInv, TypeOK, Records, Sound
  <1>6. UnderWay'
    BY <1>1, <1>3, ARecord, Constants DEF IInv, TypeOK, UnderWay
  <1>7. Obeyed' /\ Past' /\ Drained'
    BY <1>1, ObeyedStays, PastStays, DrainedStays DEF IInv
  <1>8. Ordered' /\ Kept'
    BY <1>1, OrderStays, KeptStays DEF IInv, Ordered
  <1>9. QED BY <1>4, <1>5, <1>6, <1>7, <1>8 DEF IInv, Ordered

LEMMA AnnounceKeepsIInv == ASSUME IInv, NEW f \in Frames, Announce(f) PROVE IInv'
  <1> USE DEF Announce, TabOnly
  <1>1. session.id \in Sessions /\ session.id <= starts /\ session.id \in 0..MaxSessions
    BY ARecord DEF IInv, TypeOK, Records, Sound, Live, Sessions
  <1>2. TypeOK'
    BY <1>1, Constants DEF IInv, TypeOK
  <1>3. Records' /\ UnderWay' /\ Obeyed' /\ Drained'
    BY RecordsStay, UnderWayStays, ObeyedStays, DrainedStays DEF IInv
  <1>4. Past'
    BY <1>1 DEF IInv, TypeOK, Past, Moment
  <1>5. Ordered' /\ Kept'
    BY OrderStays, KeptStays DEF IInv, Ordered
  <1>6. QED BY <1>2, <1>3, <1>4, <1>5 DEF IInv, Ordered

-----------------------------------------------------------------------------
(***************************************************************************)
(* Starting keeps it.                                                      *)
(***************************************************************************)

LEMMA AskStartKeepsIInv == ASSUME IInv, NEW f \in Frames, AskStart(f) PROVE IInv'
  <1> USE DEF AskStart, StartOnly
  <1>1. TypeOK'
    BY Constants DEF IInv, TypeOK
  <1>2. Records' /\ Obeyed' /\ Past' /\ Drained'
    BY RecordsStay, ObeyedStays, PastStays, DrainedStays DEF IInv
  <1>3. UnderWay'
    BY Constants DEF IInv, TypeOK, UnderWay
  <1>4. Ordered' /\ Kept'
    BY OrderStays DEF IInv, Ordered, Kept
  <1>5. QED BY <1>1, <1>2, <1>3, <1>4 DEF IInv, Ordered

LEMMA ClearKeepsIInv == ASSUME IInv, Clear PROVE IInv'
  <1>1. /\ starter \in {"events", "shots", "meta"} /\ starter' \in {"shots", "meta", "begin"}
        /\ session' \in {session, NoSession} /\ rows' \in {rows, {}}
        /\ shots' = shots \/ shots' = [n \in Orders |-> NoAction]
        /\ UNCHANGED <<target, order, frameVars, covered, begun, starts, listening, ingestVars,
                       noteVars, tabSeen, stopVars, actionVars, pageVars, clock, stops, loads,
                       evictions, pressed>>
    BY DEF Clear, ClearStore, StartOnly
  <1>2. TypeOK'
    BY <1>1, Constants, ARecord DEF IInv, TypeOK
  <1>3. Records'
    BY <1>1, Constants DEF IInv, Records, Sound
  <1>4. UnderWay'
    BY <1>1, Constants DEF IInv, UnderWay
  <1>5. Obeyed' /\ Past' /\ Drained'
    BY <1>1, ObeyedStays, PastStays, DrainedStays DEF IInv
  <1>6. Ordered' /\ Kept'
    BY <1>1, OrderStays DEF IInv, Ordered, Kept
  <1>7. QED BY <1>2, <1>3, <1>4, <1>5, <1>6 DEF IInv, Ordered

\* A new session is nobody's yet, so that what is known of the old ones stays.
LEMMA BeginSessionKeepsIInv == ASSUME IInv, BeginSession PROVE IInv'
  <1> DEFINE fresh == [id |-> starts + 1, tabs |-> {target}, merged |-> {}, notes |-> {},
                       stopped |-> FALSE, stoppedAt |-> 0]
  <1> TypeOK /\ Past
    BY DEF IInv
  <1>1. /\ starter = "begin" /\ starter' = "tell" /\ starts' = starts + 1 /\ order' = 0
        /\ begun' = [begun EXCEPT ![starts + 1] = clock] /\ covered' = {target}
        /\ session' = fresh
        /\ UNCHANGED <<rows, shots, target, frameVars, listening, ingestVars, noteVars, tabSeen,
                       stopVars, actionVars, pageVars, clock, stops, loads, evictions, pressed>>
    BY DEF BeginSession, StartOnly
  <1> HIDE DEF fresh
  <1>2. starts \in Nat /\ starts + 1 \in Sessions /\ target \in Frames /\ stopper = "idle"
        /\ clock \in Nat
    BY <1>1 DEF IInv, UnderWay, TypeOK, Sessions, Times
  <1>3. fresh \in SessionRecords /\ fresh.id = starts + 1 /\ ~fresh.stopped
    BY <1>2 DEF fresh, SessionRecords, Times
  <1>4. \A s \in Sessions : s <= starts => begun'[s] = begun[s]
    BY <1>1, <1>2 DEF TypeOK, Sessions
  <1>5. \A b \in Actions : Moment(b)' = Moment(b) \/ made[b] = 0
    <2>1. \A b \in Actions : made[b] <= starts /\ made[b] \in 0..MaxSessions
      BY DEF Past, TypeOK
    <2>2. \A b \in Actions : made[b] # 0 => begun'[made[b]] = begun[made[b]]
      BY <1>4, <2>1 DEF Sessions
    <2>3. QED BY <1>1, <2>2 DEF Moment
  <1>6. TypeOK'
    <2>1. begun' \in [Sessions -> Times] /\ starts' \in 0..MaxSessions /\ order' \in Orders
          /\ covered' \in SUBSET Frames
      BY <1>1, <1>2, Constants DEF TypeOK, Sessions, Orders
    <2>2. QED BY <1>1, <1>3, <2>1, Constants, ARecord DEF TypeOK
  <1>7. Records'
    <2>1. ASSUME NEW r \in MaybeSession, Sound(r)
          PROVE  r # NoSession => /\ r.id <= starts'
                                  /\ r.stopped => pressed'[r.id] <= begun'[r.id] + r.stoppedAt
      <3> SUFFICES ASSUME r # NoSession
                   PROVE  r.id <= starts' /\ (r.stopped => pressed'[r.id] <= begun'[r.id] + r.stoppedAt)
        OBVIOUS
      <3>1. r.id \in Sessions /\ r.id <= starts
        BY <2>1, ARecord DEF Sound
      <3>2. QED BY <1>1, <1>2, <1>4, <2>1, <3>1 DEF Sound, Sessions
    <2>2. fresh.id <= starts' /\ ~fresh.stopped
      BY <1>1, <1>2, <1>3
    <2>3. QED BY <1>1, <2>1, <2>2, Constants DEF IInv, TypeOK, Records, Sound
  <1>8. UnderWay'
    BY <1>1, <1>2, Constants DEF IInv, UnderWay
  <1>9. Obeyed'
    BY <1>1, <1>2, Constants DEF IInv, Obeyed
  <1>10. Past'
    <2>1. \A s \in 1..starts' : begun'[s] <= clock'
      <3>1. 1..starts \subseteq Sessions /\ 1..starts' = 1..starts \cup {starts + 1}
        BY <1>1, <1>2 DEF Sessions
      <3>2. begun'[starts + 1] = clock
        BY <1>1, <1>2 DEF TypeOK
      <3>3. QED BY <1>1, <1>2, <1>4, <3>1, <3>2 DEF Past
    <2>2. \A f \in Frames : zero[f] <= starts' /\ joining[f] <= starts'
      BY <1>1, <1>2 DEF TypeOK, Past
    <2>3. \A b \in Actions : /\ made[b] <= starts'
                             /\ life[b] \notin Unmade => made[b] # 0 /\ Moment(b)' <= clock
      BY <1>1, <1>2, <1>5 DEF TypeOK, Past
    <2>4. QED BY <1>1, <1>2, <2>1, <2>2, <2>3 DEF Past
  <1>11. Drained'
    <2> SUFFICES ASSUME NEW b \in Actions, stopSeen # NoSession, made[b] = stopSeen.id,
                        frame[b] \in stopSeen.tabs \ untold, life[b] = "settling"
                 PROVE  Moment(b)' >= pressed[made[b]]
      BY <1>1, Constants DEF Drained
    <2>1. made[b] # 0
      BY ARecord DEF TypeOK, Sessions
    <2>2. QED BY <1>5, <2>1 DEF IInv, Drained
  <1>12. Stored' = Stored
    BY <1>1 DEF Stored
  <1>13. order' <= Cardinality(Stored') /\ Numbered' /\ Distinct' /\ Kept'
    <2>1. starts' <= 1 => Stored = {}
      BY <1>1, <1>2 DEF Past, Stored
    <2>2. QED BY <1>1, <1>2, <1>12, <2>1, StoredIsFinite DEF Numbered, Distinct, Kept
  <1>14. QED BY <1>6, <1>7, <1>8, <1>9, <1>10, <1>11, <1>13 DEF IInv

LEMMA TellStartKeepsIInv == ASSUME IInv, TellStart PROVE IInv'
  <1> USE DEF TellStart, StartOnly
  <1>1. starts > 0 /\ starts \in 0..MaxSessions /\ target \in Frames
    BY DEF IInv, UnderWay, TypeOK
  <1>2. TypeOK'
    BY <1>1, Constants DEF IInv, TypeOK
  <1>3. Records' /\ Obeyed' /\ Drained'
    BY RecordsStay, ObeyedStays, DrainedStays DEF IInv
  <1>4. UnderWay'
    BY Constants DEF IInv, UnderWay
  <1>5. Past'
    BY <1>1 DEF IInv, TypeOK, Past, Moment
  <1>6. Ordered' /\ Kept'
    BY OrderStays DEF IInv, Ordered, Kept, Stored
  <1>7. QED BY <1>2, <1>3, <1>4, <1>5, <1>6 DEF IInv, Ordered

-----------------------------------------------------------------------------
(***************************************************************************)
(* Stopping, eviction and the export page keep it.                         *)
(***************************************************************************)

\* A press of Stop only makes earlier the moment it was first pressed.
LEMMA AskStopKeepsIInv == ASSUME IInv, AskStop PROVE IInv'
  <1> TypeOK /\ Past
    BY DEF IInv
  <1>1. PICK now \in {clock, clock + 1} \cap Times :
            /\ stopper = "idle" /\ starter = "idle" /\ Live(session) /\ stops < MaxStops
            /\ stops' = stops + 1 /\ stopper' = "asked" /\ clock' = now
            /\ pressed' = [s \in Sessions |-> IF s <= starts /\ now < pressed[s] THEN now
                                              ELSE pressed[s]]
    BY DEF AskStop
  <1>2. UNCHANGED <<session, stopSeen, untold, frameVars, life, rows, shots, workerVars, ingestVars,
                    noteVars, tabSeen, startVars, frame, at, made, pageVars, covered, begun, starts,
                    loads, evictions>>
    BY DEF AskStop, StopOnly
  <1>3. clock \in Nat /\ now \in Nat /\ clock <= now /\ MaxClock \in Nat /\ now \in Times
    BY DEF TypeOK, Times
  <1>4. \A s \in Sessions : /\ pressed[s] \in Nat /\ pressed'[s] \in Nat /\ pressed'[s] <= pressed[s]
                            /\ s <= starts => pressed'[s] <= now
    <2>1. \A s \in Sessions : pressed[s] \in Nat
      BY DEF TypeOK, Times
    <2>2. QED BY <1>1, <1>3, <2>1
  <1>5. TypeOK'
    <2>1. pressed' \in [Sessions -> Times \cup {MaxClock + 1}]
      BY <1>1 DEF TypeOK
    <2>2. stops' \in 0..MaxStops
      BY <1>1 DEF TypeOK
    <2>3. QED BY <1>1, <1>2, <2>1, <2>2, Constants DEF TypeOK
  <1>6. Records'
    <2>1. ASSUME NEW r \in MaybeSession, Sound(r)
          PROVE  r # NoSession => /\ r.id <= starts'
                                  /\ r.stopped => pressed'[r.id] <= begun'[r.id] + r.stoppedAt
      <3> SUFFICES ASSUME r # NoSession
                   PROVE  r.id <= starts' /\ (r.stopped => pressed'[r.id] <= begun'[r.id] + r.stoppedAt)
        OBVIOUS
      <3>1. r.id \in Sessions /\ r.id <= starts /\ r.stoppedAt \in Nat
        BY <2>1, ARecord DEF Sound, Times
      <3>2. begun[r.id] \in Nat
        BY <3>1 DEF TypeOK, Times
      <3>3. QED BY <1>2, <1>4, <2>1, <3>1, <3>2 DEF Sound
    <2>2. QED BY <1>2, <2>1, Constants DEF IInv, TypeOK, Records, Sound
  <1>7. UnderWay'
    BY <1>1, <1>2, Constants DEF IInv, UnderWay, Live
  <1>8. Obeyed'
    <2>1. \A s \in 1..starts' : pressed'[s] <= clock'
      BY <1>1, <1>2, <1>4 DEF TypeOK, Sessions
    <2>2. stopSeen' # NoSession => pressed'[stopSeen'.id] <= clock'
      <3>1. stopSeen # NoSession => stopSeen.id \in Sessions /\ pressed[stopSeen.id] <= clock
        BY ARecord DEF IInv, TypeOK, Obeyed
      <3>2. QED BY <1>1, <1>2, <1>3, <1>4, <3>1
    <2>3. QED BY <2>1, <2>2, Constants DEF Obeyed
  <1>9. Past'
    <2>1. \A s \in 1..starts : begun[s] \in Nat
      BY DEF TypeOK, Times, Sessions
    <2>2. \A b \in Actions : /\ Moment(b)' = Moment(b)
                             /\ made[b] # 0 => at[b] \in Nat /\ begun[made[b]] \in Nat
      BY <1>2 DEF TypeOK, Times, Sessions, Moment
    <2>3. \A s \in 1..starts : begun[s] <= clock'
      BY <1>1, <1>3, <2>1 DEF Past
    <2>4. \A b \in Actions : life[b] \notin Unmade => Moment(b)' <= clock'
      BY <1>1, <1>3, <2>2 DEF Past, Moment
    <2>5. QED BY <1>2, <2>3, <2>4 DEF Past
  <1>10. Drained'
    <2> SUFFICES ASSUME NEW b \in Actions, stopSeen # NoSession, made[b] = stopSeen.id,
                        frame[b] \in stopSeen.tabs \ untold, life[b] = "settling"
                 PROVE  Moment(b)' >= pressed'[made[b]]
      BY <1>2, Constants DEF Drained
    <2>1. made[b] \in Sessions /\ at[b] \in Nat /\ begun[made[b]] \in Nat
      BY ARecord DEF TypeOK, Times
    <2>2. Moment(b)' = Moment(b) /\ Moment(b) >= pressed[made[b]] /\ Moment(b) \in Nat
      BY <1>2, <2>1 DEF IInv, Drained, Moment
    <2>3. QED BY <1>4, <2>1, <2>2
  <1>11. Stored' = Stored
    BY <1>2 DEF Stored
  <1>12. Ordered' /\ Kept'
    BY <1>1, <1>2, <1>3, <1>5, <1>11, StoreRests DEF IInv, Ordered, TypeOK
  <1>13. QED BY <1>5, <1>6, <1>7, <1>8, <1>9, <1>10, <1>12 DEF IInv, Ordered

LEMMA ReadForStopKeepsIInv == ASSUME IInv, ReadForStop PROVE IInv'
  <1> USE DEF ReadForStop, StopOnly
  <1>1. session \in SessionRecords /\ session.id \in 1..starts
    BY ARecord DEF IInv, TypeOK, UnderWay, Records, Sound, Sessions
  <1>2. TypeOK'
    BY <1>1, ARecord, Constants DEF IInv, TypeOK
  <1>3. Records'
    BY Constants DEF IInv, Records, Sound
  <1>4. UnderWay'
    BY <1>1, ARecord, Constants DEF IInv, UnderWay
  <1>5. Obeyed'
    BY <1>1, Constants DEF IInv, Obeyed
  <1>6. Past'
    BY PastStays DEF IInv
  <1>7. Drained'
    BY Constants DEF Drained
  <1>8. Ordered' /\ Kept'
    BY OrderStays, KeptStays DEF IInv, Ordered
  <1>9. QED BY <1>2, <1>3, <1>4, <1>5, <1>6, <1>7, <1>8 DEF IInv, Ordered

\* A frame that is told has sent what it had, so that its later actions come after
\* the press.
LEMMA HearStopKeepsIInv == ASSUME IInv, NEW f \in Frames, HearStop(f) PROVE IInv'
  <1> TypeOK /\ Past
    BY DEF IInv
  <1>1. /\ stopper = "telling" /\ f \in untold /\ untold' = untold \ {f}
        /\ rec' = [rec EXCEPT ![f] = FALSE]
        /\ life' = [a \in Actions |-> IF life[a] = "typed" /\ frame[a] = f THEN "unflushed"
                                      ELSE Cut(f)[a]]
        /\ UNCHANGED <<session, stopper, stopSeen, zero, joining, stops, pressed, clock, rows, shots,
                       workerVars, ingestVars, noteVars, tabSeen, startVars, frame, at, made,
                       pageVars, covered, begun, starts, loads, evictions>>
    BY DEF HearStop, StopOnly
  <1>2. \A a \in Actions :
           /\ life'[a] # life[a] => \/ life[a] = "typed" /\ life'[a] = "unflushed"
                                    \/ life[a] = "settling" /\ life'[a] = "sent"
           /\ life'[a] = "settling" => frame[a] # f
    BY <1>1 DEF Cut
  <1>3. TypeOK'
    <2>1. life' \in [Actions -> Lives]
      BY <1>1 DEF TypeOK, Lives, Cut
    <2>2. rec' \in [Frames -> BOOLEAN] /\ untold' \in SUBSET Frames
      BY <1>1 DEF TypeOK
    <2>3. QED BY <1>1, <2>1, <2>2, Constants DEF TypeOK
  <1>4. Records' /\ Obeyed'
    BY <1>1, RecordsStay, ObeyedStays DEF IInv
  <1>5. UnderWay'
    BY <1>1, <1>2, Constants DEF IInv, UnderWay
  <1>6. Past'
    <2>1. \A a \in Actions : Moment(a)' = Moment(a)
      BY <1>1 DEF Moment
    <2>2. starts = 0 => \A a \in Actions : life'[a] = "none"
      BY <1>2 DEF Past
    <2>3. \A g \in Frames : rec'[g] => rec[g]
      BY <1>1 DEF TypeOK
    <2>4. QED BY <1>1, <1>2, <2>1, <2>2, <2>3 DEF Past
  <1>7. Drained'
    BY <1>1, <1>2, Constants DEF IInv, Drained, Moment
  <1>8. Stored' = Stored
    BY <1>2 DEF Stored
  <1>9. Ordered' /\ Kept'
    BY <1>1, <1>2, <1>3, <1>8, StoreRests DEF IInv, Ordered, TypeOK, Times
  <1>10. QED BY <1>3, <1>4, <1>5, <1>6, <1>7, <1>9 DEF IInv, Ordered

LEMMA MarkStoppedKeepsIInv == ASSUME IInv, MarkStopped PROVE IInv'
  <1> DEFINE back == [stopSeen EXCEPT !.stopped = TRUE, !.stoppedAt = clock - begun[stopSeen.id]]
  <1> TypeOK /\ Past
    BY DEF IInv
  <1>1. /\ stopper = "telling" /\ untold = {} /\ stopper' = "idle" /\ session' = back
        /\ UNCHANGED <<stopSeen, untold, frameVars, life, stops, pressed, clock, rows, shots,
                       workerVars, ingestVars, noteVars, tabSeen, startVars, frame, at, made,
                       pageVars, covered, begun, starts, loads, evictions>>
    BY DEF MarkStopped, StopOnly
  <1>2. stopSeen \in SessionRecords /\ stopSeen.id \in Sessions /\ stopSeen.id \in 1..starts
    BY <1>1, ARecord DEF IInv, TypeOK, UnderWay, Records, Sound, Sessions
  <1>3. begun[stopSeen.id] \in Nat /\ begun[stopSeen.id] <= clock /\ clock \in Nat
        /\ clock - begun[stopSeen.id] \in Times
    BY <1>2 DEF TypeOK, Times, Past
  <1>4. back \in SessionRecords /\ back.id = stopSeen.id
        /\ back.stoppedAt = clock - begun[stopSeen.id]
    BY <1>2, <1>3 DEF SessionRecords
  <1> HIDE DEF back
  <1>5. pressed[back.id] <= begun[back.id] + back.stoppedAt /\ back.id <= starts
    <2>1. begun[back.id] + back.stoppedAt = clock
      BY <1>3, <1>4
    <2>2. pressed[stopSeen.id] <= clock
      BY <1>2, ARecord DEF IInv, Obeyed
    <2>3. QED BY <1>2, <1>4, <2>1, <2>2
  <1>6. TypeOK'
    BY <1>1, <1>4, Constants, ARecord DEF TypeOK
  <1>7. Records'
    BY <1>1, <1>5, Constants DEF IInv, Records, Sound
  <1>8. UnderWay'
    BY <1>1, Constants DEF IInv, UnderWay
  <1>9. Obeyed'
    BY <1>1, Constants DEF IInv, Obeyed
  <1>10. Past' /\ Drained'
    BY <1>1, PastStays, DrainedStays DEF IInv
  <1>11. Ordered' /\ Kept'
    BY <1>1, OrderStays, KeptStays DEF IInv, Ordered
  <1>12. QED BY <1>6, <1>7, <1>8, <1>9, <1>10, <1>11 DEF IInv, Ordered

\* An evicted worker numbers from 0 again, but half a minute later.
LEMMA EvictKeepsIInv == ASSUME IInv, Evict PROVE IInv'
  <1> TypeOK /\ Past
    BY DEF IInv
  <1>1. /\ evictions < MaxEvictions /\ clock < MaxClock
        /\ \A a \in Actions : life[a] \notin Coming
        /\ stopper = "idle"
        /\ evictions' = evictions + 1 /\ clock' = clock + 1 /\ order' = 0 /\ listening' = {}
        /\ UNCHANGED <<storeVars, ingestVars, noteVars, tabSeen, startVars, stopVars, frameVars,
                       actionVars, pageVars, covered, begun, starts, stops, loads, pressed>>
    BY DEF Evict
  <1>2. clock \in Nat /\ clock' \in Times /\ clock < clock'
    BY <1>1 DEF TypeOK, Times
  <1>3. TypeOK'
    <2>1. evictions' \in 0..MaxEvictions /\ order' \in Orders
      BY <1>1, Constants DEF TypeOK, Orders
    <2>2. QED BY <1>1, <1>2, <2>1, Constants DEF TypeOK
  <1>4. Records' /\ UnderWay'
    BY <1>1, RecordsStay, UnderWayStays DEF IInv
  <1>5. Obeyed'
    <2>1. stopSeen # NoSession => pressed[stopSeen.id] \in Nat /\ pressed[stopSeen.id] <= clock
      BY ARecord DEF IInv, TypeOK, Times, Obeyed
    <2>2. QED BY <1>1, <1>2, <2>1, Constants DEF Obeyed
  <1>6. \A b \in Actions : /\ Moment(b)' = Moment(b)
                           /\ made[b] # 0 => Moment(b) \in Nat
    BY <1>1 DEF TypeOK, Times, Sessions, Moment
  <1>7. Past'
    <2>1. \A s \in 1..starts : begun[s] \in Nat
      BY DEF TypeOK, Times, Sessions
    <2>2. QED BY <1>1, <1>2, <1>6, <2>1 DEF Past
  <1>8. Drained'
    BY <1>1, DrainedStays DEF IInv
  <1>9. Stored' = Stored
    BY <1>1 DEF Stored
  <1>10. order' <= Cardinality(Stored') /\ Distinct' /\ Kept'
    BY <1>1, <1>9, StoredIsFinite DEF IInv, Distinct, Kept
  <1>11. Numbered'
    <2> SUFFICES ASSUME starts <= 1, NEW b \in Stored PROVE at[b] + begun[1] < clock'
      BY <1>1, <1>9 DEF Numbered
    <2>1. b \in Actions /\ made[b] # 0 /\ made[b] <= starts /\ Moment(b) <= clock /\ Moment(b) \in Nat
      BY <1>6 DEF Past, Stored
    <2>2. made[b] = 1
      BY <2>1 DEF TypeOK
    <2>3. at[b] + begun[1] = Moment(b)
      BY <2>2 DEF Moment
    <2>4. QED BY <1>1, <1>2, <2>1, <2>3
  <1>12. QED BY <1>3, <1>4, <1>5, <1>7, <1>8, <1>10, <1>11 DEF IInv

LEMMA PageKeepsIInv == ASSUME IInv, OpenPage \/ Page PROVE IInv'
  <1>1. /\ page' \in {"closed", "waiting", "reading", "skimming", "built", "partial"}
        /\ recording' = recording \/ recording' = {x.act : x \in rows}
        /\ PageOnly
    BY DEF OpenPage, Page, SeeStopped, GiveUp, FindNoSession, Assemble
  <1>2. UNCHANGED <<storeVars, workerVars, ingestVars, noteVars, tabSeen, startVars,
                    stopVars, frameVars, actionVars, worldVars>>
    BY <1>1 DEF PageOnly
  <1>3. recording' \in SUBSET Actions
    BY <1>1 DEF IInv, TypeOK, Rows
  <1>4. TypeOK'
    BY <1>1, <1>2, <1>3, Constants DEF IInv, TypeOK
  <1>5. Records' /\ UnderWay' /\ Obeyed' /\ Past' /\ Drained'
    BY <1>2, RecordsStay, UnderWayStays, ObeyedStays, PastStays, DrainedStays DEF IInv
  <1>6. Ordered' /\ Kept'
    BY <1>2, OrderStays, KeptStays DEF IInv, Ordered
  <1>7. QED BY <1>4, <1>5, <1>6 DEF IInv, Ordered

LEMMA IngestKeepsIInv == ASSUME IInv, NEW a \in Actions, Ingest(a) PROVE IInv'
  BY OrphanKeepsIInv, RefuseKeepsIInv, AcceptKeepsIInv, StoreKeepsIInv, TakeShotKeepsIInv,
     PutShotKeepsIInv, NoShotKeepsIInv, MergeKeepsIInv DEF Ingest

\* Whatever frames, handlers, tester and Chrome do, in whatever order, the invariant
\* stays.
LEMMA NextKeepsIInv == IInv /\ [Next]_vars => IInv'
  <1> SUFFICES ASSUME IInv, [Next]_vars PROVE IInv'
    OBVIOUS
  <1>1. ASSUME NEW a \in Actions, NEW f \in Frames, Type(a, f) \/ Act(a, f) PROVE IInv'
    BY <1>1, TypeKeepsIInv, ActKeepsIInv
  <1>2. ASSUME NEW a \in Actions, Commit(a) \/ SettleDown(a) \/ Ingest(a) PROVE IInv'
    BY <1>2, CommitKeepsIInv, SettleDownKeepsIInv, IngestKeepsIInv
  <1>3. ASSUME NEW f \in Frames, Load(f) \/ Join(f) \/ HearStop(f) PROVE IInv'
    BY <1>3, LoadKeepsIInv, JoinKeepsIInv, HearStopKeepsIInv
  <1>4. ASSUME NEW f \in Frames, TabCreated(f) \/ AddTab(f) \/ Announce(f) \/ AskStart(f)
        PROVE  IInv'
    BY <1>4, TabCreatedKeepsIInv, AddTabKeepsIInv, AnnounceKeepsIInv, AskStartKeepsIInv
  <1>5. ASSUME NEW n \in Notes, ReadForNote(n) \/ WriteNote(n) PROVE IInv'
    BY <1>5, ReadForNoteKeepsIInv, WriteNoteKeepsIInv
  <1>6. CASE Clear \/ BeginSession \/ TellStart
    BY <1>6, ClearKeepsIInv, BeginSessionKeepsIInv, TellStartKeepsIInv
  <1>7. CASE AskStop \/ ReadForStop \/ MarkStopped
    BY <1>7, AskStopKeepsIInv, ReadForStopKeepsIInv, MarkStoppedKeepsIInv
  <1>8. CASE Evict BY <1>8, EvictKeepsIInv
  <1>9. CASE OpenPage \/ Page BY <1>9, PageKeepsIInv
  <1>10. CASE UNCHANGED vars
    <2>1. UNCHANGED <<storeVars, workerVars, ingestVars, noteVars, tabSeen, startVars, stopVars,
                      frameVars, actionVars, pageVars, worldVars>>
      BY <1>10 DEF vars
    <2>2. TypeOK'
      BY <2>1, Constants DEF IInv, TypeOK
    <2>3. Records' /\ UnderWay' /\ Obeyed' /\ Past' /\ Drained'
      BY <2>1, RecordsStay, UnderWayStays, ObeyedStays, PastStays, DrainedStays DEF IInv
    <2>4. Ordered' /\ Kept'
      BY <2>1, OrderStays, KeptStays DEF IInv, Ordered
    <2>5. QED BY <2>2, <2>3, <2>4 DEF IInv, Ordered
  <1>11. QED
    BY <1>1, <1>2, <1>3, <1>4, <1>5, <1>6, <1>7, <1>8, <1>9, <1>10 DEF Next

\* Only ingest refuses an action.
LEMMA RefusedByIngest ==
  ASSUME TypeOK, Next, NEW a \in Actions, life[a] = "sent", life'[a] = "refused"
  PROVE  Refuse(a)
  <1>1. ASSUME NEW b \in Actions, NEW f \in Frames, Type(b, f) \/ Act(b, f) PROVE FALSE
    BY <1>1 DEF Type, Act, Begin, Cut, TypeOK
  <1>2. ASSUME NEW b \in Actions, Commit(b) \/ SettleDown(b) PROVE FALSE
    BY <1>2 DEF Commit, SettleDown, Begin, Cut, TypeOK
  <1>3. ASSUME NEW b \in Actions, Ingest(b) PROVE Refuse(a)
    <2>1. CASE Refuse(b)
      BY <2>1 DEF Refuse, TypeOK
    <2>2. CASE Orphan(b) \/ Accept(b) \/ Store(b) \/ TakeShot(b) \/ PutShot(b) \/ NoShot(b) \/ Merge(b)
      BY <2>2 DEF Orphan, Accept, Store, TakeShot, PutShot, NoShot, Merge, TypeOK
    <2>3. QED BY <1>3, <2>1, <2>2 DEF Ingest
  <1>4. ASSUME NEW f \in Frames, Load(f) \/ HearStop(f) PROVE FALSE
    BY <1>4 DEF Load, HearStop, Cut
  <1>5. life' # life
    OBVIOUS
  <1>6. ASSUME NEW f \in Frames,
               Join(f) \/ TabCreated(f) \/ AddTab(f) \/ Announce(f) \/ AskStart(f)
        PROVE  FALSE
    BY <1>5, <1>6 DEF Join, TabCreated, AddTab, Announce, AskStart, TabOnly, StartOnly
  <1>7. ASSUME NEW n \in Notes, ReadForNote(n) \/ WriteNote(n) PROVE FALSE
    BY <1>5, <1>7 DEF ReadForNote, WriteNote, NoteOnly
  <1>8. CASE Clear \/ BeginSession \/ TellStart
    BY <1>5, <1>8 DEF Clear, BeginSession, TellStart, StartOnly
  <1>9. CASE AskStop \/ ReadForStop \/ MarkStopped
    BY <1>5, <1>9 DEF AskStop, ReadForStop, MarkStopped
  <1>10. CASE Evict \/ OpenPage \/ Page
    BY <1>5, <1>10 DEF Evict, OpenPage, Page, SeeStopped, GiveUp, FindNoSession, Assemble, PageOnly
  <1>11. QED
    BY <1>1, <1>2, <1>3, <1>4, <1>6, <1>7, <1>8, <1>9, <1>10 DEF Next

-----------------------------------------------------------------------------
\* The invariant holds of every session, whatever is done in it and whenever the
\* worker is evicted.
THEOREM SessionInvariant == Spec => []IInv
  BY InitIsFine, NextKeepsIInv, PTL DEF Spec

\* The stores, the handlers and the frames keep their types; the worker's counter is
\* never above the number of actions.
THEOREM SessionTypeCorrect == Spec => []TypeOK
  <1>1. IInv => TypeOK BY DEF IInv
  <1>2. QED BY <1>1, SessionInvariant, PTL

\* store.ts, putEvent: no two events of the first session have one key, although the
\* worker forgets its counter whenever it is evicted.
THEOREM NoEventIsLost == Spec => []NoEventOverwritten
  <1>1. IInv => NoEventOverwritten
    <2> SUFFICES ASSUME IInv, NEW a \in Actions, starts = 1, starter = "idle",
                        life[a] \in {"stored", "shot", "merging", "done"}
                 PROVE  \E x \in rows : x.act = a
      BY DEF NoEventOverwritten
    <2>1. a \in Stored
      BY DEF Stored
    <2>2. QED BY <2>1 DEF IInv, Kept
  <1>2. QED BY <1>1, SessionInvariant, PTL

\* content/index.ts, stop: the frames that were told have sent what was done before
\* Stop when the session is marked, for any number of stops and sessions.
THEOREM FramesAreDrained == Spec => []DrainedBeforeStopped
  <1>1. IInv => DrainedBeforeStopped
    <2> SUFFICES ASSUME IInv, NEW a \in Actions, stopper # "telling", stopSeen # NoSession,
                        made[a] = stopSeen.id, frame[a] \in stopSeen.tabs, life[a] = "settling"
                 PROVE  Moment(a) >= pressed[made[a]]
      BY DEF DrainedBeforeStopped
    <2>1. untold = {}
      BY DEF IInv, UnderWay
    <2>2. QED BY <2>1 DEF IInv, Drained
  <1>2. QED BY <1>1, SessionInvariant, PTL

\* serviceWorker.ts, ingest: whatever the handlers write back over each other, no
\* session refuses an action that was made in it before Stop was pressed.
THEOREM NothingBeforeStopIsRefused == Spec => OnlyLateActionsAreRefused
  <1> DEFINE Rightly == \A a \in Actions :
                 life[a] = "sent" /\ life'[a] = "refused" /\ session.id = made[a]
                     => Moment(a) >= pressed[made[a]]
  <1>1. ASSUME IInv, Next PROVE Rightly
    <2> SUFFICES ASSUME NEW a \in Actions, life[a] = "sent", life'[a] = "refused",
                        session.id = made[a]
                 PROVE  Moment(a) >= pressed[made[a]]
      OBVIOUS
    <2>1. TypeOK
      BY <1>1 DEF IInv
    <2>2. Refuse(a)
      BY <1>1, <2>1, RefusedByIngest
    <2>3. session \in SessionRecords /\ session.stopped /\ at[a] > session.stoppedAt
      BY <2>1, <2>2, ARecord DEF Refuse, Late, TypeOK
    <2>4. pressed[made[a]] <= begun[made[a]] + session.stoppedAt
      BY <1>1, <2>3, ARecord DEF IInv, Records, Sound
    <2>5. made[a] \in Sessions /\ session.stoppedAt \in Nat
      BY <2>3, ARecord DEF Times
    <2>6. at[a] \in Nat /\ begun[made[a]] \in Nat /\ pressed[made[a]] \in Nat
      BY <2>1, <2>5 DEF TypeOK, Times
    <2>7. QED BY <2>3, <2>4, <2>5, <2>6 DEF Moment
  <1>2. IInv /\ [Next]_vars => [Rightly]_vars
    BY <1>1
  <1>3. QED BY <1>2, SessionInvariant, PTL DEF Spec, OnlyLateActionsAreRefused
================================================================================
