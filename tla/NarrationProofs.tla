----------------------------- MODULE NarrationProofs -----------------------------
(* What is true of the microphone for any number of recordings and chunks. *)
EXTENDS Narration, FiniteSetTheorems, TLAPS

(***************************************************************************)
(* The inductive invariant.                                                *)
(***************************************************************************)
Ids      == 1..MaxStarts
Sessions == [id : 0..MaxStarts, stopped : BOOLEAN, offset : 0..MaxStarts]
Chunks   == [key : 0..MaxChunks, of : Ids]
Reasons  == {"denied", "unsupported"}
Started  == [type : {"started"}, of : Ids]
Failed   == [type : {"failed"}, reason : Reasons]

TypeOK ==
    /\ enabled \in BOOLEAN /\ session \in Sessions
    /\ audio \in [0..MaxChunks -> 0..MaxStarts]
    /\ status \in {"off", "listening", "muted"} \cup Reasons /\ muted \in BOOLEAN
    /\ starter \in {"idle", "clear", "begin", "ask", "open", "tell"}
    /\ stopper \in {"idle", "wait", "mark"} /\ switcher \in {"idle", "wait"}
    /\ saver \in Sessions /\ offsetter \in [of : 0..MaxStarts, seen : Sessions]
    /\ doc \in BOOLEAN
    /\ asking \subseteq Ids /\ open \subseteq Ids /\ silent \subseteq Ids
    /\ running \subseteq Ids /\ stopping \subseteq Ids /\ missed \subseteq Ids
    /\ stream \in 0..MaxStarts /\ recorder \in 0..MaxStarts
    /\ seq \in 0..MaxChunks /\ puts \in Seq(Chunks)
    /\ reports \subseteq Started \cup Failed
    /\ starts \in 0..MaxStarts /\ effort \in Nat /\ crossed \in BOOLEAN

\* What the document does, and what it has under way.
InUse ==
    \/ asking # {} \/ open # {} \/ stopping # {}
    \/ reports # {} \/ offsetter # Nothing
    \/ puts # <<>> \/ seq # 0

\* Whoever holds a copy of a session holds one of the latest; there is none until
\* the next has begun.
OneSession ==
    /\ \A s \in {session, saver, offsetter.seen} : s = NoSession \/ s.id = starts
    /\ offsetter # Nothing => offsetter.seen # NoSession
    /\ starter # "idle" => starts > 0
    /\ starter \in {"clear", "begin"} =>
           session = NoSession /\ saver = NoSession /\ offsetter = Nothing

\* A document that is gone does nothing, and reports nothing.  A recorder that has
\* been stopped is waited for.
Document ==
    /\ ~doc => ~InUse /\ stream = 0
    /\ recorder = stream /\ (stream # 0 => stream \in open)
    /\ running \subseteq open
    /\ stopping # {} => stopper = "wait" \/ switcher = "wait"

\* While no requests cross: a Start is alone, and a document is in use only for the
\* recording that is live, or until who closes it has waited.
Undisturbed ==
    /\ starter # "idle" => stopper = "idle" /\ switcher = "idle" /\ ~InUse
    /\ starter \in {"ask", "open", "tell"} =>
           Live(session) /\ (saver # NoSession => Live(saver))
    /\ starter \in {"open", "tell"} => enabled
    /\ InUse => /\ doc /\ status # "off" /\ stopper # "mark"
                /\ stopper = "idle" /\ switcher = "idle" =>
                       /\ enabled /\ Live(session)
                       /\ saver # NoSession => Live(saver)
                       /\ offsetter # Nothing => Live(offsetter.seen)

\* There is one stream, that of the latest session.
OneStream ==
    /\ asking \cup open \cup stopping \subseteq {starts} /\ open \subseteq {stream}
    /\ asking # {} => open = {} /\ stopping = {} /\ seq = 0 /\ puts = <<>>
    /\ seq # 0 \/ puts # <<>> => open # {} \/ stopper = "wait" \/ switcher = "wait"
    /\ \A i \in DOMAIN puts : puts[i].of = starts
    /\ \A r \in reports : r.type = "started" => r.of = starts
    /\ offsetter # Nothing => offsetter.of = starts
    /\ \A s \in {session, saver, offsetter.seen} : s.offset \in {0, s.id}

\* The first p chunks are stored, those after them are on their way in this order.
Continued(p) ==
    /\ Stored = 0..(p - 1)
    /\ \A k \in Stored : audio[k] = starts
    /\ asking # {} \/ open # {} \/ stopping # {} \/ seq # 0 \/ puts # <<>> => seq = p + Len(puts)
    /\ \A i \in DOMAIN puts : puts[i].key = p + i - 1
    /\ starter # "idle" => p = 0

InOrder == starter # "clear" => \E p \in 0..(MaxChunks + 1) : Continued(p)

\* What the worker believes of the microphone.
Muting ==
    /\ muted => open \subseteq silent \cup missed
    /\ InUse /\ status = "muted" => muted

IInv ==
    /\ TypeOK /\ OneSession /\ Document
    /\ ~crossed => Undisturbed /\ OneStream /\ InOrder /\ Muting

-----------------------------------------------------------------------------
USE DEF storeVars, statusVars, taskVars, micVars, docVars, seenVars, effortVars, Spend,
        Live, InUse

\* What is never a session, and the constants.
LEMMA Constants ==
  /\ MaxStarts \in Nat /\ MaxChunks \in Nat /\ MaxEffort \in Nat
  /\ Ids \subseteq Nat \ {0}
  /\ NoSession \in Sessions /\ NoSession.id = 0 /\ NoSession.offset = 0 /\ NoSession.stopped
  /\ Nothing \in [of : 0..MaxStarts, seen : Sessions] /\ Nothing.seen = NoSession
  BY NarrationAssumption DEF NoSession, Nothing, Sessions, Ids

\* What a step does not do to the chunks.
LEMMA OrderStays ==
  ASSUME InOrder, UNCHANGED <<audio, puts, seq, starts>>,
         starter' # "idle" => starter # "idle",
         starter = "clear" => starter' = "clear",
         asking' # {} \/ open' # {} \/ stopping' # {} => asking # {} \/ open # {} \/ stopping # {}
  PROVE  InOrder'
  <1>1. Stored' = Stored
    BY DEF Stored
  <1>2. ASSUME NEW p, Continued(p) PROVE Continued(p)'
    BY <1>1, <1>2 DEF Continued
  <1>3. QED BY <1>2, Zenon DEF InOrder

-----------------------------------------------------------------------------
(***************************************************************************)
(* Every step keeps the invariant: a lemma for each action, its parts in   *)
(* the order of IInv, the last four only while no requests have crossed.   *)
(***************************************************************************)

\* Start: the document of an earlier recording is gone, or its requests crossed.
LEMMA PressStartKeepsIInv == ASSUME IInv, PressStart PROVE IInv'
  <1> USE DEF IInv, PressStart
  <1>1. TypeOK'
    BY Constants DEF TypeOK
  <1>2. OneSession'
    BY Constants DEF TypeOK, OneSession
  <1>3. Document'
    BY Constants DEF TypeOK, OneSession, Document
  <1>4. ASSUME ~crossed' PROVE Undisturbed'
    BY <1>4, Constants DEF TypeOK, OneSession, Document, Undisturbed
  <1>5. ASSUME ~crossed' PROVE OneStream'
    BY <1>4, <1>5, Constants DEF TypeOK, OneSession, Document, Undisturbed, OneStream
  <1>6. ASSUME ~crossed' PROVE InOrder'
    BY <1>6 DEF TypeOK, OneSession, Document, Undisturbed, OneStream, InOrder, Continued, Stored
  <1>7. ASSUME ~crossed' PROVE Muting'
    BY <1>4, <1>7, Constants DEF TypeOK, OneSession, Document, Undisturbed, OneStream, Muting
  <1>8. QED BY <1>1, <1>2, <1>3, <1>4, <1>5, <1>6, <1>7

\* The store is empty from here on: the audio of this recording begins at 0.
LEMMA ClearKeepsIInv == ASSUME IInv, Clear PROVE IInv'
  <1> USE DEF IInv, Clear
  <1>1. TypeOK'
    BY Constants DEF TypeOK
  <1>2. OneSession'
    BY Constants DEF TypeOK, OneSession
  <1>3. Document'
    BY Constants DEF TypeOK, OneSession, Document
  <1>4. ASSUME ~crossed' PROVE Undisturbed'
    BY <1>4, Constants DEF TypeOK, OneSession, Document, Undisturbed
  <1>5. ASSUME ~crossed' PROVE OneStream'
    BY <1>4, <1>5, Constants DEF TypeOK, OneSession, Document, Undisturbed, OneStream
  <1>6. ASSUME ~crossed' PROVE InOrder'
    <2>1. Stored' = {} /\ Stored' = 0..(0 - 1)
      BY Constants DEF Stored
    <2>2. puts' = <<>> /\ seq' = 0 /\ asking' = {} /\ open' = {} /\ stopping' = {}
      BY <1>6 DEF Undisturbed
    <2>3. Continued(0)'
      BY <2>1, <2>2 DEF Continued
    <2>4. QED BY <2>3, Constants DEF InOrder
  <1>7. ASSUME ~crossed' PROVE Muting'
    BY <1>4, <1>7, Constants DEF TypeOK, OneSession, Document, Undisturbed, OneStream, Muting
  <1>8. QED BY <1>1, <1>2, <1>3, <1>4, <1>5, <1>6, <1>7

LEMMA BeginKeepsIInv == ASSUME IInv, Begin PROVE IInv'
  <1> USE DEF IInv, Begin
  <1>1. TypeOK'
    <2> USE DEF TypeOK
    <2>1. starts \in Ids
      BY Constants DEF OneSession, Ids
    <2>2. session' \in Sessions
      BY <2>1, Constants DEF Sessions, Ids
    <2>3. starter' \in {"idle", "clear", "begin", "ask", "open", "tell"}
      OBVIOUS
    <2>4. QED BY <2>1, <2>2, <2>3
  <1>2. OneSession'
    BY Constants DEF TypeOK, OneSession
  <1>3. Document'
    BY Constants DEF TypeOK, OneSession, Document
  <1>4. ASSUME ~crossed' PROVE Undisturbed'
    BY <1>4, Constants DEF TypeOK, OneSession, Document, Undisturbed
  <1>5. ASSUME ~crossed' PROVE OneStream'
    BY <1>4, <1>5, Constants DEF TypeOK, OneSession, Document, Undisturbed, OneStream
  <1>6. ASSUME ~crossed' PROVE InOrder'
    BY <1>6, OrderStays DEF Document, Undisturbed, InOrder
  <1>7. ASSUME ~crossed' PROVE Muting'
    BY <1>4, <1>7, Constants DEF TypeOK, OneSession, Document, Undisturbed, OneStream, Muting
  <1>8. QED BY <1>1, <1>2, <1>3, <1>4, <1>5, <1>6, <1>7

LEMMA AskKeepsIInv == ASSUME IInv, Ask PROVE IInv'
  <1> USE DEF IInv, Ask
  <1>1. TypeOK'
    BY Constants DEF TypeOK
  <1>2. OneSession'
    BY Constants DEF TypeOK, OneSession
  <1>3. Document'
    BY Constants DEF TypeOK, OneSession, Document
  <1>4. ASSUME ~crossed' PROVE Undisturbed'
    BY <1>4, Constants DEF TypeOK, OneSession, Document, Undisturbed
  <1>5. ASSUME ~crossed' PROVE OneStream'
    BY <1>4, <1>5, Constants DEF TypeOK, OneSession, Document, Undisturbed, OneStream
  <1>6. ASSUME ~crossed' PROVE InOrder'
    BY <1>6, OrderStays DEF Document, Undisturbed, InOrder
  <1>7. ASSUME ~crossed' PROVE Muting'
    BY <1>4, <1>7, Constants DEF TypeOK, OneSession, Document, Undisturbed, OneStream, Muting
  <1>8. QED BY <1>1, <1>2, <1>3, <1>4, <1>5, <1>6, <1>7

LEMMA OpenOffscreenKeepsIInv == ASSUME IInv, OpenOffscreen PROVE IInv'
  <1> USE DEF IInv, OpenOffscreen
  <1>1. TypeOK'
    BY Constants DEF TypeOK
  <1>2. OneSession'
    BY Constants DEF TypeOK, OneSession
  <1>3. Document'
    BY Constants DEF TypeOK, OneSession, Document
  <1>4. ASSUME ~crossed' PROVE Undisturbed'
    BY <1>4, Constants DEF TypeOK, OneSession, Document, Undisturbed
  <1>5. ASSUME ~crossed' PROVE OneStream'
    BY <1>4, <1>5, Constants DEF TypeOK, OneSession, Document, Undisturbed, OneStream
  <1>6. ASSUME ~crossed' PROVE InOrder'
    BY <1>6, OrderStays DEF Document, Undisturbed, InOrder
  <1>7. ASSUME ~crossed' PROVE Muting'
    BY <1>4, <1>7, Constants DEF TypeOK, OneSession, Document, Undisturbed, OneStream, Muting
  <1>8. QED BY <1>1, <1>2, <1>3, <1>4, <1>5, <1>6, <1>7

\* getUserMedia is asked for the latest session only.
LEMMA TellStartKeepsIInv == ASSUME IInv, TellStart PROVE IInv'
  <1> USE DEF IInv, TellStart, AudioStart
  <1>1. TypeOK'
    BY Constants, SMTT(30) DEF TypeOK
  <1>2. OneSession'
    BY Constants DEF TypeOK, OneSession
  <1>3. Document'
    <2>1. ~doc' => ~InUse' /\ stream' = 0
      BY DEF Document
    <2>2. recorder' = stream' /\ (stream' # 0 => stream' \in open')
      BY DEF Document
    <2>3. running' \subseteq open'
      BY DEF Document
    <2>4. stopping' # {} => stopper' = "wait" \/ switcher' = "wait"
      BY DEF Document
    <2>5. QED BY <2>1, <2>2, <2>3, <2>4 DEF Document
  <1>4. ASSUME ~crossed' PROVE Undisturbed'
    BY <1>4, Constants DEF TypeOK, OneSession, Document, Undisturbed
  <1>5. ASSUME ~crossed' PROVE OneStream'
    BY <1>4, <1>5, Constants DEF TypeOK, OneSession, Document, Undisturbed, OneStream
  <1>6. ASSUME ~crossed' PROVE InOrder'
    BY <1>6 DEF TypeOK, OneSession, Document, Undisturbed, OneStream, InOrder, Continued, Stored
  <1>7. ASSUME ~crossed' PROVE Muting'
    BY <1>4, <1>7, Constants DEF TypeOK, OneSession, Document, Undisturbed, OneStream, Muting
  <1>8. QED BY <1>1, <1>2, <1>3, <1>4, <1>5, <1>6, <1>7

\* The stream is closed; its recorder's last chunk is waited for.
LEMMA PressStopKeepsIInv == ASSUME IInv, PressStop PROVE IInv'
  <1> USE DEF IInv, PressStop, AudioStop
  <1>1. TypeOK'
    <2> USE DEF TypeOK
    <2>1. effort' \in Nat
      OBVIOUS
    <2>2. crossed' \in BOOLEAN
      OBVIOUS
    <2>3. stopper' \in {"idle", "wait", "mark"}
      OBVIOUS
    <2>4. open' \subseteq Ids /\ running' \subseteq Ids /\ stopping' \subseteq Ids
      OBVIOUS
    <2>5. stream' \in 0..MaxStarts /\ recorder' \in 0..MaxStarts
      BY Constants
    <2>6. QED BY <2>1, <2>2, <2>3, <2>4, <2>5
  <1>2. OneSession'
    BY Constants DEF TypeOK, OneSession
  <1>3. Document'
    <2>1. ~doc' => ~InUse' /\ stream' = 0
      BY DEF Document
    <2>2. recorder' = stream' /\ (stream' # 0 => stream' \in open')
      BY DEF Document
    <2>3. running' \subseteq open'
      BY DEF Document
    <2>4. stopping' # {} => stopper' = "wait" \/ switcher' = "wait"
      BY DEF Document
    <2>5. QED BY <2>1, <2>2, <2>3, <2>4 DEF Document
  <1>4. ASSUME ~crossed' PROVE Undisturbed'
    <2>1. Undisturbed /\ Document /\ starter = "idle" /\ ~crossed
      BY <1>4 DEF Undisturbed
    <2>2. CASE status = "off"
      <3>1. UNCHANGED docVars
        BY <2>2
      <3>2. ~InUse /\ ~InUse'
        BY <2>1, <2>2, <3>1 DEF Undisturbed
      <3>3. QED BY <2>1, <3>2 DEF Undisturbed
    <2>3. CASE status # "off"
      <3>1. AudioStop /\ stopper' = "wait"
        BY <2>3
      <3>2. InUse' => InUse
        BY <2>1, <2>3 DEF Document
      <3>3. QED BY <2>1, <2>3, <3>1, <3>2 DEF Undisturbed
    <2>4. QED BY <2>2, <2>3
  <1>5. ASSUME ~crossed' PROVE OneStream'
    BY <1>4, <1>5, Constants DEF TypeOK, OneSession, Document, Undisturbed, OneStream
  <1>6. ASSUME ~crossed' PROVE InOrder'
    BY <1>6, OrderStays DEF Document, Undisturbed, InOrder
  <1>7. ASSUME ~crossed' PROVE Muting'
    BY <1>4, <1>7, Constants, ZenonT(30) DEF TypeOK, OneSession, Document, Undisturbed, OneStream, Muting
  <1>8. QED BY <1>1, <1>2, <1>3, <1>4, <1>5, <1>6, <1>7

\* The document goes, and the chunks on their way with it.
LEMMA StopClosedKeepsIInv == ASSUME IInv, StopClosed PROVE IInv'
  <1> USE DEF IInv, StopClosed, Waited, CloseOffscreen
  <1>1. TypeOK'
    <2> USE DEF TypeOK
    <2>1. stopper' \in {"idle", "wait", "mark"}
      OBVIOUS
    <2>2. status' \in {"off", "listening", "muted"} \cup Reasons
      OBVIOUS
    <2>3. doc' \in BOOLEAN
      OBVIOUS
    <2>4. asking' \subseteq Ids /\ open' \subseteq Ids /\ silent' \subseteq Ids
      OBVIOUS
    <2>5. running' \subseteq Ids /\ stopping' \subseteq Ids
      OBVIOUS
    <2>6. stream' \in 0..MaxStarts /\ recorder' \in 0..MaxStarts
      BY Constants
    <2>7. seq' \in 0..MaxChunks /\ puts' \in Seq(Chunks)
      BY Constants
    <2>8. QED BY <2>1, <2>2, <2>3, <2>4, <2>5, <2>6, <2>7
  <1>2. OneSession'
    BY Constants DEF TypeOK, OneSession
  <1>3. Document'
    BY Constants DEF TypeOK, OneSession, Document
  <1>4. ASSUME ~crossed' PROVE Undisturbed'
    BY <1>4, Constants DEF TypeOK, OneSession, Document, Undisturbed
  <1>5. ASSUME ~crossed' PROVE OneStream'
    BY <1>4, <1>5, Constants DEF TypeOK, OneSession, Document, Undisturbed, OneStream
  <1>6. ASSUME ~crossed' PROVE InOrder'
    BY <1>6 DEF TypeOK, OneSession, Document, Undisturbed, OneStream, InOrder, Continued, Stored
  <1>7. ASSUME ~crossed' PROVE Muting'
    BY <1>4, <1>7, Constants DEF TypeOK, OneSession, Document, Undisturbed, OneStream, Muting
  <1>8. QED BY <1>1, <1>2, <1>3, <1>4, <1>5, <1>6, <1>7

LEMMA MarkKeepsIInv == ASSUME IInv, Mark PROVE IInv'
  <1> USE DEF IInv, Mark
  <1>1. TypeOK'
    <2> USE DEF TypeOK
    <2>1. session' \in Sessions
      BY DEF Sessions
    <2>2. stopper' \in {"idle", "wait", "mark"}
      OBVIOUS
    <2>3. QED BY <2>1, <2>2
  <1>2. OneSession'
    <2>1. session = NoSession => session' = NoSession
      <3> HIDE DEF IInv
      <3>1. session' = [session EXCEPT !.stopped = TRUE]
        BY DEF Mark
      <3>2. NoSession \in Sessions /\ NoSession.stopped = TRUE
        BY Constants DEF NoSession
      <3>3. \A s \in Sessions : s.stopped = TRUE => [s EXCEPT !.stopped = TRUE] = s
        BY DEF Sessions
      <3>4. QED BY <3>1, <3>2, <3>3
    <2>2. session'.id = session.id
      BY DEF TypeOK, Sessions
    <2>3. QED BY <2>1, <2>2 DEF OneSession
  <1>3. Document'
    BY Constants DEF TypeOK, OneSession, Document
  <1>4. ASSUME ~crossed' PROVE Undisturbed'
    BY <1>4, Constants DEF TypeOK, OneSession, Document, Undisturbed
  <1>5. ASSUME ~crossed' PROVE OneStream'
    BY <1>4, <1>5, Constants DEF TypeOK, OneSession, Document, Undisturbed, OneStream
  <1>6. ASSUME ~crossed' PROVE InOrder'
    BY <1>6, OrderStays DEF Document, Undisturbed, InOrder
  <1>7. ASSUME ~crossed' PROVE Muting'
    BY <1>4, <1>7, Constants DEF TypeOK, OneSession, Document, Undisturbed, OneStream, Muting
  <1>8. QED BY <1>1, <1>2, <1>3, <1>4, <1>5, <1>6, <1>7

LEMMA SwitchOnKeepsIInv == ASSUME IInv, SwitchOn PROVE IInv'
  <1> USE DEF IInv, SwitchOn
  <1>1. TypeOK'
    BY Constants, SMTT(30) DEF TypeOK
  <1>2. OneSession'
    BY Constants DEF TypeOK, OneSession
  <1>3. Document'
    BY Constants DEF TypeOK, OneSession, Document
  <1>4. ASSUME ~crossed' PROVE Undisturbed'
    BY <1>4, Constants DEF TypeOK, OneSession, Document, Undisturbed
  <1>5. ASSUME ~crossed' PROVE OneStream'
    BY <1>4, <1>5, Constants DEF TypeOK, OneSession, Document, Undisturbed, OneStream
  <1>6. ASSUME ~crossed' PROVE InOrder'
    BY <1>6, OrderStays DEF Document, Undisturbed, InOrder
  <1>7. ASSUME ~crossed' PROVE Muting'
    BY <1>4, <1>7, Constants DEF TypeOK, OneSession, Document, Undisturbed, OneStream, Muting
  <1>8. QED BY <1>1, <1>2, <1>3, <1>4, <1>5, <1>6, <1>7

\* As for Stop, with the switch as who waits.
LEMMA SwitchOffKeepsIInv == ASSUME IInv, SwitchOff PROVE IInv'
  <1> USE DEF IInv, SwitchOff, AudioStop
  <1>1. TypeOK'
    <2> USE DEF TypeOK
    <2>1. effort' \in Nat
      OBVIOUS
    <2>2. crossed' \in BOOLEAN
      OBVIOUS
    <2>3. enabled' \in BOOLEAN
      OBVIOUS
    <2>4. switcher' \in {"idle", "wait"}
      OBVIOUS
    <2>5. open' \subseteq Ids /\ running' \subseteq Ids /\ stopping' \subseteq Ids
      OBVIOUS
    <2>6. stream' \in 0..MaxStarts /\ recorder' \in 0..MaxStarts
      BY Constants
    <2>7. QED BY <2>1, <2>2, <2>3, <2>4, <2>5, <2>6
  <1>2. OneSession'
    BY Constants DEF TypeOK, OneSession
  <1>3. Document'
    <2>1. ~doc' => ~InUse' /\ stream' = 0
      BY DEF Document
    <2>2. recorder' = stream' /\ (stream' # 0 => stream' \in open')
      BY DEF Document
    <2>3. running' \subseteq open'
      BY DEF Document
    <2>4. stopping' # {} => stopper' = "wait" \/ switcher' = "wait"
      BY DEF Document
    <2>5. QED BY <2>1, <2>2, <2>3, <2>4 DEF Document
  <1>4. ASSUME ~crossed' PROVE Undisturbed'
    <2>1. Undisturbed /\ Document /\ starter = "idle" /\ ~crossed
      BY <1>4 DEF Undisturbed
    <2>2. CASE status = "off"
      <3>1. UNCHANGED docVars
        BY <2>2
      <3>2. ~InUse /\ ~InUse'
        BY <2>1, <2>2, <3>1 DEF Undisturbed
      <3>3. QED BY <2>1, <3>2 DEF Undisturbed
    <2>3. CASE status # "off"
      <3>1. AudioStop /\ switcher' = "wait"
        BY <2>3
      <3>2. InUse' => InUse
        BY <2>1, <2>3 DEF Document
      <3>3. QED BY <2>1, <2>3, <3>1, <3>2 DEF Undisturbed
    <2>4. QED BY <2>2, <2>3
  <1>5. ASSUME ~crossed' PROVE OneStream'
    <2>1. asking' \cup open' \cup stopping' \subseteq {starts'} /\ open' \subseteq {stream'}
      BY <1>5, Constants DEF OneStream, Document, Undisturbed, TypeOK
    <2>2. asking' # {} => open' = {} /\ stopping' = {} /\ seq' = 0 /\ puts' = <<>>
      BY <1>5 DEF OneStream, Document, Undisturbed
    <2>3. seq' # 0 \/ puts' # <<>> =>
             open' # {} \/ stopper' = "wait" \/ switcher' = "wait"
      BY <1>5 DEF OneStream, Document, Undisturbed
    <2>4. \A i \in DOMAIN puts' : puts'[i].of = starts'
      BY <1>5 DEF OneStream
    <2>5. \A r \in reports' : r.type = "started" => r.of = starts'
      BY <1>5 DEF OneStream
    <2>6. offsetter' # Nothing => offsetter'.of = starts'
      BY <1>5 DEF OneStream
    <2>7. \A t \in {session', saver', offsetter'.seen} : t.offset \in {0, t.id}
      BY <1>5 DEF OneStream
    <2>8. QED BY <2>1, <2>2, <2>3, <2>4, <2>5, <2>6, <2>7 DEF OneStream
  <1>6. ASSUME ~crossed' PROVE InOrder'
    BY <1>6, OrderStays DEF Document, Undisturbed, InOrder
  <1>7. ASSUME ~crossed' PROVE Muting'
    BY <1>4, <1>7, Constants, ZenonT(30) DEF TypeOK, OneSession, Document, Undisturbed, OneStream, Muting
  <1>8. QED BY <1>1, <1>2, <1>3, <1>4, <1>5, <1>6, <1>7

LEMMA SwitchClosedKeepsIInv == ASSUME IInv, SwitchClosed PROVE IInv'
  <1> USE DEF IInv, SwitchClosed, Waited, CloseOffscreen
  <1>1. TypeOK'
    <2> USE DEF TypeOK
    <2>1. switcher' \in {"idle", "wait"}
      OBVIOUS
    <2>2. status' \in {"off", "listening", "muted"} \cup Reasons
      OBVIOUS
    <2>3. doc' \in BOOLEAN
      OBVIOUS
    <2>4. asking' \subseteq Ids /\ open' \subseteq Ids /\ silent' \subseteq Ids
      OBVIOUS
    <2>5. running' \subseteq Ids /\ stopping' \subseteq Ids
      OBVIOUS
    <2>6. stream' \in 0..MaxStarts /\ recorder' \in 0..MaxStarts
      BY Constants
    <2>7. seq' \in 0..MaxChunks /\ puts' \in Seq(Chunks)
      BY Constants
    <2>8. QED BY <2>1, <2>2, <2>3, <2>4, <2>5, <2>6, <2>7
  <1>2. OneSession'
    BY Constants DEF TypeOK, OneSession
  <1>3. Document'
    BY Constants DEF TypeOK, OneSession, Document
  <1>4. ASSUME ~crossed' PROVE Undisturbed'
    BY <1>4, Constants DEF TypeOK, OneSession, Document, Undisturbed
  <1>5. ASSUME ~crossed' PROVE OneStream'
    BY <1>4, <1>5, Constants DEF TypeOK, OneSession, Document, Undisturbed, OneStream
  <1>6. ASSUME ~crossed' PROVE InOrder'
    BY <1>6 DEF TypeOK, OneSession, Document, Undisturbed, OneStream, InOrder, Continued, Stored
  <1>7. ASSUME ~crossed' PROVE Muting'
    BY <1>4, <1>7, Constants DEF TypeOK, OneSession, Document, Undisturbed, OneStream, Muting
  <1>8. QED BY <1>1, <1>2, <1>3, <1>4, <1>5, <1>6, <1>7

LEMMA ToggleMuteKeepsIInv == ASSUME IInv, ToggleMute PROVE IInv'
  <1> USE DEF IInv, ToggleMute, AudioMute
  <1>1. TypeOK'
    <2> USE DEF TypeOK
    <2>1. effort' \in Nat
      OBVIOUS
    <2>2. muted' \in BOOLEAN
      OBVIOUS
    <2>3. status' \in {"off", "listening", "muted"} \cup Reasons
      OBVIOUS
    <2>4. {stream} \ {0} \subseteq Ids
      BY Constants DEF Ids
    <2>5. silent' \subseteq Ids
      BY <2>4 DEF AudioMute
    <2>6. QED BY <2>1, <2>2, <2>3, <2>4, <2>5
  <1>2. OneSession'
    BY Constants DEF TypeOK, OneSession
  <1>3. Document'
    <2>1. ~doc' => ~InUse' /\ stream' = 0
      BY DEF Document
    <2>2. recorder' = stream' /\ (stream' # 0 => stream' \in open')
      BY DEF Document
    <2>3. running' \subseteq open'
      BY DEF Document
    <2>4. stopping' # {} => stopper' = "wait" \/ switcher' = "wait"
      BY DEF Document
    <2>5. QED BY <2>1, <2>2, <2>3, <2>4 DEF Document
  <1>4. ASSUME ~crossed' PROVE Undisturbed'
    BY <1>4, Constants DEF TypeOK, OneSession, Document, Undisturbed
  <1>5. ASSUME ~crossed' PROVE OneStream'
    BY <1>4, <1>5, Constants DEF TypeOK, OneSession, Document, Undisturbed, OneStream
  <1>6. ASSUME ~crossed' PROVE InOrder'
    BY <1>6, OrderStays DEF Document, Undisturbed, InOrder
  <1>7. ASSUME ~crossed' PROVE Muting'
    BY <1>4, <1>7, Constants, ZenonT(30) DEF TypeOK, OneSession, Document, Undisturbed, OneStream, Muting
  <1>8. QED BY <1>1, <1>2, <1>3, <1>4, <1>5, <1>6, <1>7

\* The stream that opens is the latest session's, and the only one.
LEMMA MicOpensKeepsIInv == ASSUME IInv, NEW n, MicOpens(n) PROVE IInv'
  <1> USE DEF IInv, MicOpens
  <1>1. TypeOK'
    <2> USE DEF TypeOK
    <2>1. n \in Ids
      OBVIOUS
    <2>2. asking' \subseteq Ids /\ open' \subseteq Ids /\ running' \subseteq Ids /\ missed' \subseteq Ids
      BY <2>1
    <2>3. stream' \in 0..MaxStarts /\ recorder' \in 0..MaxStarts
      BY <2>1 DEF Ids
    <2>4. reports' \subseteq Started \cup Failed
      BY <2>1 DEF Started
    <2>5. QED BY <2>1, <2>2, <2>3, <2>4
  <1>2. OneSession'
    BY Constants DEF TypeOK, OneSession
  <1>3. Document'
    BY Constants DEF TypeOK, OneSession, Document
  <1>4. ASSUME ~crossed' PROVE Undisturbed'
    BY <1>4, Constants DEF TypeOK, OneSession, Document, Undisturbed
  <1>5. ASSUME ~crossed' PROVE OneStream'
    <2>1. asking' \cup open' \cup stopping' \subseteq {starts'} /\ open' \subseteq {stream'}
      BY <1>5 DEF OneStream
    <2>2. asking' # {} => open' = {} /\ stopping' = {} /\ seq' = 0 /\ puts' = <<>>
      BY <1>5 DEF OneStream, Document, Undisturbed, TypeOK, Ids
    <2>3. seq' # 0 \/ puts' # <<>> =>
             open' # {} \/ stopper' = "wait" \/ switcher' = "wait"
      BY <1>5 DEF OneStream, Document, Undisturbed, TypeOK, Ids
    <2>4. \A i \in DOMAIN puts' : puts'[i].of = starts'
      BY <1>5 DEF OneStream
    <2>5. \A r \in reports' : r.type = "started" => r.of = starts'
      BY <1>5 DEF OneStream
    <2>6. offsetter' # Nothing => offsetter'.of = starts'
      BY <1>5 DEF OneStream
    <2>7. \A t \in {session', saver', offsetter'.seen} : t.offset \in {0, t.id}
      BY <1>5 DEF OneStream
    <2>8. QED BY <2>1, <2>2, <2>3, <2>4, <2>5, <2>6, <2>7 DEF OneStream
  <1>6. ASSUME ~crossed' PROVE InOrder'
    BY <1>6, OrderStays DEF Document, Undisturbed, InOrder
  <1>7. ASSUME ~crossed' PROVE Muting'
    BY <1>4, <1>7, Constants DEF TypeOK, OneSession, Document, Undisturbed, OneStream, Muting
  <1>8. QED BY <1>1, <1>2, <1>3, <1>4, <1>5, <1>6, <1>7

LEMMA MicFailsKeepsIInv == ASSUME IInv, NEW n, MicFails(n) PROVE IInv'
  <1> USE DEF IInv, MicFails
  <1>1. TypeOK'
    <2> USE DEF TypeOK
    <2>1. asking' \subseteq Ids
      OBVIOUS
    <2>2. reports' \subseteq Started \cup Failed
      BY DEF Failed, Reasons
    <2>3. QED BY <2>1, <2>2
  <1>2. OneSession'
    BY Constants DEF TypeOK, OneSession
  <1>3. Document'
    BY Constants DEF TypeOK, OneSession, Document
  <1>4. ASSUME ~crossed' PROVE Undisturbed'
    BY <1>4, Constants DEF TypeOK, OneSession, Document, Undisturbed
  <1>5. ASSUME ~crossed' PROVE OneStream'
    BY <1>4, <1>5, Constants DEF TypeOK, OneSession, Document, Undisturbed, OneStream
  <1>6. ASSUME ~crossed' PROVE InOrder'
    BY <1>6, OrderStays DEF Document, Undisturbed, InOrder
  <1>7. ASSUME ~crossed' PROVE Muting'
    BY <1>4, <1>7, Constants DEF TypeOK, OneSession, Document, Undisturbed, OneStream, Muting
  <1>8. QED BY <1>1, <1>2, <1>3, <1>4, <1>5, <1>6, <1>7

LEMMA RecorderFailsKeepsIInv == ASSUME IInv, NEW n, RecorderFails(n) PROVE IInv'
  <1> USE DEF IInv, RecorderFails
  <1>1. TypeOK'
    <2> USE DEF TypeOK
    <2>1. running' \subseteq Ids
      OBVIOUS
    <2>2. reports' \subseteq Started \cup Failed
      BY DEF Failed, Reasons
    <2>3. QED BY <2>1, <2>2
  <1>2. OneSession'
    BY Constants DEF TypeOK, OneSession
  <1>3. Document'
    BY Constants DEF TypeOK, OneSession, Document
  <1>4. ASSUME ~crossed' PROVE Undisturbed'
    BY <1>4, Constants DEF TypeOK, OneSession, Document, Undisturbed
  <1>5. ASSUME ~crossed' PROVE OneStream'
    BY <1>4, <1>5, Constants DEF TypeOK, OneSession, Document, Undisturbed, OneStream
  <1>6. ASSUME ~crossed' PROVE InOrder'
    BY <1>6, OrderStays DEF Document, Undisturbed, InOrder
  <1>7. ASSUME ~crossed' PROVE Muting'
    BY <1>4, <1>7, Constants DEF TypeOK, OneSession, Document, Undisturbed, OneStream, Muting
  <1>8. QED BY <1>1, <1>2, <1>3, <1>4, <1>5, <1>6, <1>7

\* The next chunk goes to the end of the queue, with the next key.
LEMMA ChunkKeepsIInv == ASSUME IInv, NEW n, Chunk(n) PROVE IInv'
  <1> USE DEF IInv, Chunk
  <1>1. TypeOK'
    <2> USE DEF TypeOK
    <2>1. n \in Ids
      OBVIOUS
    <2>2. seq' \in 0..MaxChunks /\ stopping' \subseteq Ids
      BY Constants
    <2>3. [key |-> seq, of |-> n] \in Chunks
      BY <2>1 DEF Chunks
    <2>4. puts' \in Seq(Chunks)
      BY <2>3
    <2>5. QED BY <2>1, <2>2, <2>3, <2>4
  <1>2. OneSession'
    BY Constants DEF TypeOK, OneSession
  <1>3. Document'
    BY Constants DEF TypeOK, OneSession, Document
  <1>4. ASSUME ~crossed' PROVE Undisturbed'
    BY <1>4, Constants DEF TypeOK, OneSession, Document, Undisturbed
  <1>5. ASSUME ~crossed' PROVE OneStream'
    <2>1. n = starts /\ puts \in Seq(Chunks) /\ asking = {}
      BY <1>5 DEF OneStream, Document, TypeOK
    <2>2. asking' \cup open' \cup stopping' \subseteq {starts'} /\ open' \subseteq {stream'}
      BY <1>5 DEF OneStream
    <2>3. asking' # {} => open' = {} /\ stopping' = {} /\ seq' = 0 /\ puts' = <<>>
      BY <2>1
    <2>4. seq' # 0 \/ puts' # <<>> =>
             open' # {} \/ stopper' = "wait" \/ switcher' = "wait"
      BY <1>5 DEF OneStream, Document
    <2>5. \A i \in DOMAIN puts' : puts'[i].of = starts'
      <3>1. puts' = Append(puts, [key |-> seq, of |-> n])
        OBVIOUS
      <3>2. QED BY <1>5, <2>1, <3>1 DEF OneStream
    <2>6. \A r \in reports' : r.type = "started" => r.of = starts'
      BY <1>5 DEF OneStream
    <2>7. offsetter' # Nothing => offsetter'.of = starts'
      BY <1>5 DEF OneStream
    <2>8. \A t \in {session', saver', offsetter'.seen} : t.offset \in {0, t.id}
      BY <1>5 DEF OneStream
    <2>9. QED BY <2>2, <2>3, <2>4, <2>5, <2>6, <2>7, <2>8 DEF OneStream
  <1>6. ASSUME ~crossed' PROVE InOrder'
    <2>1. PICK p \in 0..(MaxChunks + 1) : Continued(p)
      BY <1>6 DEF InOrder, Undisturbed, Document
    <2>2. puts \in Seq(Chunks) /\ seq \in Nat /\ p \in Nat
      BY Constants DEF TypeOK
    <2>3. Stored' = Stored /\ starter' = starter /\ audio' = audio /\ starts' = starts
      BY DEF Stored
    <2>4. seq = p + Len(puts)
      BY <2>1 DEF Continued, Document
    <2>5. /\ Len(puts') = Len(puts) + 1 /\ DOMAIN puts' = 1..Len(puts')
          /\ \A i \in DOMAIN puts : puts'[i] = puts[i]
          /\ puts'[Len(puts')].key = seq
      BY <2>2
    <2>6. \A i \in DOMAIN puts' : puts'[i].key = p + i - 1
      BY <2>1, <2>2, <2>4, <2>5 DEF Continued
    <2>7. seq' = p + Len(puts')
      BY <2>2, <2>4, <2>5
    <2>8. Continued(p)'
      BY <2>1, <2>3, <2>6, <2>7 DEF Continued
    <2>9. QED BY <2>8, Constants DEF InOrder
  <1>7. ASSUME ~crossed' PROVE Muting'
    BY <1>4, <1>7, Constants DEF TypeOK, OneSession, Document, Undisturbed, OneStream, Muting
  <1>8. QED BY <1>1, <1>2, <1>3, <1>4, <1>5, <1>6, <1>7

\* The first chunk of the queue is the first that is not stored.
LEMMA PutAudioChunkKeepsIInv == ASSUME IInv, PutAudioChunk PROVE IInv'
  <1> USE DEF IInv, PutAudioChunk
  <1>1. TypeOK'
    <2> USE DEF TypeOK
    <2>1. puts' \in Seq(Chunks)
      OBVIOUS
    <2>2. Head(puts) \in Chunks
      OBVIOUS
    <2>3. Head(puts).of \in 0..MaxStarts
      BY <2>2, Constants, SMTT(30) DEF Chunks, Ids
    <2>4. audio' \in [0..MaxChunks -> 0..MaxStarts]
      BY <2>3
    <2>5. QED BY <2>1, <2>2, <2>3, <2>4, ZenonT(30)
  <1>2. OneSession'
    BY Constants DEF TypeOK, OneSession
  <1>3. Document'
    BY Constants DEF TypeOK, OneSession, Document
  <1>4. ASSUME ~crossed' PROVE Undisturbed'
    BY <1>4, Constants DEF TypeOK, OneSession, Document, Undisturbed
  <1>5. ASSUME ~crossed' PROVE OneStream'
    BY <1>4, <1>5, Constants DEF TypeOK, OneSession, Document, Undisturbed, OneStream
  <1>6. ASSUME ~crossed' PROVE InOrder'
    <2> DEFINE c == Head(puts)
    <2>1. PICK p \in 0..(MaxChunks + 1) : Continued(p)
      BY <1>6 DEF InOrder, Undisturbed
    <2>2. puts \in Seq(Chunks) /\ seq \in Nat /\ p \in Nat /\ MaxChunks \in Nat
      BY Constants DEF TypeOK
    <2>3. starter' = "idle" /\ starts' = starts /\ seq' = seq
      BY <1>6 DEF Undisturbed
    <2>4. c \in Chunks /\ c.key = p /\ c.of = starts /\ starts # 0 /\ c.key \in 0..MaxChunks
      <3>1. puts # <<>> /\ c = puts[1] /\ 1 \in DOMAIN puts /\ c \in Chunks
        BY <2>2
      <3>2. c.key = p /\ c.of = starts
        BY <1>6, <2>1, <2>2, <3>1 DEF Continued, OneStream
      <3>3. c.of \in Ids /\ c.key \in 0..MaxChunks
        BY <3>1 DEF Chunks
      <3>4. QED BY <3>1, <3>2, <3>3, Constants
    <2>5. seq = p + Len(puts) /\ Len(puts) > 0
      BY <2>1, <2>2 DEF Continued
    <2>6. /\ Len(puts') = Len(puts) - 1 /\ DOMAIN puts' = 1..Len(puts')
          /\ \A i \in DOMAIN puts' : puts'[i] = puts[i + 1]
      BY <2>2, <2>5
    <2>7. \A i \in DOMAIN puts' : puts'[i].key = (p + 1) + i - 1
      BY <2>1, <2>2, <2>6 DEF Continued
    <2>8. seq' = (p + 1) + Len(puts')
      BY <2>2, <2>3, <2>5, <2>6
    <2>9. p \in 0..MaxChunks
      BY <2>4
    <2>10. audio \in [0..MaxChunks -> 0..MaxStarts] /\ audio' = [audio EXCEPT ![p] = starts]
      BY <2>4 DEF TypeOK
    <2>11. /\ \A k \in 0..MaxChunks : audio'[k] = IF k = p THEN starts ELSE audio[k]
          /\ DOMAIN audio' = 0..MaxChunks /\ DOMAIN audio = 0..MaxChunks
      BY <2>9, <2>10
    <2>12. Stored' = Stored \cup {p}
      BY <2>4, <2>9, <2>11 DEF Stored
    <2>13. Stored' = 0..((p + 1) - 1)
      <3>1. Stored = 0..(p - 1)
        BY <2>1 DEF Continued
      <3>2. 0..(p - 1) \cup {p} = 0..((p + 1) - 1)
        BY <2>2
      <3>3. QED BY <2>12, <3>1, <3>2
    <2>14. \A k \in Stored' : audio'[k] = starts'
      BY <2>1, <2>3, <2>11 DEF Continued, Stored
    <2>15. Continued(p + 1)'
      BY <2>3, <2>7, <2>8, <2>13, <2>14 DEF Continued
    <2>16. p + 1 \in 0..(MaxChunks + 1)
      BY <2>2, <2>9
    <2>17. QED BY <2>15, <2>16 DEF InOrder
  <1>7. ASSUME ~crossed' PROVE Muting'
    BY <1>4, <1>7, Constants DEF TypeOK, OneSession, Document, Undisturbed, OneStream, Muting
  <1>8. QED BY <1>1, <1>2, <1>3, <1>4, <1>5, <1>6, <1>7

LEMMA HearStartedKeepsIInv == ASSUME IInv, HearStarted PROVE IInv'
  <1> USE DEF IInv, HearStarted
  <1>1. TypeOK'
    <2> USE DEF TypeOK
    <2>1. reports' \subseteq Started \cup Failed
      OBVIOUS
    <2>2. \A r \in reports : r.type = "started" => r.of \in Ids
      BY DEF Started, Failed
    <2>3. offsetter' \in [of : 0..MaxStarts, seen : Sessions]
      BY <2>2, Constants DEF Ids
    <2>4. QED BY <2>1, <2>2, <2>3
  <1>2. OneSession'
    BY Constants DEF TypeOK, OneSession
  <1>3. Document'
    BY Constants DEF TypeOK, OneSession, Document
  <1>4. ASSUME ~crossed' PROVE Undisturbed'
    BY <1>4, Constants DEF TypeOK, OneSession, Document, Undisturbed
  <1>5. ASSUME ~crossed' PROVE OneStream'
    BY <1>4, <1>5, Constants DEF TypeOK, OneSession, Document, Undisturbed, OneStream
  <1>6. ASSUME ~crossed' PROVE InOrder'
    BY <1>6, OrderStays DEF Document, Undisturbed, InOrder
  <1>7. ASSUME ~crossed' PROVE Muting'
    <2>1. InUse
      OBVIOUS
    <2>2. QED BY <1>7, <2>1 DEF Muting
  <1>8. QED BY <1>1, <1>2, <1>3, <1>4, <1>5, <1>6, <1>7

\* The session written back is the latest one, read while it was live.
LEMMA SetOffsetKeepsIInv == ASSUME IInv, SetOffset PROVE IInv'
  <1> USE DEF IInv, SetOffset
  <1>1. TypeOK'
    <2> USE DEF TypeOK
    <2>1. offsetter.of \in 0..MaxStarts /\ offsetter.seen \in Sessions
      OBVIOUS
    <2>2. session' \in Sessions
      BY <2>1 DEF Sessions
    <2>3. offsetter' \in [of : 0..MaxStarts, seen : Sessions]
      BY Constants
    <2>4. status' \in {"off", "listening", "muted"} \cup Reasons
      OBVIOUS
    <2>5. QED BY <2>1, <2>2, <2>3, <2>4
  <1>2. OneSession'
    <2>1. offsetter.seen \in Sessions /\ session' \in Sessions
      BY <1>1 DEF TypeOK
    <2>2. session'.id = offsetter.seen.id
      BY <2>1 DEF Sessions
    <2>3. session'.id = starts
      BY <2>2 DEF OneSession
    <2>4. starter' \notin {"clear", "begin"}
      BY DEF OneSession
    <2>5. offsetter'.seen = NoSession /\ starts' = starts /\ saver' = saver /\ offsetter' = Nothing
      BY Constants
    <2>6. QED BY <2>3, <2>4, <2>5 DEF OneSession
  <1>3. Document'
    BY Constants DEF TypeOK, OneSession, Document
  <1>4. ASSUME ~crossed' PROVE Undisturbed'
    BY <1>4, Constants DEF TypeOK, OneSession, Document, Undisturbed
  <1>5. ASSUME ~crossed' PROVE OneStream'
    <2>1. asking' \cup open' \cup stopping' \subseteq {starts'} /\ open' \subseteq {stream'}
      BY <1>5 DEF OneStream
    <2>2. asking' # {} => open' = {} /\ stopping' = {} /\ seq' = 0 /\ puts' = <<>>
      BY <1>5 DEF OneStream
    <2>3. seq' # 0 \/ puts' # <<>> =>
             open' # {} \/ stopper' = "wait" \/ switcher' = "wait"
      BY <1>5 DEF OneStream
    <2>4. \A i \in DOMAIN puts' : puts'[i].of = starts'
      BY <1>5 DEF OneStream
    <2>5. \A r \in reports' : r.type = "started" => r.of = starts'
      BY <1>5 DEF OneStream
    <2>6. offsetter' # Nothing => offsetter'.of = starts'
      BY <1>5 DEF OneStream
    <2>7. \A t \in {session', saver', offsetter'.seen} : t.offset \in {0, t.id}
      <3>1. offsetter.seen \in Sessions /\ offsetter.seen.id = starts /\ offsetter.of = starts
        BY <1>5 DEF TypeOK, OneSession, OneStream
      <3>2. session'.id = starts /\ session'.offset = starts
        BY <3>1 DEF Sessions
      <3>3. saver' = saver /\ offsetter'.seen = NoSession
        BY Constants
      <3>4. QED BY <1>5, <3>2, <3>3, Constants DEF OneStream
    <2>8. QED BY <2>1, <2>2, <2>3, <2>4, <2>5, <2>6, <2>7 DEF OneStream
  <1>6. ASSUME ~crossed' PROVE InOrder'
    BY <1>6, OrderStays DEF Document, Undisturbed, InOrder
  <1>7. ASSUME ~crossed' PROVE Muting'
    BY <1>4, <1>7, Constants DEF TypeOK, OneSession, Document, Undisturbed, OneStream, Muting
  <1>8. QED BY <1>1, <1>2, <1>3, <1>4, <1>5, <1>6, <1>7

LEMMA HearFailedKeepsIInv == ASSUME IInv, HearFailed PROVE IInv'
  <1> USE DEF IInv, HearFailed
  <1>1. TypeOK'
    <2> USE DEF TypeOK
    <2>1. reports' \subseteq Started \cup Failed
      OBVIOUS
    <2>2. \A r \in reports : r.type = "failed" => r.reason \in Reasons
      BY DEF Started, Failed
    <2>3. status' \in {"off", "listening", "muted"} \cup Reasons
      BY <2>2
    <2>4. QED BY <2>1, <2>2, <2>3
  <1>2. OneSession'
    BY Constants DEF TypeOK, OneSession
  <1>3. Document'
    BY Constants DEF TypeOK, OneSession, Document
  <1>4. ASSUME ~crossed' PROVE Undisturbed'
    <2>1. starter' = "idle" /\ InUse /\ (InUse' => doc' /\ stopper' # "mark")
      BY <1>4 DEF Undisturbed
    <2>2. status' \notin {"off", "muted"}
      BY DEF TypeOK, Started, Failed, Reasons
    <2>3. QED BY <1>4, <2>1, <2>2 DEF Undisturbed
  <1>5. ASSUME ~crossed' PROVE OneStream'
    BY <1>4, <1>5, Constants DEF TypeOK, OneSession, Document, Undisturbed, OneStream
  <1>6. ASSUME ~crossed' PROVE InOrder'
    BY <1>6, OrderStays DEF Document, Undisturbed, InOrder
  <1>7. ASSUME ~crossed' PROVE Muting'
    <2>1. status' \notin {"off", "muted"}
      BY DEF TypeOK, Started, Failed, Reasons
    <2>2. QED BY <1>7, <2>1 DEF Muting
  <1>8. QED BY <1>1, <1>2, <1>3, <1>4, <1>5, <1>6, <1>7

LEMMA ReadKeepsIInv == ASSUME IInv, Read PROVE IInv'
  <1> USE DEF IInv, Read
  <1>1. TypeOK'
    BY Constants, SMTT(30) DEF TypeOK
  <1>2. OneSession'
    BY Constants DEF TypeOK, OneSession
  <1>3. Document'
    BY Constants DEF TypeOK, OneSession, Document
  <1>4. ASSUME ~crossed' PROVE Undisturbed'
    BY <1>4, Constants DEF TypeOK, OneSession, Document, Undisturbed
  <1>5. ASSUME ~crossed' PROVE OneStream'
    BY <1>4, <1>5, Constants DEF TypeOK, OneSession, Document, Undisturbed, OneStream
  <1>6. ASSUME ~crossed' PROVE InOrder'
    BY <1>6, OrderStays DEF Document, Undisturbed, InOrder
  <1>7. ASSUME ~crossed' PROVE Muting'
    BY <1>4, <1>7, Constants DEF TypeOK, OneSession, Document, Undisturbed, OneStream, Muting
  <1>8. QED BY <1>1, <1>2, <1>3, <1>4, <1>5, <1>6, <1>7

LEMMA SaveKeepsIInv == ASSUME IInv, Save PROVE IInv'
  <1> USE DEF IInv, Save
  <1>1. TypeOK'
    BY Constants, ZenonT(30) DEF TypeOK
  <1>2. OneSession'
    BY Constants DEF TypeOK, OneSession
  <1>3. Document'
    BY Constants DEF TypeOK, OneSession, Document
  <1>4. ASSUME ~crossed' PROVE Undisturbed'
    BY <1>4, Constants DEF TypeOK, OneSession, Document, Undisturbed
  <1>5. ASSUME ~crossed' PROVE OneStream'
    BY <1>4, <1>5, Constants DEF TypeOK, OneSession, Document, Undisturbed, OneStream
  <1>6. ASSUME ~crossed' PROVE InOrder'
    BY <1>6, OrderStays DEF Document, Undisturbed, InOrder
  <1>7. ASSUME ~crossed' PROVE Muting'
    BY <1>4, <1>7, Constants DEF TypeOK, OneSession, Document, Undisturbed, OneStream, Muting
  <1>8. QED BY <1>1, <1>2, <1>3, <1>4, <1>5, <1>6, <1>7

\* An idle worker knows nothing the document still needs.
LEMMA EvictKeepsIInv == ASSUME IInv, Evict PROVE IInv'
  <1> USE DEF IInv, Evict, Calm, Waited
  <1>1. TypeOK'
    <2> USE DEF TypeOK
    <2>1. status' \in {"off", "listening", "muted"} \cup Reasons
      OBVIOUS
    <2>2. effort' \in Nat
      OBVIOUS
    <2>3. muted' \in BOOLEAN
      OBVIOUS
    <2>4. QED BY <2>1, <2>2, <2>3
  <1>2. OneSession'
    BY Constants DEF TypeOK, OneSession
  <1>3. Document'
    BY Constants DEF TypeOK, OneSession, Document
  <1>4. ASSUME ~crossed' PROVE Undisturbed'
    BY <1>4, Constants DEF TypeOK, OneSession, Document, Undisturbed, OneStream
  <1>5. ASSUME ~crossed' PROVE OneStream'
    BY <1>4, <1>5, Constants DEF TypeOK, OneSession, Document, Undisturbed, OneStream
  <1>6. ASSUME ~crossed' PROVE InOrder'
    BY <1>6, OrderStays DEF Document, Undisturbed, InOrder
  <1>7. ASSUME ~crossed' PROVE Muting'
    BY <1>4, <1>7, Constants DEF TypeOK, OneSession, Document, Undisturbed, OneStream, Muting
  <1>8. QED BY <1>1, <1>2, <1>3, <1>4, <1>5, <1>6, <1>7

-----------------------------------------------------------------------------
(***************************************************************************)
(* The invariant, and what follows from it.                                *)
(***************************************************************************)

LEMMA InitGivesIInv == Init => IInv
  <1> SUFFICES ASSUME Init PROVE IInv
    OBVIOUS
  <1> USE DEF Init, IInv
  <1>1. TypeOK
    BY Constants DEF TypeOK
  <1>2. OneSession /\ Document
    BY Constants DEF OneSession, Document
  <1>3. Undisturbed /\ OneStream /\ Muting
    BY Constants DEF Undisturbed, OneStream, Muting
  <1>4. InOrder
    <2>1. Stored = {} /\ Stored = 0..(0 - 1)
      BY DEF Stored
    <2>2. Continued(0)
      BY <2>1 DEF Continued
    <2>3. QED BY <2>2, Constants DEF InOrder
  <1>5. QED BY <1>1, <1>2, <1>3, <1>4

LEMMA StutterKeepsIInv == ASSUME IInv, UNCHANGED vars PROVE IInv'
  <1> USE DEF vars
  <1>1. TypeOK' /\ OneSession' /\ Document'
    BY DEF IInv, TypeOK, OneSession, Document
  <1>2. Stored' = Stored
    BY DEF Stored
  <1>3. \A p : Continued(p) => Continued(p)'
    BY <1>2 DEF Continued
  <1>4. InOrder => InOrder'
    BY <1>3, Zenon DEF InOrder
  <1>5. Undisturbed /\ OneStream /\ Muting => Undisturbed' /\ OneStream' /\ Muting'
    BY DEF Undisturbed, OneStream, Muting
  <1>6. QED BY <1>1, <1>4, <1>5 DEF IInv

LEMMA NextKeepsIInv == ASSUME IInv, [Next]_vars PROVE IInv'
  <1>1. CASE UNCHANGED vars
    BY <1>1, StutterKeepsIInv
  <1>2. CASE \/ PressStart \/ PressStop \/ SwitchOn \/ SwitchOff \/ ToggleMute
             \/ Clear \/ Begin \/ Ask \/ OpenOffscreen \/ TellStart
             \/ StopClosed \/ Mark \/ SwitchClosed
    BY <1>2, PressStartKeepsIInv, PressStopKeepsIInv, SwitchOnKeepsIInv, SwitchOffKeepsIInv,
       ToggleMuteKeepsIInv, ClearKeepsIInv, BeginKeepsIInv, AskKeepsIInv,
       OpenOffscreenKeepsIInv, TellStartKeepsIInv, StopClosedKeepsIInv, MarkKeepsIInv,
       SwitchClosedKeepsIInv
  <1>3. CASE \/ \E n \in asking : MicOpens(n) \/ MicFails(n)
             \/ \E n \in running : RecorderFails(n)
             \/ \E n \in running \cup stopping : Chunk(n)
    BY <1>3, MicOpensKeepsIInv, MicFailsKeepsIInv, RecorderFailsKeepsIInv, ChunkKeepsIInv
  <1>4. CASE PutAudioChunk \/ HearStarted \/ SetOffset \/ HearFailed \/ Read \/ Save \/ Evict
    BY <1>4, PutAudioChunkKeepsIInv, HearStartedKeepsIInv, SetOffsetKeepsIInv,
       HearFailedKeepsIInv, ReadKeepsIInv, SaveKeepsIInv, EvictKeepsIInv
  <1>5. QED BY <1>1, <1>2, <1>3, <1>4 DEF Next

\* The inductive invariant holds: as long as no requests have crossed, what the
\* offscreen document does belongs to the recording that is live, or its closing
\* is waited for.
THEOREM NarrationInvariant == Spec => []IInv
  <1>1. Init => IInv
    BY InitGivesIInv
  <1>2. IInv /\ [Next]_vars => IInv'
    BY NextKeepsIInv
  <1>3. QED BY <1>1, <1>2, PTL DEF Spec

\* serviceWorker.ts, "created on demand and closed with the recording": for any
\* number of recordings, presses and switches, no microphone is open or asked for
\* when nothing is recorded or narration is off - unless requests have crossed.
THEOREM MicrophoneCloses == Spec => []MicrophoneClosesWithTheRecording
  <1>1. IInv => MicrophoneClosesWithTheRecording
    BY DEF IInv, Undisturbed, Calm, MicrophoneClosesWithTheRecording
  <1>2. QED BY <1>1, NarrationInvariant, PTL

\* store.ts, putAudioChunk and clearAll: the stored chunks are 0, 1, 2 ... of the
\* recorder of the session, and the offset is that of this recorder.
THEOREM StoredAudioIsOneStream == Spec => []AudioIsOneStream
  <1>1. ASSUME IInv, session # NoSession, ~crossed
        PROVE  /\ Stored = 0..(Cardinality(Stored) - 1)
               /\ \A k \in Stored : audio[k] = session.id
               /\ session.offset \in {0, session.id}
    <2>1. session.id = starts /\ starter # "clear"
      BY <1>1 DEF IInv, OneSession
    <2>2. PICK p \in 0..(MaxChunks + 1) : Continued(p)
      BY <1>1, <2>1 DEF IInv, InOrder
    <2>3. p \in Nat /\ Stored = 0..(p - 1)
      BY <2>2, Constants DEF Continued
    <2>4. Cardinality(0..(p - 1)) = p
      BY <2>3, FS_Interval
    <2>5. session.offset \in {0, session.id}
      BY <1>1 DEF IInv, OneStream
    <2>6. QED BY <2>1, <2>2, <2>3, <2>4, <2>5 DEF Continued
  <1>2. IInv => AudioIsOneStream
    BY <1>1 DEF AudioIsOneStream
  <1>3. QED BY <1>2, NarrationInvariant, PTL

\* messages.ts, toggle-mute: a microphone that is open while the popup says muted
\* is silent, or has opened after Mute was pressed - unless requests have crossed.
THEOREM MutedMicrophoneIsSilent == Spec => []MutedIsSilent
  <1>1. IInv => MutedIsSilent
    BY DEF IInv, Muting, MutedIsSilent
  <1>2. QED BY <1>1, NarrationInvariant, PTL
=============================================================================
