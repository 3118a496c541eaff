--------------------------- MODULE RecorderSession ---------------------------
(***************************************************************************)
(* One recorded session of the browser extension: the content script of    *)
(* every frame (extension/src/content/index.ts), the service worker        *)
(* (background/serviceWorker.ts), the IndexedDB stores it writes           *)
(* (background/store.ts) and the export page that assembles the recording  *)
(* from them (export/export.ts).                                           *)
(*                                                                         *)
(* Every await of a handler of the worker lets another handler run, so a   *)
(* handler is a sequence of actions, and the session it read at its start  *)
(* is the one it writes back, changed, at its end.  What a handler does    *)
(* between two awaits is one action.  The worker's memory (eventOrder, the *)
(* listeners it added) is gone when Chrome evicts it; the stores are not.  *)
(*                                                                         *)
(* Data: a captured event is the tester's action it is about.  An action   *)
(* stands for its snapshots, its parameters and its origin as well.  A tab *)
(* has one frame.  Time is in session milliseconds, of which only equal,   *)
(* before and after matter.  Observations, narration and the popup's       *)
(* counters are left out.                                                  *)
(***************************************************************************)
EXTENDS Naturals, FiniteSets

CONSTANTS Actions,        \* what the tester does, once each
          Notes,          \* annotations, made once each
          Frames,         \* tabs, one frame each
          NoAction, NoFrame,
          Export,         \* is the export page opened?
          MaxSessions,    \* bound: presses of Record
          MaxStops,       \* bound: presses of Stop
          MaxClock,       \* bound: distinguishable moments
          MaxLoads,       \* bound: documents loaded while the extension runs
          MaxEvictions    \* bound: evictions of the worker

ASSUME RecorderAssumption == /\ NoAction \notin Actions /\ NoFrame \notin Frames
                             /\ IsFiniteSet(Actions)
                             /\ Export \in BOOLEAN
                             /\ MaxSessions \in Nat \ {0}
                             /\ MaxStops \in Nat
                             /\ MaxClock \in Nat
                             /\ MaxLoads \in Nat
                             /\ MaxEvictions \in Nat

Sessions == 1..MaxSessions
Times    == 0..MaxClock
Orders   == 0..Cardinality(Actions)

VARIABLES
    \* IndexedDB
    session,    \* the session record of the meta store, or NoSession
    rows,       \* the events store
    shots,      \* the screenshots store: whose page the picture of an id shows
    \* memory of the service worker
    order,      \* eventOrder
    listening,  \* tabs for which onCreated has left an onUpdated listener
    \* handlers of the service worker that are under way
    seen,       \* the session ingest read for an action
    number,     \* the order ingest gave it
    note,       \* where a note is
    noteSeen,   \* the session addAnnotation read for a note
    tabSeen,    \* the session onCreated read for a tab, or NoSession
    starter,    \* how far startRecording is
    target,     \* the tab it is for
    stopper,    \* how far stopRecording is
    stopSeen,   \* the session it read
    untold,     \* the tabs it has still to hear from
    \* content scripts
    rec,        \* recording: is the frame recording?
    zero,       \* the session whose start is the frame's time 0
    joining,    \* the session a query-state answer under way speaks of, or 0
    life,       \* where an action is on its way to the store
    frame,      \* the frame it was made in
    at,         \* its timestamp
    \* the export page
    page,       \* how far it is
    recording,  \* the actions of the recording it assembled
    \* the world
    clock,
    covered,    \* the tabs the session is about: the tester's, and those they opened
    begun,      \* startedAt of every session so far
    starts,     \* how many of them
    stops, loads, evictions   \* how many so far

\* Seen from outside only: the session an action was made in, and when Stop was
\* first pressed since a session began, whichever the worker then marks stopped.
VARIABLES made, pressed

storeVars  == <<session, rows, shots>>
workerVars == <<order, listening>>
ingestVars == <<seen, number>>
noteVars   == <<note, noteSeen>>
startVars  == <<starter, target>>
stopVars   == <<stopper, stopSeen, untold>>
frameVars  == <<rec, zero, joining>>
actionVars == <<life, frame, at, made>>
pageVars   == <<page, recording>>
worldVars  == <<clock, covered, begun, starts, stops, loads, evictions, pressed>>
vars == <<storeVars, workerVars, ingestVars, noteVars, tabSeen, startVars, stopVars,
          frameVars, actionVars, pageVars, worldVars>>

NoSession == [id |-> 0]
SessionRecords == [id : Sessions, tabs : SUBSET Frames, merged : SUBSET Actions,
                   notes : SUBSET Notes, stopped : BOOLEAN, stoppedAt : Times]
MaybeSession == SessionRecords \cup {NoSession}

Live(s) == s # NoSession /\ ~s.stopped

\* What keeps an action out of the store for good.
Gone == {"refused", "orphaned", "unflushed", "unloaded"}
Handled == {"read", "stored", "shot", "merging"}
Lives == {"none", "typed", "settling", "sent", "done"} \cup Handled \cup Gone

Rows == [at : Times, order : Orders, act : Actions, shot : BOOLEAN]

TypeOK == /\ session \in MaybeSession
          /\ rows \in SUBSET Rows
          /\ shots \in [Orders -> Actions \cup {NoAction}]
          /\ order \in Orders
          /\ listening \in SUBSET Frames
          /\ seen \in [Actions -> MaybeSession]
          /\ number \in [Actions -> Orders]
          /\ note \in [Notes -> {"none", "read", "kept", "orphaned"}]
          /\ noteSeen \in [Notes -> MaybeSession]
          /\ tabSeen \in [Frames -> MaybeSession]
          /\ starter \in {"idle", "events", "shots", "meta", "begin", "tell"}
          /\ target \in Frames \cup {NoFrame}
          /\ stopper \in {"idle", "asked", "telling"}
          /\ stopSeen \in MaybeSession
          /\ untold \in SUBSET Frames
          /\ rec \in [Frames -> BOOLEAN]
          /\ zero \in [Frames -> 0..MaxSessions]
          /\ joining \in [Frames -> 0..MaxSessions]
          /\ life \in [Actions -> Lives]
          /\ frame \in [Actions -> Frames \cup {NoFrame}]
          /\ at \in [Actions -> Times]
          /\ made \in [Actions -> 0..MaxSessions]
          /\ page \in {"closed", "waiting", "reading", "skimming", "built", "partial"}
          /\ recording \in SUBSET Actions
          /\ clock \in Times
          /\ covered \in SUBSET Frames
          /\ begun \in [Sessions -> Times]
          /\ pressed \in [Sessions -> Times \cup {MaxClock + 1}]
          /\ starts \in 0..MaxSessions
          /\ stops \in 0..MaxStops
          /\ loads \in 0..MaxLoads
          /\ evictions \in 0..MaxEvictions

Init == /\ session = NoSession
        /\ rows = {}
        /\ shots = [n \in Orders |-> NoAction]
        /\ order = 0
        /\ listening = {}
        /\ seen = [a \in Actions |-> NoSession]
        /\ number = [a \in Actions |-> 0]
        /\ note = [n \in Notes |-> "none"]
        /\ noteSeen = [n \in Notes |-> NoSession]
        /\ tabSeen = [f \in Frames |-> NoSession]
        /\ starter = "idle" /\ target = NoFrame
        /\ stopper = "idle" /\ stopSeen = NoSession /\ untold = {}
        /\ rec = [f \in Frames |-> FALSE]
        /\ zero = [f \in Frames |-> 0]
        /\ joining = [f \in Frames |-> 0]
        /\ life = [a \in Actions |-> "none"]
        /\ frame = [a \in Actions |-> NoFrame]
        /\ at = [a \in Actions |-> 0]
        /\ made = [a \in Actions |-> 0]
        /\ page = "closed" /\ recording = {}
        /\ clock = 0
        /\ covered = {}
        /\ begun = [s \in Sessions |-> 0]
        /\ pressed = [s \in Sessions |-> MaxClock + 1]
        /\ starts = 0 /\ stops = 0 /\ loads = 0 /\ evictions = 0

Go(a, from, to) == /\ life[a] = from
                   /\ life' = [life EXCEPT ![a] = to]

\* The moment an action was made, on the wall clock.
Moment(a) == at[a] + begun[made[a]]

-----------------------------------------------------------------------------
\* The content script: an action begins, its page settles, its event is sent.

\* The settle windows open in a frame end and their events are sent: what
\* cancel does, in the microtasks that follow it.
Cut(f) == [a \in Actions |-> IF life[a] = "settling" /\ frame[a] = f THEN "sent" ELSE life[a]]

\* Text is typed into the field that has the focus: pendingInput, no event yet.
Type(a, f) ==
    /\ rec[f] /\ life[a] = "none"
    /\ \A b \in Actions : life[b] = "typed" => frame[b] # f
    /\ life' = [life EXCEPT ![a] = "typed"]
    /\ frame' = [frame EXCEPT ![a] = f]
    /\ UNCHANGED <<storeVars, workerVars, ingestVars, noteVars, tabSeen, startVars, stopVars,
                   frameVars, at, made, pageVars, worldVars>>

\* capture of an action: the frame's earlier windows are superseded, and the
\* timestamp is now - in the millisecond of the last action, or a later one.
Begin(a, f) == \E now \in {clock, clock + 1} \cap Times :
    /\ clock' = now
    /\ life' = [Cut(f) EXCEPT ![a] = "settling"]
    /\ at' = [at EXCEPT ![a] = now - begun[zero[f]]]
    /\ made' = [made EXCEPT ![a] = zero[f]]
    /\ UNCHANGED <<storeVars, workerVars, ingestVars, noteVars, tabSeen, startVars, stopVars,
                   frameVars, pageVars, covered, begun, starts, stops, loads, evictions, pressed>>

\* A click, a key, a choice.  It flushes the text typed before it, which then is
\* the earlier of two captures; here that one has to be flushed first.
Act(a, f) ==
    /\ rec[f] /\ life[a] = "none"
    /\ \A b \in Actions : life[b] = "typed" => frame[b] # f
    /\ frame' = [frame EXCEPT ![a] = f]
    /\ Begin(a, f)

\* onChange, or flushPendingInput when another action begins.
Commit(a) ==
    /\ life[a] = "typed" /\ rec[frame[a]]
    /\ Begin(a, frame[a])
    /\ UNCHANGED frame

\* Mutant of SettleDown: no hard timer, so a request that never completes keeps
\* the window open until the next action.
SettleWhenSuperseded(a) ==
    /\ \E b \in Actions : at[b] > at[a]
    /\ Go(a, "settling", "sent")
    /\ UNCHANGED <<storeVars, workerVars, ingestVars, noteVars, tabSeen, startVars, stopVars,
                   frameVars, frame, at, made, pageVars, worldVars>>

\* The settle window ends of itself: the event is sent, and nobody waits for
\* the worker's answer.
SettleDown(a) ==
    /\ Go(a, "settling", "sent")
    /\ UNCHANGED <<storeVars, workerVars, ingestVars, noteVars, tabSeen, startVars, stopVars,
                   frameVars, frame, at, made, pageVars, worldVars>>

\* A document is loaded into a tab: the script of the one before it is gone
\* with its open windows and its text, and the new one asks query-state.  The
\* worker answers with whatever session there is, whoever asks.
Load(f) ==
    /\ loads < MaxLoads
    /\ loads' = loads + 1
    /\ life' = [a \in Actions |-> IF frame[a] # f THEN life[a]
                                  ELSE CASE life[a] = "typed" -> "unflushed"
                                         [] life[a] = "settling" -> "unloaded"
                                         [] OTHER -> life[a]]
    /\ rec' = [rec EXCEPT ![f] = FALSE]
    /\ zero' = [zero EXCEPT ![f] = 0]
    /\ joining' = [joining EXCEPT ![f] = IF Live(session) THEN session.id ELSE 0]
    /\ UNCHANGED <<storeVars, workerVars, ingestVars, noteVars, tabSeen, startVars, stopVars,
                   frame, at, made, pageVars, clock, covered, begun, starts, stops, evictions,
                   pressed>>

\* The answer arrives: recorder.start, on the clock of that session.
Join(f) ==
    /\ joining[f] # 0
    /\ joining' = [joining EXCEPT ![f] = 0]
    /\ rec' = [rec EXCEPT ![f] = TRUE]
    /\ zero' = [zero EXCEPT ![f] = joining[f]]
    /\ UNCHANGED <<storeVars, workerVars, ingestVars, noteVars, tabSeen, startVars, stopVars,
                   actionVars, pageVars, worldVars>>

-----------------------------------------------------------------------------
\* ingest, from the message to the acknowledgement nobody waits for.

IngestOnly == UNCHANGED <<noteVars, tabSeen, startVars, stopVars, frameVars, frame, at, made,
                          pageVars, worldVars, listening>>

\* No session: startRecording has just cleared it.
Orphan(a) ==
    /\ session = NoSession
    /\ Go(a, "sent", "orphaned")
    /\ UNCHANGED <<storeVars, order, ingestVars>> /\ IngestOnly

\* Mutant of Late: an event that comes after the stop is late.
AnyAfterStop(a) == session.stopped

\* Did the action happen after the session was marked stopped?
Late(a) == session.stopped /\ at[a] > session.stoppedAt

Refuse(a) ==
    /\ session # NoSession /\ Late(a)
    /\ Go(a, "sent", "refused")
    /\ UNCHANGED <<storeVars, order, ingestVars>> /\ IngestOnly

Accept(a) ==
    /\ session # NoSession /\ ~Late(a)
    /\ Go(a, "sent", "read")
    /\ seen' = [seen EXCEPT ![a] = session]
    /\ UNCHANGED <<storeVars, order, number>> /\ IngestOnly

\* Mutant of Put: the key is the timestamp alone.
PutByTime(row) == {x \in rows : x.at # row.at} \cup {row}

\* putEvent: the key is timestamp * 1000 + order.
Put(row) == {x \in rows : <<x.at, x.order>> # <<row.at, row.order>>} \cup {row}

\* The order an event gets: eventOrder, which only the worker's memory holds.
NextOrder(a) == order

\* The frame path is known: the event is numbered and put.
Store(a) ==
    LET n == NextOrder(a)
    IN  /\ Go(a, "read", "stored")
        /\ number' = [number EXCEPT ![a] = n]
        /\ order' = n + 1
        /\ rows' = Put([at |-> at[a], order |-> n, act |-> a, shot |-> FALSE])
        /\ UNCHANGED <<session, shots, seen>> /\ IngestOnly

\* captureScreenshot came back with a picture, which is put under the event's id,
TakeShot(a) ==
    /\ Go(a, "stored", "shot")
    /\ shots' = [shots EXCEPT ![number[a]] = a]
    /\ UNCHANGED <<session, rows, order, ingestVars>> /\ IngestOnly

\* and then the event once more, naming it;
PutShot(a) ==
    /\ Go(a, "shot", "merging")
    /\ rows' = Put([at |-> at[a], order |-> number[a], act |-> a, shot |-> TRUE])
    /\ UNCHANGED <<session, shots, order, ingestVars>> /\ IngestOnly

\* or there is none: a frame inside a page, too soon after the last, an error.
NoShot(a) ==
    /\ Go(a, "stored", "merging")
    /\ UNCHANGED <<storeVars, order, ingestVars>> /\ IngestOnly

\* The session it read goes back with the event's parameters and origin in it.
Merge(a) ==
    /\ Go(a, "merging", "done")
    /\ session' = [seen[a] EXCEPT !.merged = @ \cup {a}]
    /\ seen' = [seen EXCEPT ![a] = NoSession]
    /\ UNCHANGED <<rows, shots, order, number>> /\ IngestOnly

Ingest(a) == \/ Orphan(a) \/ Refuse(a) \/ Accept(a) \/ Store(a) \/ TakeShot(a) \/ PutShot(a)
             \/ NoShot(a) \/ Merge(a)

-----------------------------------------------------------------------------
\* The other handlers that read the session and write it back.

NoteOnly == UNCHANGED <<rows, shots, workerVars, ingestVars, tabSeen, startVars, stopVars,
                        frameVars, actionVars, pageVars, worldVars>>

\* addAnnotation: a command, the popup's note form, a mark of the picker.
ReadForNote(n) ==
    /\ note[n] = "none"
    /\ note' = [note EXCEPT ![n] = IF session = NoSession THEN "orphaned" ELSE "read"]
    /\ noteSeen' = [noteSeen EXCEPT ![n] = session]
    /\ UNCHANGED session /\ NoteOnly

WriteNote(n) ==
    /\ note[n] = "read"
    /\ note' = [note EXCEPT ![n] = "kept"]
    /\ noteSeen' = [noteSeen EXCEPT ![n] = NoSession]
    /\ session' = [noteSeen[n] EXCEPT !.notes = @ \cup {n}]
    /\ NoteOnly

TabOnly == UNCHANGED <<rows, shots, order, ingestVars, noteVars, startVars, stopVars,
                       actionVars, pageVars, clock, begun, starts, stops, loads, evictions, pressed>>

\* onCreated for a tab that a recorded tab opened,
TabCreated(f) ==
    /\ Live(session) /\ \E opener \in session.tabs : opener # f
    /\ f \notin covered
    /\ covered' = covered \cup {f}
    /\ tabSeen' = [tabSeen EXCEPT ![f] = session]
    /\ UNCHANGED <<session, listening, frameVars>> /\ TabOnly

\* which joins the session and is listened to until it has loaded.
AddTab(f) ==
    /\ tabSeen[f] # NoSession
    /\ session' = [tabSeen[f] EXCEPT !.tabs = @ \cup {f}]
    /\ tabSeen' = [tabSeen EXCEPT ![f] = NoSession]
    /\ listening' = listening \cup {f}
    /\ UNCHANGED <<covered, frameVars>> /\ TabOnly

\* announce: the listener stays, so it speaks up for every later load as well.
Announce(f) ==
    /\ f \in listening /\ Live(session)
    /\ joining' = [joining EXCEPT ![f] = session.id]
    /\ UNCHANGED <<session, listening, rec, zero, covered, tabSeen>> /\ TabOnly

-----------------------------------------------------------------------------
\* startRecording, from a popup that shows no recording in progress.

StartOnly == UNCHANGED <<listening, ingestVars, noteVars, tabSeen, stopVars, actionVars,
                         pageVars, clock, stops, loads, evictions, pressed>>

AskStart(f) ==
    /\ starter = "idle" /\ stopper = "idle" /\ ~Live(session)
    /\ starts < MaxSessions
    /\ starter' = "events" /\ target' = f
    /\ UNCHANGED <<storeVars, order, frameVars, covered, begun, starts>> /\ StartOnly

\* clearAll empties one store after the other.
ClearStore ==
    \/ /\ starter = "events" /\ starter' = "shots"
       /\ rows' = {}
       /\ UNCHANGED <<session, shots>>
    \/ /\ starter = "shots" /\ starter' = "meta"
       /\ shots' = [n \in Orders |-> NoAction]
       /\ UNCHANGED <<session, rows>>
    \/ /\ starter = "meta" /\ starter' = "begin"
       /\ session' = NoSession
       /\ UNCHANGED <<rows, shots>>

Clear == /\ ClearStore
         /\ UNCHANGED <<target, order, frameVars, covered, begun, starts>> /\ StartOnly

\* eventOrder starts over and the new session is stored.
BeginSession ==
    LET s == starts + 1
    IN  /\ starter = "begin" /\ starter' = "tell"
        /\ starts' = s
        /\ order' = 0
        /\ begun' = [begun EXCEPT ![s] = clock]
        /\ covered' = {target}
        /\ session' = [id |-> s, tabs |-> {target}, merged |-> {}, notes |-> {},
                       stopped |-> FALSE, stoppedAt |-> 0]
        /\ UNCHANGED <<rows, shots, target, frameVars>> /\ StartOnly

\* The frame of the tester's tab starts recording.
TellStart ==
    /\ starter = "tell" /\ starter' = "idle"
    /\ target' = NoFrame
    /\ rec' = [rec EXCEPT ![target] = TRUE]
    /\ zero' = [zero EXCEPT ![target] = starts]
    /\ UNCHANGED <<storeVars, order, joining, covered, begun, starts>> /\ StartOnly

-----------------------------------------------------------------------------
\* stopRecording, from a popup that shows a recording in progress.

StopOnly == UNCHANGED <<rows, shots, workerVars, ingestVars, noteVars, tabSeen, startVars,
                        frame, at, made, pageVars, covered, begun, starts, loads, evictions>>

\* Stop is pressed, in the millisecond of the last action or later.
AskStop == \E now \in {clock, clock + 1} \cap Times :
    /\ stopper = "idle" /\ starter = "idle" /\ Live(session)
    /\ stops < MaxStops
    /\ stops' = stops + 1
    /\ stopper' = "asked"
    /\ clock' = now
    /\ pressed' = [s \in Sessions |-> IF s <= starts /\ now < pressed[s] THEN now ELSE pressed[s]]
    /\ UNCHANGED <<session, stopSeen, untold, frameVars, life>> /\ StopOnly

ReadForStop ==
    /\ stopper = "asked" /\ stopper' = "telling"
    /\ stopSeen' = session
    /\ untold' = session.tabs
    /\ UNCHANGED <<session, frameVars, life, stops, pressed, clock>> /\ StopOnly

\* Mutant of HearStop: the open windows are left to end by themselves.
HearStopAtOnce(f) ==
    /\ stopper = "telling" /\ f \in untold
    /\ untold' = untold \ {f}
    /\ rec' = [rec EXCEPT ![f] = FALSE]
    /\ UNCHANGED <<session, stopper, stopSeen, zero, joining, life, stops, pressed, clock>>
    /\ StopOnly

\* recorder.stop of one frame, and its answer.  recording is FALSE when
\* flushPendingInput looks at it, so text that is still pending is dropped.  The
\* open windows are cut, so the drain has only microtasks to wait for and its
\* timeout never decides; a tab without the script fails to answer at once.
HearStop(f) ==
    /\ stopper = "telling" /\ f \in untold
    /\ untold' = untold \ {f}
    /\ rec' = [rec EXCEPT ![f] = FALSE]
    /\ life' = [a \in Actions |-> IF life[a] = "typed" /\ frame[a] = f THEN "unflushed"
                                  ELSE Cut(f)[a]]
    /\ UNCHANGED <<session, stopper, stopSeen, zero, joining, stops, pressed, clock>>
    /\ StopOnly

\* Every frame has answered: the session read before that goes back, stopped.
MarkStopped ==
    /\ stopper = "telling" /\ untold = {}
    /\ stopper' = "idle"
    /\ session' = [stopSeen EXCEPT !.stopped = TRUE,
                                   !.stoppedAt = clock - begun[stopSeen.id]]
    /\ UNCHANGED <<stopSeen, untold, frameVars, life, stops, pressed, clock>> /\ StopOnly

\* Chrome evicts the worker when it has been idle for half a minute.
Evict ==
    /\ evictions < MaxEvictions /\ clock < MaxClock
    /\ starter = "idle" /\ stopper = "idle"
    /\ \A a \in Actions : life[a] \notin Handled \cup {"settling", "sent"}
    /\ \A n \in Notes : note[n] # "read"
    /\ \A f \in Frames : tabSeen[f] = NoSession /\ joining[f] = 0
    /\ evictions' = evictions + 1
    /\ clock' = clock + 1
    /\ order' = 0 /\ listening' = {}
    /\ UNCHANGED <<storeVars, ingestVars, noteVars, tabSeen, startVars, stopVars, frameVars,
                   actionVars, pageVars, covered, begun, starts, stops, loads, pressed>>

-----------------------------------------------------------------------------
\* The export page, which the popup opens when stopRecording has answered.

PageOnly == UNCHANGED <<storeVars, workerVars, ingestVars, noteVars, tabSeen, startVars,
                        stopVars, frameVars, actionVars, worldVars>>

OpenPage == /\ Export
            /\ page = "closed" /\ stops > 0 /\ stopper = "idle"
            /\ page' = "waiting"
            /\ UNCHANGED recording /\ PageOnly

\* settledSession: the session is marked stopped,
SeeStopped == /\ page = "waiting" /\ session # NoSession /\ session.stopped
              /\ page' = "reading"
              /\ UNCHANGED recording /\ PageOnly

\* or it is not for STOP_WAIT_MS, and the page goes on with what there is.
GiveUp == /\ page = "waiting" /\ Live(session)
          /\ page' = "skimming"
          /\ UNCHANGED recording /\ PageOnly

\* or a start has just cleared it, and there is nothing to assemble.
FindNoSession == /\ page = "waiting" /\ session = NoSession
                 /\ page' = "closed"
                 /\ UNCHANGED recording /\ PageOnly

\* assemble, from the events in the store.
Assemble == /\ page \in {"reading", "skimming"}
            /\ page' = IF page = "reading" THEN "built" ELSE "partial"
            /\ recording' = {x.act : x \in rows}
            /\ PageOnly

Page == SeeStopped \/ GiveUp \/ FindNoSession \/ Assemble

-----------------------------------------------------------------------------
Next == \/ \E a \in Actions, f \in Frames : Type(a, f) \/ Act(a, f)
        \/ \E a \in Actions : Commit(a) \/ SettleDown(a) \/ Ingest(a)
        \/ \E f \in Frames : Load(f) \/ Join(f) \/ HearStop(f)
        \/ \E f \in Frames : TabCreated(f) \/ AddTab(f) \/ Announce(f) \/ AskStart(f)
        \/ \E n \in Notes : ReadForNote(n) \/ WriteNote(n)
        \/ Clear \/ BeginSession \/ TellStart
        \/ AskStop \/ ReadForStop \/ MarkStopped
        \/ Evict
        \/ OpenPage \/ Page

Spec == Init /\ [][Next]_vars

\* Timers fire, messages arrive and promises resolve; what the tester does, and
\* what Chrome does to an idle worker, need not happen.
Fairness == /\ \A a \in Actions : WF_vars(SettleDown(a)) /\ WF_vars(Ingest(a))
            /\ WF_vars(ReadForStop) /\ WF_vars(MarkStopped)
            /\ \A f \in Frames : WF_vars(HearStop(f))
            /\ WF_vars(Page)

FairSpec == Spec /\ Fairness

-----------------------------------------------------------------------------
(***************************************************************************)
(* Properties                                                              *)
(***************************************************************************)

\* ingest: an action the tester made before pressing Stop is never refused by
\* its own session for coming late, however long its settling, the drain and the
\* other handlers take; the moment of the stop is taken after every frame has
\* answered.
OnlyLateActionsAreRefused ==
    [][\A a \in Actions :
          life[a] = "sent" /\ life'[a] = "refused" /\ session.id = made[a]
          => Moment(a) >= pressed[made[a]]]_vars

\* content/index.ts stop: when a session is marked stopped, every action made in
\* it before Stop was pressed has left the frames that were told.
DrainedBeforeStopped ==
    \A a \in Actions :
        /\ stopper # "telling" /\ stopSeen # NoSession
        /\ made[a] = stopSeen.id /\ frame[a] \in stopSeen.tabs /\ life[a] = "settling"
        => Moment(a) >= pressed[made[a]]

\* store.ts putEvent: within a session, storing an event never removes another
\* one, across frames, milliseconds and evictions of the worker.
NoEventOverwritten ==
    \A a \in Actions :
        starts = 1 /\ starter = "idle" /\ life[a] \in {"stored", "shot", "merging", "done"}
            => \E x \in rows : x.act = a

\* Nothing waits for ever: a capture ends in the store, or refused, or with its
\* page, whatever requests never complete (settle.ts); Stop returns, which the
\* popup awaits before it opens the export page (popup.ts); and the page "gives up
\* rather than blocking", also when a late event has unmarked the session
\* (export.ts).
EveryWaitEnds ==
    /\ \A a \in Actions : life[a] = "settling" ~> life[a] \in Gone \cup {"done"}
    /\ stopper = "asked" ~> stopper = "idle"
    /\ page = "waiting" ~> page # "waiting"
=============================================================================
