------------------------------ MODULE Narration ------------------------------
(***************************************************************************)
(* The microphone of a recording: the popup's Start, Stop, Mute and the    *)
(* switch for narration, the service worker that handles them              *)
(* (background/serviceWorker.ts), the offscreen document that holds the    *)
(* microphone (offscreen/offscreen.ts) and the audio store they share      *)
(* (background/store.ts).                                                  *)
(*                                                                         *)
(* The popup offers what it does by the state the worker has; it asks      *)
(* three times a second.  A tester may press on before the answer to the   *)
(* last press.  A message of the worker reaches the document at once, in   *)
(* the step that sends it; opening the microphone takes time and may fail. *)
(* The document's reports to the worker are under way for less than the    *)
(* 400 ms stopNarration waits.  While the microphone is open its level is  *)
(* reported every 150 ms, and Chrome evicts an idle worker only.           *)
(*                                                                         *)
(* A stream, its MediaRecorder and the moment it began to record go by the *)
(* number of the session it was opened for.  Of the session, other         *)
(* handlers (ingest) matter by writing back what they read, which they do  *)
(* before the next Start; RecorderSession is about those that do not.      *)
(***************************************************************************)
EXTENDS Naturals, Sequences, FiniteSets

CONSTANTS MaxStarts,      \* bound: presses of Start
          MaxChunks,      \* bound: chunks of a MediaRecorder
          MaxEffort       \* bound: presses of any button, events and evictions

ASSUME NarrationAssumption == {MaxStarts, MaxChunks, MaxEffort} \subseteq Nat

VARIABLES
    \* chrome.storage.local and IndexedDB
    enabled,    \* has the tester asked to narrate?
    session,    \* the session record, or NoSession
    audio,      \* the stream of each stored chunk, by its key; 0 for none
    \* the service worker
    status, muted,
    starter,    \* how far startRecording is
    stopper,    \* how far stopRecording is
    switcher,   \* how far set-narration is
    saver,      \* the session ingest has read, or NoSession
    offsetter,  \* the session and the stream of the audio-started under way
    \* the offscreen document
    doc,        \* is there one?
    asking,     \* calls of start that wait for getUserMedia
    open,       \* streams of an open microphone
    silent,     \* those with a disabled track
    stream, recorder,   \* the document's variables, 0 for null
    running,    \* MediaRecorders recording
    stopping,   \* MediaRecorders with a last chunk to give
    seq,        \* the key of the next chunk
    puts,       \* chunks on their way to the store
    reports,    \* messages to the worker under way
    starts,     \* how many recordings have been started
    effort      \* how often the tester and the world have acted

\* Seen from outside only: the streams that opened while the worker was muted,
\* and whether a Start has met another request, or the document of one that had.
VARIABLES missed, crossed

storeVars  == <<enabled, session, audio>>
statusVars == <<status, muted>>
taskVars   == <<starter, stopper, switcher, saver, offsetter>>
micVars    == <<asking, open, silent, stream, recorder, running, stopping, seq>>
docVars    == <<doc, micVars, puts>>
seenVars   == <<missed, crossed>>
effortVars == <<starts, effort>>
vars == <<storeVars, statusVars, taskVars, docVars, reports, effortVars, seenVars>>

NoSession == [id |-> 0, stopped |-> TRUE, offset |-> 0]
Nothing   == [of |-> 0, seen |-> NoSession]
Live(s)   == ~s.stopped

Init == /\ enabled = FALSE /\ session = NoSession
        /\ audio = [k \in 0..MaxChunks |-> 0]
        /\ status = "off" /\ muted = FALSE
        /\ starter = "idle" /\ stopper = "idle" /\ switcher = "idle"
        /\ saver = NoSession /\ offsetter = Nothing
        /\ doc = FALSE /\ asking = {} /\ open = {} /\ silent = {}
        /\ stream = 0 /\ recorder = 0 /\ running = {} /\ stopping = {}
        /\ seq = 0 /\ puts = <<>> /\ reports = {}
        /\ starts = 0 /\ effort = 0
        /\ missed = {} /\ crossed = FALSE

Spend == effort < MaxEffort /\ effort' = effort + 1

\* No request of the popup is being handled.
Calm == starter = "idle" /\ stopper = "idle" /\ switcher = "idle"

-----------------------------------------------------------------------------
\* What messages of the worker do in the document.

\* start, up to getUserMedia.
AudioStart(n) ==
    IF doc /\ recorder = 0
    THEN /\ seq' = 0 /\ asking' = asking \cup {n}
         /\ UNCHANGED <<doc, open, silent, stream, recorder, running, stopping, puts>>
    ELSE UNCHANGED docVars

\* stop: the recorder gives its last chunk later on.
AudioStop ==
    /\ open' = open \ {stream} /\ stream' = 0 /\ recorder' = 0
    /\ running' = running \ {recorder}
    /\ stopping' = stopping \cup (running \cap {recorder})
    /\ UNCHANGED <<doc, asking, silent, seq, puts>>

\* Mutant of AudioMute: the tracks are enabled when they should be muted.
AudioUnmute(on) ==
    /\ silent' = IF on THEN silent \ {stream} ELSE silent \cup ({stream} \ {0})
    /\ UNCHANGED <<doc, asking, open, stream, recorder, running, stopping, seq, puts>>

\* mute
AudioMute(on) ==
    /\ silent' = IF on THEN silent \cup ({stream} \ {0}) ELSE silent \ {stream}
    /\ UNCHANGED <<doc, asking, open, stream, recorder, running, stopping, seq, puts>>

\* Mutant of CloseOffscreen: audio-stop is held to be enough.
KeepOffscreen == UNCHANGED docVars

\* closeOffscreen: the microphone goes with the document.
CloseOffscreen ==
    /\ doc' = FALSE /\ asking' = {} /\ open' = {} /\ silent' = {} /\ stream' = 0
    /\ recorder' = 0 /\ running' = {} /\ stopping' = {} /\ seq' = 0 /\ puts' = <<>>

-----------------------------------------------------------------------------
\* startRecording, startNarration and openOffscreen.

PressStart ==
    /\ ~Live(session) /\ starter = "idle" /\ Spend /\ starts < MaxStarts
    /\ saver = NoSession /\ offsetter = Nothing
    /\ starts' = starts + 1 /\ starter' = "clear" /\ session' = NoSession
    /\ crossed' = (switcher # "idle" \/ stopper # "idle" \/ (crossed /\ doc))
    /\ UNCHANGED <<enabled, audio, statusVars, stopper, switcher, saver, offsetter, docVars,
                   reports, missed>>

\* Mutant of Clear: the store added last is forgotten.
ClearAllButAudio ==
    /\ starter = "clear" /\ starter' = "begin"
    /\ UNCHANGED <<storeVars, statusVars, stopper, switcher, saver, offsetter, docVars,
                   reports,
                   effortVars, seenVars>>

\* The end of clearAll, which clears the audio last.
Clear ==
    /\ starter = "clear" /\ starter' = "begin"
    /\ audio' = [k \in 0..MaxChunks |-> 0]
    /\ UNCHANGED <<enabled, session, statusVars, stopper, switcher, saver, offsetter,
                   docVars,
                   reports, effortVars, seenVars>>

Begin ==
    /\ starter = "begin" /\ starter' = "ask"
    /\ session' = [id |-> starts, stopped |-> FALSE, offset |-> 0]
    /\ UNCHANGED <<enabled, audio, statusVars, stopper, switcher, saver, offsetter, docVars,
                   reports, effortVars, seenVars>>

Ask ==
    /\ starter = "ask" /\ starter' = IF enabled THEN "open" ELSE "idle"
    /\ muted' = FALSE
    /\ status' = IF enabled THEN status ELSE "off"
    /\ UNCHANGED <<storeVars, stopper, switcher, saver, offsetter, docVars, reports,
                   effortVars, seenVars>>

\* Chrome may refuse a document that is not there yet.
OpenOffscreen ==
    /\ starter = "open"
    /\ \/ doc' = TRUE /\ starter' = "tell"
       \/ ~doc /\ starter' = "idle" /\ UNCHANGED doc
    /\ UNCHANGED <<storeVars, statusVars, stopper, switcher, saver, offsetter, micVars,
                   puts,
                   reports, effortVars, seenVars>>

TellStart ==
    /\ starter = "tell" /\ starter' = "idle"
    /\ status' = "listening"
    /\ AudioStart(starts)
    /\ UNCHANGED <<storeVars, muted, stopper, switcher, saver, offsetter, reports,
                   effortVars, seenVars>>

-----------------------------------------------------------------------------
\* stopRecording, set-narration and stopNarration.

PressStop ==
    /\ Live(session) /\ stopper = "idle" /\ Spend
    /\ \/ status = "off" /\ stopper' = "mark" /\ UNCHANGED docVars
       \/ status # "off" /\ stopper' = "wait" /\ AudioStop
    /\ crossed' = (crossed \/ starter # "idle")
    /\ UNCHANGED <<storeVars, statusVars, starter, switcher, saver, offsetter, reports,
                   starts, missed>>

\* 400 ms later.
Waited == reports = {} /\ offsetter = Nothing

StopClosed ==
    /\ stopper = "wait" /\ Waited /\ stopper' = "mark"
    /\ CloseOffscreen /\ status' = "off"
    /\ UNCHANGED <<storeVars, muted, starter, switcher, saver, offsetter, reports,
                   effortVars, seenVars>>

Mark ==
    /\ stopper = "mark" /\ stopper' = "idle"
    /\ session' = [session EXCEPT !.stopped = TRUE]
    /\ UNCHANGED <<enabled, audio, statusVars, starter, switcher, saver, offsetter, docVars,
                   reports, effortVars, seenVars>>

\* The popup has the switch only while nothing is recorded.
SwitchOn ==
    /\ ~enabled /\ ~Live(session) /\ Spend
    /\ enabled' = TRUE
    /\ UNCHANGED <<session, audio, statusVars, taskVars, docVars, reports, starts,
                   seenVars>>

\* The page that asks for the microphone turns it off at any time.
SwitchOff ==
    /\ enabled /\ switcher = "idle" /\ Spend
    /\ enabled' = FALSE
    /\ \/ status = "off" /\ UNCHANGED <<switcher, docVars>>
       \/ status # "off" /\ switcher' = "wait" /\ AudioStop
    /\ crossed' = (crossed \/ starter # "idle")
    /\ UNCHANGED <<session, audio, statusVars, starter, stopper, saver, offsetter, reports,
                   starts, missed>>

SwitchClosed ==
    /\ switcher = "wait" /\ Waited /\ switcher' = "idle"
    /\ CloseOffscreen /\ status' = "off"
    /\ UNCHANGED <<storeVars, muted, starter, stopper, saver, offsetter, reports,
                   effortVars, seenVars>>

\* toggle-mute: the popup shows the button while it believes in a microphone.
ToggleMute ==
    /\ Live(session) /\ status \in {"listening", "muted"} /\ Spend
    /\ muted' = ~muted
    /\ status' = IF muted' THEN "muted" ELSE "listening"
    /\ IF doc THEN AudioMute(muted') ELSE UNCHANGED docVars
    /\ UNCHANGED <<storeVars, taskVars, reports, starts, seenVars>>

-----------------------------------------------------------------------------
\* The document.

\* start, after getUserMedia.
MicOpens(n) ==
    /\ n \in asking /\ asking' = asking \ {n}
    /\ open' = open \cup {n} /\ stream' = n /\ recorder' = n /\ running' = running \cup {n}
    /\ missed' = IF muted THEN missed \cup {n} ELSE missed
    /\ reports' = reports \cup {[type |-> "started", of |-> n]}
    /\ UNCHANGED <<storeVars, statusVars, taskVars, doc, silent, stopping, seq, puts,
                   effortVars, crossed>>

\* No permission, no microphone, or no format to record in.
MicFails(n) ==
    /\ n \in asking /\ asking' = asking \ {n}
    /\ \E reason \in {"denied", "unsupported"} :
          reports' = reports \cup {[type |-> "failed", reason |-> reason]}
    /\ UNCHANGED <<storeVars, statusVars, taskVars, doc, open, silent, stream, recorder,
                   running,
                   stopping, seq, puts, effortVars, seenVars>>

\* onerror: the recorder is done, the stream goes on.
RecorderFails(n) ==
    /\ n \in running /\ running' = running \ {n}
    /\ reports' = reports \cup {[type |-> "failed", reason |-> "unsupported"]}
    /\ UNCHANGED <<storeVars, statusVars, taskVars, doc, asking, open, silent, stream,
                   recorder,
                   stopping, seq, puts, effortVars, seenVars>>

\* ondataavailable, every five seconds and for the tail.
Chunk(n) ==
    /\ n \in running \cup stopping /\ seq < MaxChunks
    /\ puts' = Append(puts, [key |-> seq, of |-> n])
    /\ seq' = seq + 1 /\ stopping' = stopping \ {n}
    /\ UNCHANGED <<storeVars, statusVars, taskVars, doc, asking, open, silent, stream,
                   recorder,
                   running, reports, effortVars, seenVars>>

\* putAudioChunk
PutAudioChunk ==
    /\ puts # <<>> /\ puts' = Tail(puts)
    /\ audio' = [audio EXCEPT ![Head(puts).key] = Head(puts).of]
    /\ UNCHANGED <<enabled, session, statusVars, taskVars, doc, micVars, reports,
                   effortVars, seenVars>>

-----------------------------------------------------------------------------
\* The worker hears of it.

\* audio-started, up to getSession,
HearStarted ==
    \E r \in reports :
        /\ r.type = "started" /\ offsetter = Nothing
        /\ reports' = reports \ {r}
        /\ offsetter' = IF session = NoSession THEN Nothing ELSE [of |-> r.of, seen |-> session]
        /\ UNCHANGED <<storeVars, statusVars, starter, stopper, switcher, saver, docVars,
                       effortVars, seenVars>>

\* and from there on.
SetOffset ==
    /\ offsetter # Nothing /\ offsetter' = Nothing
    /\ session' = [offsetter.seen EXCEPT !.offset = offsetter.of]
    /\ status' = IF muted THEN "muted" ELSE "listening"
    /\ UNCHANGED <<enabled, audio, muted, starter, stopper, switcher, saver, docVars,
                   reports, effortVars, seenVars>>

\* audio-failed
HearFailed ==
    \E r \in reports :
        /\ r.type = "failed" /\ reports' = reports \ {r}
        /\ status' = r.reason
        /\ UNCHANGED <<storeVars, muted, taskVars, docVars, effortVars, seenVars>>

\* ingest reads the session, also a stopped one if the event is a late one,
Read == /\ session # NoSession /\ saver = NoSession /\ Spend
        /\ saver' = session
        /\ UNCHANGED <<storeVars, statusVars, starter, stopper, switcher, offsetter,
                       docVars, reports, starts, seenVars>>

\* and writes it back, after storing the event and a screenshot.
Save == /\ saver # NoSession /\ saver' = NoSession
        /\ session' = saver
        /\ UNCHANGED <<enabled, audio, statusVars, starter, stopper, switcher, offsetter,
                       docVars,
                       reports, effortVars, seenVars>>

\* The worker is evicted; what it knew of the microphone goes with it.
Evict == /\ Calm /\ saver = NoSession /\ Waited /\ asking = {} /\ open = {}
         /\ Spend
         /\ status' = "off" /\ muted' = FALSE
         /\ UNCHANGED <<storeVars, taskVars, docVars, reports, starts, seenVars>>

Next == \/ PressStart \/ PressStop \/ SwitchOn \/ SwitchOff \/ ToggleMute
        \/ Clear \/ Begin \/ Ask \/ OpenOffscreen \/ TellStart
        \/ StopClosed \/ Mark \/ SwitchClosed
        \/ \E n \in asking : MicOpens(n) \/ MicFails(n)
        \/ \E n \in running : RecorderFails(n)
        \/ \E n \in running \cup stopping : Chunk(n)
        \/ PutAudioChunk \/ HearStarted \/ SetOffset \/ HearFailed
        \/ Read \/ Save \/ Evict

Spec == Init /\ [][Next]_vars

-----------------------------------------------------------------------------
(***************************************************************************)
(* Properties                                                              *)
(***************************************************************************)

\* serviceWorker.ts, "created on demand and closed with the recording", and "a
\* recorder that silently opens the microphone is not something to ship": when
\* nothing is recorded, or narration is switched off, no microphone is open and
\* none is about to be - unless somebody pressed Stop or turned the switch while
\* Start was under way, or the other way round.
MicrophoneClosesWithTheRecording ==
    Calm /\ ~crossed /\ (~Live(session) \/ ~enabled) => open = {} /\ asking = {}

\* The keys of the stored chunks.
Stored == {k \in DOMAIN audio : audio[k] # 0}

\* store.ts, "Concatenated out of order, or with one missing, the result is not a
\* file any decoder will open": the audio of a session is from one recorder, its
\* own, from the first chunk on and without a gap, and what is said of its
\* beginning is said of no other - unless requests have crossed.
AudioIsOneStream ==
    session # NoSession /\ ~crossed =>
        /\ Stored = 0..(Cardinality(Stored) - 1)
        /\ \A k \in Stored : audio[k] = session.id
        /\ session.offset \in {0, session.id}

\* messages.ts, 'The escape hatch for "I am about to say something I would rather
\* not have written down"': when the popup says muted, no microphone is heard -
\* but one that opened after Mute was pressed, or if requests have crossed.
MutedIsSilent ==
    status = "muted" /\ ~crossed => open \subseteq silent \cup missed
=============================================================================
