------------------------------- MODULE Capture -------------------------------
(***************************************************************************)
(* What a page does on the wire while it is recorded, and where it ends up *)
(* in the recording: the patch in the page (main-world/netpatch.ts), the   *)
(* content script that dates and redacts (content/index.ts,                *)
(* redaction/redact.ts), the observation store (background/store.ts, the   *)
(* network and console cases of serviceWorker.ts) and the assembly of the  *)
(* export page (export/export.ts, export/budget.ts).                       *)
(*                                                                         *)
(* One session.  How actions settle, how frames are told and how handlers  *)
(* of the worker interleave is RecorderSession; here an action is begun,   *)
(* and sent when it has settled.  A document of a frame has its own patch, *)
(* content script and Redactor, all of which begin anew when another       *)
(* document is loaded.                                                     *)
(*                                                                         *)
(* Data: a call is what the budget ranks it by and the value its body      *)
(* carries, a line of the console the value it carries.  A value is one    *)
(* that a numbered rule recognises (an email address); its placeholder is  *)
(* its number.  Redaction is at its full level; secret fields, whose       *)
(* placeholder has no number, headers and URLs are left out.  Time is in   *)
(* units of LEAD_MS.                                                       *)
(***************************************************************************)
EXTENDS Naturals, Sequences, FiniteSets

CONSTANTS Frames,           \* frames of the recorded tabs
          FrameId,          \* the browser's number of a frame, 0 for the top of every tab
          Values, NoValue,  \* what the rules recognise
          Typed,            \* what an action may type in a frame,
          Lines,            \* what a line of its console may say,
          Kinds,            \* and the calls it may make: [ours, writes, value]
          Lead,             \* LEAD_MS
          MaxCallsPerEvent, \* MAX_CALLS_PER_EVENT
          MaxActions, MaxNotes,   \* bounds: how many of each
          MaxEffort,        \* bound: actions, calls, lines, notes and loads together
          MaxClock,         \* bound: distinguishable moments
          MaxLoads,         \* bound: documents loaded
          MaxStarts         \* bound: start messages and query-state answers

ASSUME CaptureAssumption ==
    /\ FrameId \in [Frames -> Nat]
    /\ NoValue \notin Values
    /\ {Typed, Lines} \subseteq [Frames -> SUBSET (Values \cup {NoValue})]
    /\ Kinds \in [Frames -> SUBSET [ours : BOOLEAN, writes : BOOLEAN,
                                     value : Values \cup {NoValue}]]
    /\ Lead \in Nat
    /\ MaxCallsPerEvent \in Nat \ {0}
    /\ {MaxActions, MaxNotes, MaxEffort, MaxClock, MaxLoads, MaxStarts} \subseteq Nat

\* Milliseconds of the epoch are later than any of the session: the time of a
\* document whose recorder has not been started is the first kind.
Epoch == MaxClock + 1

VARIABLES
    doc,        \* of each frame: its document's patch, content script and Redactor
    acts,       \* the tester's actions, in the order they were begun
    pending,    \* those whose page is still settling
    rows,       \* the events store
    params,     \* the placeholders among session.parameters
    obs,        \* the observation store
    notes,      \* session.annotations
    clock,
    stage,      \* of the session: live, stopping, stopped, or assembled
    recording,  \* what the page assembled
    loads, starts, effort   \* how many so far

\* Seen from outside only: the calls answered while they were being recorded.
VARIABLE answered

docVars == <<doc, loads, starts, effort>>
actVars == <<acts, pending, rows, params>>
obsVars == <<obs, answered>>
endVars == <<stage, recording>>
vars == <<docVars, actVars, obsVars, notes, clock, endVars>>

\* A document of which no recorder has been started.  "start" counts the starts.
Fresh == [start |-> 0, calls |-> 0, lines |-> 0, assigned |-> <<>>, open |-> {}]

Nothing == [calls |-> {}, notes |-> {}, parameters |-> {}]

Init == /\ doc = [f \in Frames |-> Fresh]
        /\ acts = <<>> /\ pending = {} /\ rows = {} /\ params = {}
        /\ obs = {} /\ answered = {}
        /\ notes = <<>>
        /\ clock = 0
        /\ stage = "live" /\ recording = Nothing
        /\ loads = 0 /\ starts = 0 /\ effort = 0

\* One more of what the bound counts.
Spend == effort < MaxEffort /\ effort' = effort + 1

\* What the worker still takes in: the session is not marked stopped.
Open == stage \in {"live", "stopping"}

\* The session time of a document, that of the epoch before its recorder starts.
Now(f) == IF doc[f].start = 0 THEN Epoch ELSE clock

\* The last action begun in a frame, 0 for none.  Seen from outside only.
Cause(f) == IF \E n \in DOMAIN acts : acts[n].frame = f
            THEN CHOOSE n \in DOMAIN acts : /\ acts[n].frame = f
                                            /\ \A m \in n + 1..Len(acts) : acts[m].frame # f
            ELSE 0

-----------------------------------------------------------------------------
\* The Redactor of a document: the values it has numbered, in that order.

\* placeholderFor: a value met for the first time gets the next number.
Known(assigned, v) == IF v = NoValue \/ \E i \in DOMAIN assigned : assigned[i] = v
                      THEN assigned ELSE Append(assigned, v)

\* redactText, redactBody: the number that replaces a value, 0 where there is none.
Placeholder(assigned, v) ==
    IF v = NoValue THEN 0 ELSE CHOOSE i \in 1..Len(Known(assigned, v)) : Known(assigned, v)[i] = v

\* Redactor.parameters.
Parameters(assigned) == 1..Len(assigned)

-----------------------------------------------------------------------------
\* The documents.

\* A document is loaded: the one before it is gone with the calls it waits for
\* and the actions that have not settled.  One that has done nothing yet is not
\* told from the next.
Load(f) ==
    /\ Open /\ doc[f] # Fresh /\ Spend
    /\ loads < MaxLoads /\ loads' = loads + 1
    /\ doc' = [doc EXCEPT ![f] = Fresh]
    /\ pending' = {n \in pending : acts[n].frame # f}
    /\ UNCHANGED <<acts, rows, params, obsVars, notes, clock, endVars, starts>>

\* Recorder.start, from a start message or the answer to query-state.  It comes
\* again when the worker announces the session to a tab that has just loaded.
Start(f) ==
    /\ stage = "live"
    /\ starts < MaxStarts /\ starts' = starts + 1
    /\ doc' = [doc EXCEPT ![f].start = @ + 1, ![f].assigned = <<>>]
    /\ UNCHANGED <<actVars, obsVars, notes, clock, endVars, loads, effort>>

\* capture, up to the wait: the action gets its time, what was typed its placeholder.
\* A window that is still open in the frame has been superseded, and its event sent.
Begin(f, v) ==
    /\ stage = "live" /\ doc[f].start # 0
    /\ Len(acts) < MaxActions /\ Spend
    /\ \A n \in pending : acts[n].frame # f
    /\ acts' = Append(acts, [frame |-> f, at |-> clock, start |-> doc[f].start,
                             says |-> Placeholder(doc[f].assigned, v)])
    /\ pending' = pending \cup {Len(acts) + 1}
    /\ doc' = [doc EXCEPT ![f].assigned = Known(@, v)]
    /\ UNCHANGED <<rows, params, obsVars, notes, clock, endVars, loads, starts>>

\* The page has settled: the event is sent with the parameters so far, and ingest
\* stores the one and merges the other.
Send(n) ==
    LET d == doc[acts[n].frame]
    IN  /\ n \in pending /\ Open
        /\ pending' = pending \ {n}
        /\ rows' = rows \cup {[act |-> n, at |-> acts[n].at, order |-> Cardinality(rows),
                               id |-> FrameId[acts[n].frame],
                               start |-> d.start]}
        /\ params' = params \cup Parameters(d.assigned)
        /\ UNCHANGED <<doc, acts, obsVars, notes, clock, endVars, loads, starts, effort>>

-----------------------------------------------------------------------------
\* The wire and the console.

\* patchedFetch, patchedSend: the call is numbered and the content script told,
\* which dates it, whether or not it records.
Request(f, kind) ==
    /\ Open /\ Spend
    /\ doc' = [doc EXCEPT ![f].calls = @ + 1,
                          ![f].open = @ \cup {[name |-> doc[f].calls + 1, at |-> Now(f), kind |-> kind,
                                               by |-> Cause(f), frame |-> f]}]
    /\ UNCHANGED <<actVars, obsVars, notes, clock, endVars, loads, starts>>

Key(o) == <<o.id, o.type, o.name>>

\* Mutant of Reported: a call is part of the event that is being captured.
ReportedWhileSettling(o) ==
    IF Open /\ pending # {} THEN {x \in obs : Key(x) # Key(o)} \cup {o} ELSE obs

\* The network and console cases of the worker, and putObservation.
Reported(o) == IF Open THEN {x \in obs : Key(x) # Key(o)} \cup {o} ELSE obs

\* The call ends: what its body carries is redacted, and it is reported.
Respond(f, c) ==
    LET o == [id |-> FrameId[f], type |-> "network", name |-> c.name, at |-> c.at, kind |-> c.kind,
              says |-> Placeholder(doc[f].assigned, c.kind.value), by |-> c.by, frame |-> f,
              nth |-> Cardinality(answered)]
    IN  /\ c \in doc[f].open /\ Open
        /\ doc' = [doc EXCEPT ![f].open = @ \ {c}, ![f].assigned = Known(@, c.kind.value)]
        /\ obs' = Reported(o)
        /\ answered' = answered \cup {o}
        /\ UNCHANGED <<actVars, notes, clock, endVars, loads, starts, effort>>

\* console.error, console.warn, an error nobody caught.
Log(f, v) ==
    LET o == [id |-> FrameId[f], type |-> "console", name |-> doc[f].lines + 1, at |-> Now(f),
              says |-> Placeholder(doc[f].assigned, v), by |-> Cause(f), frame |-> f]
    IN  /\ Open /\ Spend
        /\ doc' = [doc EXCEPT ![f].lines = @ + 1, ![f].assigned = Known(@, v)]
        /\ obs' = Reported(o)
        /\ UNCHANGED <<actVars, answered, notes, clock, endVars, loads, starts>>

\* addAnnotation: a note, or a boundary between steps or scenarios.
Note(boundary) ==
    /\ Open /\ Len(notes) < MaxNotes /\ Spend
    /\ notes' = Append(notes, [at |-> clock, boundary |-> boundary, by |-> Len(acts)])
    /\ UNCHANGED <<doc, actVars, obsVars, clock, endVars, loads, starts>>

Tick == /\ Open /\ clock < MaxClock /\ clock' = clock + 1
        /\ UNCHANGED <<docVars, actVars, obsVars, notes, endVars>>

-----------------------------------------------------------------------------
\* Assembly.

Later(x, y) == x.at > y.at \/ (x.at = y.at /\ x.order > y.order)
Latest(S)   == CHOOSE x \in S : \A y \in S \ {x} : Later(x, y)
Earliest(S) == CHOOSE x \in S : \A y \in S \ {x} : Later(y, x)

\* Mutant of Owner: the frames are not told apart.
OwnerInAnyFrame(o) ==
    LET begun == {r \in rows : r.at <= o.at + Lead}
    IN  IF rows = {} THEN {} ELSE {IF begun # {} THEN Latest(begun) ELSE Earliest(rows)}

\* attributeObservations: the event an observation is put into, in a set of one.
Owner(o) ==
    LET candidates == {r \in rows : r.id = o.id}
        begun == {r \in candidates : r.at <= o.at + Lead}
    IN  IF candidates = {} THEN {}
        ELSE {IF begun # {} THEN Latest(begun) ELSE Earliest(candidates)}

\* budgetNetwork: what an event may carry of its calls.
Rank(c) == CASE c.kind.ours /\ c.kind.writes -> 0
             [] c.kind.ours /\ ~c.kind.writes -> 1
             [] ~c.kind.ours /\ c.kind.writes -> 2
             [] OTHER -> 3

\* The order of the store is that of time, then of the key.
Before(c, d) == c.at < d.at \/ (c.at = d.at /\ c.name < d.name)

Goes(c, d) == Rank(c) < Rank(d) \/ (Rank(c) = Rank(d) /\ Before(c, d))

Budget(calls) == {c \in calls : Cardinality({d \in calls : Goes(d, c)}) < MaxCallsPerEvent}

CallsOf(r) == Budget({o \in obs : o.type = "network" /\ r \in Owner(o)})
LinesOf(r) == {o \in obs : o.type = "console" /\ r \in Owner(o)}

\* Mutant of NoteOwner: a note is about what the tester does next.
NextNoteOwner(n) ==
    LET after == {r \in rows : r.at >= n.at}
    IN  IF rows = {} THEN {} ELSE {IF after # {} THEN Earliest(after) ELSE Latest(rows)}

\* attributeAnnotations: the event a note is put into, in a set of one.
NoteOwner(n) ==
    LET begun == {r \in rows : r.at <= n.at}
    IN  IF n.boundary \/ rows = {} THEN {}
        ELSE {IF begun # {} THEN Latest(begun) ELSE Earliest(rows)}

\* What the events mention.
Mentioned == {acts[r.act].says : r \in rows}
             \cup {o.says : o \in UNION {CallsOf(r) \cup LinesOf(r) : r \in rows}}

\* Mutant of LiveParameters: all that the Redactors ever recognised.
AllParameters == params

LiveParameters == params \cap Mentioned

\* stopRecording: the frames stop recording and send what is settling,
Stop == /\ stage = "live" /\ stage' = "stopping"
        /\ UNCHANGED <<docVars, actVars, obsVars, notes, clock, recording>>

\* and the session is marked stopped,
MarkStopped == /\ stage = "stopping" /\ pending = {}
               /\ stage' = "stopped"
               /\ UNCHANGED <<docVars, actVars, obsVars, notes, clock, recording>>

\* which the export page has waited for.
Assemble ==
    /\ stage = "stopped" /\ stage' = "assembled"
    /\ recording' = [calls |-> UNION {{r.act} \X (CallsOf(r) \cup LinesOf(r)) : r \in rows},
                     notes |-> UNION {{r.act : r \in NoteOwner(notes[i])} \X {i} : i \in DOMAIN notes},
                     parameters |-> LiveParameters]
    /\ UNCHANGED <<docVars, actVars, obsVars, notes, clock>>

Next == \/ \E f \in Frames : Load(f) \/ Start(f)
        \/ \E f \in Frames : \E v \in Typed[f] : Begin(f, v)
        \/ \E f \in Frames : \E v \in Lines[f] : Log(f, v)
        \/ \E n \in pending : Send(n)
        \/ \E f \in Frames : \E kind \in Kinds[f] : Request(f, kind)
        \/ \E f \in Frames : \E c \in doc[f].open : Respond(f, c)
        \/ \E boundary \in BOOLEAN : Note(boundary)
        \/ Tick \/ Stop \/ MarkStopped \/ Assemble

Spec == Init /\ [][Next]_vars

-----------------------------------------------------------------------------
(***************************************************************************)
(* Properties                                                              *)
(***************************************************************************)

Docs == [start : Nat, calls : Nat, lines : Nat, assigned : Seq(Values),
         open : SUBSET [name : Nat, at : 0..Epoch, kind : UNION {Kinds[f] : f \in Frames},
                        by : Nat, frame : Frames]]
Acts == Seq([frame : Frames, at : 0..MaxClock, start : Nat, says : Nat])
Rows == [act : Nat, at : 0..MaxClock, order : Nat, id : Nat, start : Nat]
Calls == [id : Nat, type : {"network"}, name : Nat, at : 0..Epoch,
          kind : UNION {Kinds[f] : f \in Frames}, says : Nat, by : Nat, frame : Frames, nth : Nat]
Entries == [id : Nat, type : {"console"}, name : Nat, at : 0..Epoch, says : Nat, by : Nat, frame : Frames]

TypeOK ==
    /\ doc \in [Frames -> Docs]
    /\ acts \in Acts /\ pending \subseteq DOMAIN acts
    /\ rows \subseteq Rows /\ params \subseteq Nat
    /\ obs \subseteq Calls \cup Entries /\ answered \subseteq Calls
    /\ notes \in Seq([at : 0..MaxClock, boundary : BOOLEAN, by : Nat])
    /\ clock \in 0..MaxClock
    /\ stage \in {"live", "stopping", "stopped", "assembled"}
    /\ recording.calls \subseteq Nat \X (Calls \cup Entries)
    /\ recording.notes \subseteq Nat \X Nat /\ recording.parameters \subseteq Nat
    /\ loads \in 0..MaxLoads /\ starts \in 0..MaxStarts /\ effort \in 0..MaxEffort

Assembled == stage = "assembled"
Stored(n) == \E r \in rows : r.act = n

\* export.ts attributeObservations, "Attach each network call and console entry
\* to the action that caused it": what a document saw on the session's clock goes
\* to the last action of its own frame, or to one begun there within the lead
\* after it, however late it ended - unless another frame has the same number.
CallsBelongToTheirAction ==
    Assembled => \A x \in recording.calls :
        LET a == x[1]
            o == x[2]
        IN  /\ o.at # Epoch
            /\ \A g \in Frames \ {o.frame} : FrameId[g] # o.id
            /\ o.by # 0 /\ Stored(o.by)
            => \/ a = o.by
               \/ a > o.by /\ acts[a].frame = o.frame /\ acts[a].at <= o.at + Lead

Kept(c) == \E x \in recording.calls : x[2] = c

\* export.ts, "a request that outlives its own settle window was simply never
\* recorded": every call answered before the session was marked stopped is in the
\* recording if its frame has an event - unless its number was given again, by a
\* later document of the frame or another tab, or its event is full of calls that
\* say no less of the application.
AnsweredCallsAreKept ==
    Assembled => \A c \in answered :
        \/ Kept(c)
        \/ \E d \in answered : d.nth > c.nth /\ Key(d) = Key(c)
        \/ \A r \in rows : r.id # c.id
        \/ \E r \in rows : LET full == {x \in recording.calls : x[1] = r.act /\ x[2].type = "network"}
                           IN  /\ Cardinality(full) = MaxCallsPerEvent
                               /\ \A x \in full : Rank(x[2]) <= Rank(c)

\* export.ts attributeAnnotations: a note is about the action on which the tester
\* was when making it, although that action may have been sent long after; two
\* actions of one moment are not told apart.
NotesFollowTheirAction ==
    Assembled => \A x \in recording.notes :
        LET by == notes[x[2]].by
        IN  by # 0 /\ Stored(by) => acts[x[1]].at \in {acts[by].at, notes[x[2]].at}

\* export.ts liveParameters: what the test asks for is what the recording
\* mentions, and has whatever the tester typed - unless the recorder was started
\* anew before the action settled.
ParametersFit ==
    Assembled =>
        /\ recording.parameters \subseteq
               {acts[r.act].says : r \in rows} \cup {x[2].says : x \in recording.calls}
        /\ \A r \in rows : acts[r.act].says # 0 /\ r.start = acts[r.act].start
                               => acts[r.act].says \in recording.parameters

=============================================================================
