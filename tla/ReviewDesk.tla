------------------------------ MODULE ReviewDesk ------------------------------
(***************************************************************************)
(* Reviewers at a run directory while the pipeline works in it             *)
(* (server/api/app.py: _edit, _save, export; server/api/review.py).        *)
(*                                                                         *)
(* An edit loads ir.json and review.json, changes both in memory, and      *)
(* saves ir.json, review.json and the feature file, one after the other.   *)
(* Approving goes the same way.  An export loads ir.json and then asks     *)
(* trace.json whether the gate let the run through.  No lock is taken: the *)
(* lock of a recording is for jobs only, and a re-run works in the same    *)
(* directory.                                                              *)
(*                                                                         *)
(* Data: an edit is the request that made it; what it changes in a step is *)
(* left out.  A request that is refused or fails is over.                  *)
(***************************************************************************)
EXTENDS PipelineRounds

CONSTANTS Requests,   \* what reviewers ask for
          MayFail     \* may a run or a request fail half way?

ASSUME DeskAssumption == MayFail \in BOOLEAN

VARIABLES req,    \* where the thread of a request is
          kind,   \* what it asks for
          held,   \* the IR it has loaded
          seen    \* the review it has loaded

\* Seen from outside only: whether an edit was loaded during the run; what was
\* exported; whether a request was calm, that is, loaded while no run was going
\* on and after none that was crossed; whether anything was saved since the run
\* began; and whether requests and runs got in each other's way.
VARIABLES crossed, exported, calm, touched, disturbed

deskVars == <<req, kind, held, seen, calm, exported>>
deskHistory == <<touched, disturbed, crossed>>
vars == <<pipelineVars, deskVars, deskHistory>>

Kinds   == {"edit", "approve", "export"}
Closed  == {"none", "done", "over"}
Editing == {q \in Requests : req[q] \notin Closed /\ kind[q] # "export"}
Saving  == {"applied", "saved", "recorded"}

\* The document and the record of a review as a request leaves them.
Edited(q)   == IF kind[q] = "edit" THEN [held[q] EXCEPT !.edits = @ \cup {q}] ELSE held[q]
Recorded(q) == IF kind[q] = "edit" THEN [seen[q] EXCEPT !.edits = @ \cup {q}]
                                   ELSE [seen[q] EXCEPT !.approved = TRUE]

\* Mutant of HardFailed: takes a run without a trace for clean.
HardFailedOnRecord == trace.draft # 0 /\ Gate(trace.draft) = "hard"

\* The gate's verdict as trace.json has it; no trace is no verdict.
HardFailed == IF trace.draft = 0 THEN TRUE ELSE Gate(trace.draft) = "hard"

\* A request ends, and what it had loaded is gone.
EndRequest(q, how) ==
    /\ req'  = [req EXCEPT ![q] = how]
    /\ kind' = [kind EXCEPT ![q] = "edit"]
    /\ held' = [held EXCEPT ![q] = Nothing] /\ seen' = [seen EXCEPT ![q] = NoReview]
    /\ calm' = [calm EXCEPT ![q] = FALSE]

---------------------------------------------------------------------------
DeskInit ==
    /\ Init
    /\ req = [q \in Requests |-> "none"] /\ kind = [q \in Requests |-> "edit"]
    /\ held = [q \in Requests |-> Nothing] /\ seen = [q \in Requests |-> NoReview]
    /\ calm = [q \in Requests |-> FALSE]
    /\ exported = {} /\ crossed = FALSE /\ touched = FALSE /\ disturbed = FALSE

\* A request arrives and loads ir.json; without one it is a 404.
LoadIR(q) ==
    /\ req[q] = "none" /\ ir.draft # 0
    /\ \E k \in Kinds :
           /\ kind' = [kind EXCEPT ![q] = k]
           /\ crossed' = (crossed \/ (k # "export" /\ at \notin Resting))
           /\ disturbed' = (disturbed \/ (k # "export" /\ (Editing # {} \/ at \notin Resting)))
    /\ held' = [held EXCEPT ![q] = ir]
    /\ req' = [req EXCEPT ![q] = "loaded"]
    /\ calm' = [calm EXCEPT ![q] = at \in Resting /\ ~crossed]
    /\ UNCHANGED <<pipelineVars, seen, exported, touched>>

\* review.json, or a new one when there is none; the change is then made in
\* memory.
LoadReview(q) ==
    /\ req[q] = "loaded" /\ kind[q] # "export"
    /\ seen' = [seen EXCEPT ![q] = IF review.kept THEN review ELSE NewReview]
    /\ req' = [req EXCEPT ![q] = "applied"]
    /\ UNCHANGED <<pipelineVars, kind, held, calm, exported, deskHistory>>

\* The IR cannot accept the change (ReviewError).
RefuseEdit(q) ==
    /\ req[q] = "loaded" /\ kind[q] = "edit"
    /\ EndRequest(q, "over")
    /\ UNCHANGED <<pipelineVars, exported, deskHistory>>

SaveEditedIR(q) ==
    /\ req[q] = "applied"
    /\ ir' = Edited(q)
    /\ req' = [req EXCEPT ![q] = "saved"]
    /\ touched' = TRUE
    /\ UNCHANGED <<localVars, drafts, runs, author, files, judge, trace, review,
                   kind, held, seen, calm, exported, disturbed, crossed>>

\* Mutant of SaveReview: forgets to save the record of what was done.
SaveNoReview(q) ==
    /\ req[q] = "saved"
    /\ req' = [req EXCEPT ![q] = "recorded"]
    /\ UNCHANGED <<pipelineVars, kind, held, seen, calm, exported, deskHistory>>

SaveReview(q) ==
    /\ req[q] = "saved"
    /\ review' = Recorded(q)
    /\ req' = [req EXCEPT ![q] = "recorded"]
    /\ UNCHANGED <<localVars, drafts, runs, author, ir, files, judge, trace,
                   kind, held, seen, calm, exported, deskHistory>>

\* The feature file is rendered again, whatever the gate said of the document.
Rerender(q) ==
    /\ req[q] = "recorded"
    /\ files' = [files EXCEPT ![Name(held[q].draft)] = Edited(q)]
    /\ EndRequest(q, "done")
    /\ UNCHANGED <<localVars, drafts, runs, author, ir, judge, trace, review,
                   exported, deskHistory>>

---------------------------------------------------------------------------
Export(q) ==
    /\ req[q] = "loaded" /\ kind[q] = "export"
    /\ ~HardFailed
    /\ exported' = exported \cup {[draft |-> held[q].draft, calm |-> calm[q], runs |-> runs]}
    /\ EndRequest(q, "done")
    /\ UNCHANGED <<pipelineVars, deskHistory>>

RefuseExport(q) ==
    /\ req[q] = "loaded" /\ kind[q] = "export"
    /\ HardFailed
    /\ EndRequest(q, "over")
    /\ UNCHANGED <<pipelineVars, exported, deskHistory>>

\* A write of a request raises, or its thread is gone.
FailRequest(q) ==
    /\ MayFail /\ req[q] \in Saving
    /\ EndRequest(q, "over")
    /\ disturbed' = TRUE
    /\ UNCHANGED <<pipelineVars, exported, touched, crossed>>

DeskStep ==
    \E q \in Requests :
        \/ LoadIR(q) \/ LoadReview(q) \/ RefuseEdit(q)
        \/ SaveEditedIR(q) \/ SaveReview(q) \/ Rerender(q)
        \/ Export(q) \/ RefuseExport(q) \/ FailRequest(q)

\* The directory's next run, which has it for itself only if nobody is
\* editing.
Rerun ==
    /\ StartRun
    /\ touched' = (Editing # {}) /\ disturbed' = (Editing # {}) /\ crossed' = FALSE
    /\ UNCHANGED deskVars

DeskNext ==
    \/ DeskStep
    \/ Rerun
    \/ PipelineStep /\ UNCHANGED <<deskVars, deskHistory>>
    \/ MayFail /\ Abort /\ disturbed' = TRUE /\ UNCHANGED <<deskVars, touched, crossed>>

DeskSpec == DeskInit /\ [][DeskNext]_vars

---------------------------------------------------------------------------
\* Requests and what they leave behind keep their types.
DeskTypeOK ==
    /\ Typed(Requests)
    /\ req \in [Requests -> Closed \cup Saving \cup {"loaded"}]
    /\ kind \in [Requests -> Kinds]
    /\ held \in [Requests -> [draft : 0..Len(drafts), edits : SUBSET Requests]]
    /\ seen \in [Requests -> [edits : SUBSET Requests, approved : BOOLEAN, kept : BOOLEAN]]
    /\ calm \in [Requests -> BOOLEAN]
    /\ exported \subseteq [draft : 1..Len(drafts), calm : BOOLEAN, runs : 0..MaxRuns]
    /\ touched \in BOOLEAN /\ disturbed \in BOOLEAN /\ crossed \in BOOLEAN

\* Nobody is at work in the directory, and nobody was disturbed.
Quiet == at \in Resting /\ Editing = {} /\ ~disturbed

\* As long as requests come one at a time, whole and not during a run, the record
\* has exactly the edits the document went through, and a feature file shows
\* that very document (review.py:8-11, app.py:1120-1125).
RecordMatchesDocument ==
    Quiet =>
        /\ review.edits = ir.edits
        /\ \A n \in Names : files[n] \in {Nothing, ir}

\* A run that has ended well and that nobody has touched since it began has all
\* files of one round, whatever runs and reviewers left there before
\* (run.py:1401-1423).
UntouchedRunIsWhole == ~touched => FilesOfOneRound

\* In the first run of a directory the verdict in trace.json, by which exports are
\* let through, is never older than the IR they read - unless an edit was loaded
\* during the run (app.py:1101-1114).
VerdictCoversTheDraft ==
    runs <= 1 /\ ~crossed /\ trace.draft # 0 => trace.draft = ir.draft

\* In the first run of a directory, an export that loaded its IR when no run was
\* going on is never one of a document that failed hard - unless an edit was
\* loaded during the run, which may put the document of an earlier round back
\* beside the trace of the last (app.py:720-733).
CalmExportsAreCleared ==
    \A e \in exported : e.calm /\ e.runs <= 1 => Gate(e.draft) # "hard"

=============================================================================
