------------------------------ MODULE JobRunner ------------------------------
(***************************************************************************)
(* The background jobs of the API server (server/api/jobs.py): every job   *)
(* is a thread of its own, and one lock per recording lets the jobs of one *)
(* recording run one after the other.  A waiting thread blocks on a plain  *)
(* threading.Lock, which hands itself to ANY of its waiters: nothing here  *)
(* says the oldest job goes first.                                         *)
(*                                                                         *)
(* What a job does once it runs is not this module's business; the modules *)
(* that extend it add the work.  Nothing of a job is on disk, so a restart *)
(* of the server forgets all of them and numbers the next one 1 again.     *)
(***************************************************************************)
EXTENDS Naturals

CONSTANTS Recordings,   \* the recordings the server knows
          MaxJobs,      \* bound: jobs created between two restarts
          NoRecording   \* "recording" of a job that does not exist

ASSUME RunnerAssumption == /\ MaxJobs \in Nat
                           /\ NoRecording \notin Recordings

Jobs  == 1..MaxJobs
NoJob == 0

VARIABLES created,  \* number of jobs created: the ids in use are 1..created
          rec,      \* the recording a job is about
          state,    \* JobState, "absent" before the job is created
          lock      \* the job holding a recording's lock, or NoJob

runnerVars == <<created, rec, state, lock>>

JobStates == {"absent", "queued", "running", "done", "failed"}

RunnerTypeOK == /\ created \in 0..MaxJobs
                /\ rec \in [Jobs -> Recordings \cup {NoRecording}]
                /\ state \in [Jobs -> JobStates]
                /\ lock \in [Recordings -> Jobs \cup {NoJob}]

RunnerInit == /\ created = 0
              /\ rec = [j \in Jobs |-> NoRecording]
              /\ state = [j \in Jobs |-> "absent"]
              /\ lock = [r \in Recordings |-> NoJob]

\* The jobs of a recording that are still to finish.
Live(r) == {j \in Jobs : rec[j] = r /\ state[j] \in {"queued", "running"}}

-----------------------------------------------------------------------------

\* The next id is the number of jobs so far plus one; the thread starts at once.
Enqueue(j, r) == /\ j = created + 1
                 /\ created' = j
                 /\ rec' = [rec EXCEPT ![j] = r]
                 /\ state' = [state EXCEPT ![j] = "queued"]
                 /\ UNCHANGED lock

\* Mutant of Take: the lock of the recording is not waited for.
TakeIgnoringLock(j) == /\ state[j] = "queued"
                       /\ state' = [state EXCEPT ![j] = "running"]
                       /\ lock' = [lock EXCEPT ![rec[j]] = j]
                       /\ UNCHANGED <<created, rec>>

\* Whether it gets the lock at once or after blocking, the job then runs.
Take(j) == /\ state[j] = "queued"
           /\ lock[rec[j]] = NoJob
           /\ state' = [state EXCEPT ![j] = "running"]
           /\ lock' = [lock EXCEPT ![rec[j]] = j]
           /\ UNCHANGED <<created, rec>>

\* The work returned or raised; the lock goes in the finally either way.
Settle(j, outcome) == /\ state[j] = "running"
                      /\ state' = [state EXCEPT ![j] = outcome]
                      /\ lock' = [lock EXCEPT ![rec[j]] = NoJob]
                      /\ UNCHANGED <<created, rec>>

\* The process dies and comes back with no memory of its jobs.
ForgetJobs == /\ created' = 0
              /\ rec' = [j \in Jobs |-> NoRecording]
              /\ state' = [j \in Jobs |-> "absent"]
              /\ lock' = [r \in Recordings |-> NoJob]

-----------------------------------------------------------------------------

\* At most one job of a recording runs at a time: two of them would write the
\* same run directory (JobRunner._run, "one job at a time per recording").
OneWriterPerRecording ==
    \A i, j \in Jobs :
        state[i] = "running" /\ state[j] = "running" /\ rec[i] = rec[j] => i = j

=============================================================================
