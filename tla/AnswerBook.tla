------------------------------ MODULE AnswerBook ------------------------------
(***************************************************************************)
(* What expectations.json promises a tester, with nothing said of jobs,    *)
(* holds, threads or half-written files (pipeline/run.py: _expectations;   *)
(* server/api/app.py: post_expectations).                                  *)
(*                                                                         *)
(* A recording has one page.  The first thing on it is a guess, which has  *)
(* nobody's answers and is made once: from then on only a submission       *)
(* changes the page, its own answers are on it when it does, and everybody *)
(* else's there are of this recording too.  A page a crash left half       *)
(* written is spoiled for good: nothing is guessed in place of what people *)
(* may have answered.                                                      *)
(***************************************************************************)
CONSTANTS Recordings, Posts, NoRecording

VARIABLES page,   \* what is on record of a recording
          about   \* the recording a submission is about

bookVars == <<page, about>>

Blank      == [is |-> "blank", with |-> {}]
Kept(ps)   == [is |-> "kept", with |-> ps]
Spoiled    == [is |-> "spoiled", with |-> {}]

BookInit == /\ page = [r \in Recordings |-> Blank]
            /\ about = [p \in Posts |-> NoRecording]

\* A submission arrives, and is about one recording ever after.
Arrive(p, r) == /\ about[p] = NoRecording
                /\ about' = [about EXCEPT ![p] = r]
                /\ UNCHANGED page

\* The one guess.
GuessOnce(r) == /\ page[r] = Blank
                /\ page' = [page EXCEPT ![r] = Kept({})]
                /\ UNCHANGED about

\* A submission puts its answers down.  It may take others off the page: nothing
\* orders two of them.
Submit(p, r) == /\ page[r].is = "kept" /\ about[p] = r
                /\ \E others \in SUBSET {q \in Posts : about[q] = r} :
                       page' = [page EXCEPT ![r] = Kept({p} \cup others)]
                /\ UNCHANGED about

\* The server dies over pages it is writing.
Crash == /\ \E rs \in SUBSET Recordings :
                page' = [r \in Recordings |-> IF r \in rs THEN Spoiled ELSE page[r]]
         /\ UNCHANGED about

BookNext == \/ \E p \in Posts, r \in Recordings : Arrive(p, r) \/ Submit(p, r)
            \/ \E r \in Recordings : GuessOnce(r)
            \/ Crash

BookSpec == BookInit /\ [][BookNext]_bookVars

=============================================================================
