----------------------------- MODULE Confirmation -----------------------------
(***************************************************************************)
(* From a sent recording to its draft, with the confirmation screen in     *)
(* between (server/api/app.py: post_recording, post_expectations,          *)
(* skip_expectations, _run; pipeline/run.py: _expectations, _confirmed).   *)
(*                                                                         *)
(* A job guesses what should have happened, saves the guess beside the     *)
(* recording, holds at the gate, reads the file again and authors the      *)
(* draft.  Meanwhile request threads load the file, add a tester's         *)
(* answers, save it and then release the gate; when nobody was holding     *)
(* they enqueue a second job that carries the answers itself.  Nothing     *)
(* but the lock of a recording orders two jobs, and nothing at all orders  *)
(* two requests.                                                           *)
(*                                                                         *)
(* Data: an expectation set is the set of submissions whose answers it     *)
(* contains, whether it has items to confirm, and whose recording it is    *)
(* about.  Everything authored before or beside the expectations           *)
(* (segments, judge, trace) is left out.                                   *)
(***************************************************************************)
EXTENDS JobRunner, FiniteSets

CONSTANTS Posts,          \* submissions of the confirmation screen
          SharedOptions,  \* does create_app get one PipelineOptions for all jobs?
          MayFail,        \* may a pipeline stage raise?
          MaxSends,       \* bound: recordings posted, over the whole behaviour
          MaxSkips,       \* bound: presses of skip
          MaxOpenPosts,   \* bound: submissions in progress at once
          MaxRestarts     \* bound: restarts of the server

ASSUME ConfirmationAssumption ==
    /\ SharedOptions \in BOOLEAN
    /\ MayFail \in BOOLEAN
    /\ MaxSends \in Nat /\ MaxSkips \in Nat /\ MaxRestarts \in Nat

VARIABLES open, fired     \* of the confirmation gate

Gate == INSTANCE ConfirmGate WITH Holders <- Jobs, NoHolder <- NoJob

VARIABLES stage,      \* where a job's thread is in the pipeline
          gated,      \* was the job given the gate? (a re-run is not)
          exp,        \* the expectations a job will author against
          heldFor,    \* the recording whose gate a job is at
          awaiting,   \* whose closure sits in the shared options' await_answers
          disk,       \* is expectations.json of a recording absent, torn or whole?
          answers,    \* the submissions whose answers it contains
          items,      \* does it have anything to confirm?
          post,       \* where a submission's request thread is
          about,      \* the recording a submission is about
          base,       \* the answers in the set it will save
          woke,       \* the job a submission's release woke
          draft,      \* what the draft of a recording was authored against
          sends, skips, restarts   \* how many of each so far

\* Seen from outside only: answers saved and then erased by a later save, and
\* jobs that read the file while it was torn.
VARIABLES clobbered, degraded

gateVars    == <<open, fired>>
fileVars    == <<disk, answers, items>>
postVars    == <<post, about, base, woke>>
pipeVars    == <<stage, gated, exp, heldFor, awaiting>>
historyVars == <<clobbered, degraded>>
countVars   == <<sends, skips, restarts>>
vars == <<runnerVars, gateVars, fileVars, postVars, pipeVars, historyVars, countVars, draft>>

Stages == {"idle", "segment", "guess", "save", "writing", "confirm",
           "waiting", "leaving", "reread", "author", "settled"}
PostStages == {"idle", "loaded", "writing", "saved", "late",
               "folded", "rerun", "refused", "lost"}

ExpectationSets == [of : Recordings \cup {NoRecording}, with : SUBSET Posts, items : BOOLEAN]

\* empty_set(recording_id), and what a job has before it has any.
NoExpectations == [of |-> NoRecording, with |-> {}, items |-> FALSE]
EmptySet(r)    == [of |-> r, with |-> {}, items |-> FALSE]
Guess(r, some) == [of |-> r, with |-> {}, items |-> some]
Stored(r)      == [of |-> r, with |-> answers[r], items |-> items[r]]

NoDraft == [of |-> NoRecording, with |-> {}]

TypeOK == /\ RunnerTypeOK
          /\ Gate!GateTypeOK
          /\ stage \in [Jobs -> Stages]
          /\ gated \in [Jobs -> BOOLEAN]
          /\ exp \in [Jobs -> ExpectationSets]
          /\ heldFor \in [Jobs -> Recordings \cup {NoRecording}]
          /\ awaiting \in Recordings \cup {NoRecording}
          /\ disk \in [Recordings -> {"absent", "torn", "whole"}]
          /\ answers \in [Recordings -> SUBSET Posts]
          /\ items \in [Recordings -> BOOLEAN]
          /\ post \in [Posts -> PostStages]
          /\ about \in [Posts -> Recordings \cup {NoRecording}]
          /\ base \in [Posts -> SUBSET Posts]
          /\ woke \in [Posts -> Jobs \cup {NoJob}]
          /\ draft \in [Recordings -> [of : Recordings \cup {NoRecording}, with : SUBSET Posts]]
          /\ clobbered \in SUBSET Posts
          /\ degraded \in SUBSET Jobs
          /\ sends \in 0..MaxSends
          /\ skips \in 0..MaxSkips
          /\ restarts \in 0..MaxRestarts

Init == /\ RunnerInit
        /\ Gate!GateInit
        /\ stage = [j \in Jobs |-> "idle"]
        /\ gated = [j \in Jobs |-> FALSE]
        /\ exp = [j \in Jobs |-> NoExpectations]
        /\ heldFor = [j \in Jobs |-> NoRecording]
        /\ awaiting = NoRecording
        /\ disk = [r \in Recordings |-> "absent"]
        /\ answers = [r \in Recordings |-> {}]
        /\ items = [r \in Recordings |-> FALSE]
        /\ post = [p \in Posts |-> "idle"]
        /\ about = [p \in Posts |-> NoRecording]
        /\ base = [p \in Posts |-> {}]
        /\ woke = [p \in Posts |-> NoJob]
        /\ draft = [r \in Recordings |-> NoDraft]
        /\ clobbered = {} /\ degraded = {}
        /\ sends = 0 /\ skips = 0 /\ restarts = 0

Move(j, from, to) == /\ stage[j] = from
                     /\ stage' = [stage EXCEPT ![j] = to]

-----------------------------------------------------------------------------
\* The job: _run and the part of run_pipeline that concerns the expectations.

\* post_recording: the recording is saved and a job with the gate enqueued.
SendRecording(j, r) ==
    /\ sends < MaxSends
    /\ Enqueue(j, r)
    /\ gated' = [gated EXCEPT ![j] = TRUE]
    /\ sends' = sends + 1
    /\ UNCHANGED <<gateVars, stage, exp, heldFor, awaiting, fileVars, postVars,
                   historyVars, draft, skips, restarts>>

\* The thread gets the lock and _run sets opts.await_answers, on the app's own
\* options when it has any.  With a window of 0 it would not; the window here
\* is open.
StartJob(j) ==
    /\ Take(j)
    /\ Move(j, "idle", "segment")
    /\ awaiting' = IF SharedOptions /\ gated[j] THEN rec[j] ELSE awaiting
    /\ UNCHANGED <<gateVars, gated, exp, heldFor, fileVars, postVars, historyVars,
                   countVars, draft>>

\* The frame of a step that only moves the job on, with or without a change of
\* its expectations.
JobOnly == UNCHANGED <<runnerVars, gateVars, gated, heldFor, awaiting, fileVars, postVars,
                       historyVars, countVars, draft>>

\* _expectations, after segmentation: the caller's own, which _confirmed does
\* not wait for;
TakeGiven(j) ==
    /\ ~gated[j]
    /\ Move(j, "segment", "author")
    /\ UNCHANGED exp
    /\ JobOnly

\* Mutant of TakeStored: what is stored does not keep the job from guessing.
GuessAgain(j) ==
    /\ gated[j] /\ disk[rec[j]] = "whole"
    /\ Move(j, "segment", "guess")
    /\ UNCHANGED exp
    /\ JobOnly

\* or the stored ones, somebody's answers included (a torn file is not JSON,
\* and the run fails on it: FailEarly);
TakeStored(j) ==
    /\ gated[j] /\ disk[rec[j]] = "whole"
    /\ Move(j, "segment", "confirm")
    /\ exp' = [exp EXCEPT ![j] = Stored(rec[j])]
    /\ JobOnly

\* Mutant of FindNothing: a file that cannot be parsed counts as none.
FindNothingReadable(j) ==
    /\ gated[j] /\ disk[rec[j]] # "whole"
    /\ Move(j, "segment", "guess")
    /\ UNCHANGED exp
    /\ JobOnly

\* or, with no file, a guess.
FindNothing(j) ==
    /\ gated[j] /\ disk[rec[j]] = "absent"
    /\ Move(j, "segment", "guess")
    /\ UNCHANGED exp
    /\ JobOnly

\* propose_expectations: with or without anything to confirm.
Propose(j) == \E some \in BOOLEAN :
    /\ Move(j, "guess", "save")
    /\ exp' = [exp EXCEPT ![j] = Guess(rec[j], some)]
    /\ JobOnly

\* It raises: the run goes on with an empty set, which is never saved.
ProposeFails(j) ==
    /\ Move(j, "guess", "confirm")
    /\ exp' = [exp EXCEPT ![j] = EmptySet(rec[j])]
    /\ JobOnly

\* save_expectations opens the file for writing, which empties it.
OpenGuessFile(j) ==
    /\ Move(j, "save", "writing")
    /\ disk' = [disk EXCEPT ![rec[j]] = "torn"]
    /\ UNCHANGED <<runnerVars, gateVars, gated, exp, heldFor, awaiting, answers, items,
                   postVars, historyVars, countVars, draft>>

\* It cannot be opened, and the run goes on without having saved.
LeaveGuessUnsaved(j) ==
    /\ Move(j, "save", "confirm")
    /\ UNCHANGED exp
    /\ JobOnly

WriteGuess(j) ==
    /\ Move(j, "writing", "confirm")
    /\ disk' = [disk EXCEPT ![rec[j]] = "whole"]
    /\ answers' = [answers EXCEPT ![rec[j]] = exp[j].with]
    /\ items' = [items EXCEPT ![rec[j]] = exp[j].items]
    /\ UNCHANGED <<runnerVars, gateVars, gated, exp, heldFor, awaiting, postVars,
                   historyVars, countVars, draft>>

\* Mutant of AwaitedRecording: the closure looks up the newest job when called.
AwaitNewest(j) == rec[created]

\* The recording of the closure a job finds in its options: the job's own, or,
\* in options shared by the app, that of the job that set it last.
AwaitedRecording(j) == IF SharedOptions THEN awaiting ELSE rec[j]

\* _confirmed: without items there is nothing to wait for.
NothingToConfirm(j) ==
    /\ ~exp[j].items
    /\ Move(j, "confirm", "author")
    /\ UNCHANGED exp
    /\ JobOnly

Hold(j) ==
    LET r == AwaitedRecording(j)
    IN  /\ exp[j].items
        /\ Move(j, "confirm", "waiting")
        /\ Gate!FileHold(r, j)
        /\ heldFor' = [heldFor EXCEPT ![j] = r]
        /\ UNCHANGED <<runnerVars, gated, exp, awaiting, fileVars, postVars, historyVars,
                       countVars, draft>>

\* Mutant of Wake: the wait has no window.
WakeReleasedOnly(j) ==
    /\ j \in fired
    /\ Move(j, "waiting", "leaving")
    /\ UNCHANGED exp
    /\ JobOnly

\* event.wait returns: the event is set, or the window is over.
Wake(j) ==
    /\ Move(j, "waiting", "leaving")
    /\ UNCHANGED exp
    /\ JobOnly

\* The finally of hold.
LeaveGate(j) ==
    /\ Move(j, "leaving", "reread")
    /\ Gate!UnfileHold(heldFor[j], j)
    /\ UNCHANGED <<runnerVars, gated, exp, heldFor, awaiting, fileVars, postVars, historyVars,
                   countVars, draft>>

\* Mutant of Reread: authoring goes on with what the job had before the hold.
KeepTheGuess(j) ==
    /\ Move(j, "reread", "author")
    /\ UNCHANGED exp
    /\ JobOnly

\* await_answers reads the file again whatever woke it.  With no file, or one
\* it cannot parse (_confirmed catches that), the guess stands.
Reread(j) ==
    LET r == heldFor[j]
    IN  /\ Move(j, "reread", "author")
        /\ exp' = [exp EXCEPT ![j] = IF disk[r] = "whole" THEN Stored(r) ELSE @]
        /\ degraded' = IF disk[r] = "torn" THEN degraded \cup {j} ELSE degraded
        /\ UNCHANGED <<runnerVars, gateVars, gated, heldFor, awaiting, fileVars, postVars,
                       clobbered, countVars, draft>>

Authored(j) == [draft EXCEPT ![rec[j]] = [of |-> exp[j].of, with |-> exp[j].with]]

\* Authoring and everything after it; the draft replaces the one before.
Author(j) ==
    /\ Move(j, "author", "settled")
    /\ Settle(j, "done")
    /\ draft' = Authored(j)
    /\ UNCHANGED <<gateVars, gated, exp, heldFor, awaiting, fileVars, postVars, historyVars,
                   countVars>>

\* Segmentation raises, or the stored expectations cannot be parsed.
FailEarly(j) ==
    /\ MayFail \/ (gated[j] /\ disk[rec[j]] = "torn")
    /\ Move(j, "segment", "settled")
    /\ Settle(j, "failed")
    /\ UNCHANGED <<gateVars, gated, exp, heldFor, awaiting, fileVars, postVars, historyVars,
                   countVars, draft>>

\* The author or a later stage raises, before or after the draft is on disk.
FailLate(j) ==
    /\ MayFail
    /\ Move(j, "author", "settled")
    /\ Settle(j, "failed")
    /\ draft' \in {draft, Authored(j)}
    /\ UNCHANGED <<gateVars, gated, exp, heldFor, awaiting, fileVars, postVars, historyVars,
                   countVars>>

JobStep(j) == \/ StartJob(j)
              \/ TakeGiven(j) \/ TakeStored(j) \/ FindNothing(j)
              \/ Propose(j) \/ ProposeFails(j)
              \/ OpenGuessFile(j) \/ LeaveGuessUnsaved(j) \/ WriteGuess(j)
              \/ NothingToConfirm(j) \/ Hold(j) \/ Wake(j) \/ LeaveGate(j) \/ Reread(j)
              \/ Author(j) \/ FailEarly(j) \/ FailLate(j)

-----------------------------------------------------------------------------
\* post_expectations: load, answer, save, release, and maybe run again.

InProgress == {p \in Posts : post[p] \in {"loaded", "writing", "saved", "late"}}

Advance(p, from, to) == /\ post[p] = from
                        /\ post' = [post EXCEPT ![p] = to]

\* The stored set with this submission's answers in it; without a file the
\* screen has nothing to show yet.
LoadToAnswer(p, r) ==
    /\ Cardinality(InProgress) < MaxOpenPosts
    /\ disk[r] = "whole"
    /\ Advance(p, "idle", "loaded")
    /\ base' = [base EXCEPT ![p] = answers[r] \cup {p}]
    /\ about' = [about EXCEPT ![p] = r]
    /\ UNCHANGED <<runnerVars, gateVars, fileVars, woke, pipeVars, historyVars, countVars, draft>>

\* The file is being written: what is read is not JSON, and the answer a 500.
RefuseAnswer(p, r) ==
    /\ disk[r] = "torn"
    /\ Advance(p, "idle", "refused")
    /\ about' = [about EXCEPT ![p] = r]
    /\ UNCHANGED <<runnerVars, gateVars, fileVars, base, woke, pipeVars, historyVars, countVars,
                   draft>>

OpenAnswerFile(p) ==
    /\ Advance(p, "loaded", "writing")
    /\ disk' = [disk EXCEPT ![about[p]] = "torn"]
    /\ UNCHANGED <<runnerVars, gateVars, answers, items, about, base, woke, pipeVars,
                   historyVars, countVars, draft>>

WriteAnswers(p) ==
    LET r == about[p]
    IN  /\ Advance(p, "writing", "saved")
        /\ disk' = [disk EXCEPT ![r] = "whole"]
        /\ answers' = [answers EXCEPT ![r] = base[p]]
        /\ clobbered' = clobbered \cup (answers[r] \ base[p])
        /\ UNCHANGED <<runnerVars, gateVars, items, about, base, woke, pipeVars, degraded,
                       countVars, draft>>

\* gate.release after the save: a job was holding and is woken,
FoldIn(p) ==
    /\ Advance(p, "saved", "folded")
    /\ Gate!ReleaseHolder(about[p])
    /\ woke' = [woke EXCEPT ![p] = open[about[p]]]
    /\ UNCHANGED <<runnerVars, fileVars, about, base, pipeVars, historyVars, countVars, draft>>

\* or none was, and the tester is owed another run.
FindNobodyHolding(p) ==
    /\ Advance(p, "saved", "late")
    /\ Gate!ReleaseNobody(about[p])
    /\ UNCHANGED <<runnerVars, fileVars, about, base, woke, pipeVars, historyVars, countVars,
                   draft>>

\* Mutant of RunAgain: the copy of the options is made without the answers.
RunAgainUnanswered(p, j) ==
    /\ Advance(p, "late", "rerun")
    /\ Enqueue(j, about[p])
    /\ gated' = [gated EXCEPT ![j] = FALSE]
    /\ exp' = [exp EXCEPT ![j] = Guess(about[p], items[about[p]])]
    /\ UNCHANGED <<gateVars, stage, heldFor, awaiting, fileVars, about, base, woke, historyVars,
                   countVars, draft>>

\* A second run in place, on a copy of the options that carries the answers
\* this request saved, and without the gate.
RunAgain(p, j) ==
    /\ Advance(p, "late", "rerun")
    /\ Enqueue(j, about[p])
    /\ gated' = [gated EXCEPT ![j] = FALSE]
    /\ exp' = [exp EXCEPT ![j] = [of |-> about[p], with |-> base[p], items |-> items[about[p]]]]
    /\ UNCHANGED <<gateVars, stage, heldFor, awaiting, fileVars, about, base, woke, historyVars,
                   countVars, draft>>

PostStep(p) == \/ OpenAnswerFile(p) \/ WriteAnswers(p) \/ FoldIn(p) \/ FindNobodyHolding(p)
               \/ \E j \in Jobs : RunAgain(p, j)

\* skip_expectations, from the screen on display: the hold ends,
Skip(r) ==
    /\ skips < MaxSkips
    /\ disk[r] # "absent"
    /\ Gate!ReleaseHolder(r)
    /\ skips' = skips + 1
    /\ UNCHANGED <<runnerVars, fileVars, postVars, pipeVars, historyVars, draft, sends, restarts>>

\* or there is none, and the tester is told that nothing waits for them.
SkipNothing(r) ==
    /\ skips < MaxSkips
    /\ disk[r] # "absent"
    /\ Gate!ReleaseNobody(r)
    /\ skips' = skips + 1
    /\ UNCHANGED <<runnerVars, fileVars, postVars, pipeVars, historyVars, draft, sends, restarts>>

-----------------------------------------------------------------------------
\* The server process dies: jobs, holds and requests in progress are gone, the
\* files stay as they are, a file being written included.
Restart ==
    /\ restarts < MaxRestarts
    /\ restarts' = restarts + 1
    /\ ForgetJobs
    /\ Gate!ForgetHolds
    /\ stage' = [j \in Jobs |-> "idle"]
    /\ gated' = [j \in Jobs |-> FALSE]
    /\ exp' = [j \in Jobs |-> NoExpectations]
    /\ heldFor' = [j \in Jobs |-> NoRecording]
    /\ awaiting' = NoRecording
    /\ post' = [p \in Posts |-> IF p \in InProgress THEN "lost" ELSE post[p]]
    /\ woke' = [p \in Posts |-> NoJob]
    /\ degraded' = {}
    /\ UNCHANGED <<fileVars, about, base, draft, clobbered, sends, skips>>

Next == \/ \E j \in Jobs, r \in Recordings : SendRecording(j, r)
        \/ \E j \in Jobs : JobStep(j)
        \/ \E p \in Posts, r \in Recordings : LoadToAnswer(p, r) \/ RefuseAnswer(p, r)
        \/ \E p \in Posts : PostStep(p)
        \/ \E r \in Recordings : Skip(r) \/ SkipNothing(r)
        \/ Restart

Spec == Init /\ [][Next]_vars

\* Threads that have started keep running; a tester owes nobody anything.
Fairness == /\ \A j \in Jobs : WF_vars(JobStep(j))
            /\ \A p \in Posts : WF_vars(PostStep(p))

FairSpec == Spec /\ Fairness

-----------------------------------------------------------------------------
(***************************************************************************)
(* Properties                                                              *)
(***************************************************************************)

\* The serialisation of jobs.py: two running jobs are jobs of two recordings,
\* so the run directory has one writer.  That is OneWriterPerRecording.

\* Stored expectations are "authoritative, and never overwritten" by a guess
\* (run.py _expectations): while a job is on its way to save a guess, nobody
\* can have answered, however sends, answers and restarts interleave.
GuessNeverOverwritesAnswers ==
    \A j \in Jobs, p \in Posts :
        stage[j] \in {"save", "writing"} => p \notin answers[rec[j]]

\* Once the file of a recording is whole, a later guess never replaces it: its
\* answers only change by a submission (run.py _expectations).
OnlySubmissionsChangeAnswers ==
    [][\A r \in Recordings :
          disk[r] = "whole" /\ disk'[r] # "whole" => \E p \in Posts : OpenAnswerFile(p)]_vars

\* What is true of confirm.py's "why a lost update is not possible here": the
\* job woken by a submission that was reported folded in authors against those
\* answers, unless a second submission erased them from the file or was in the
\* middle of writing it.
FoldedInIsRead ==
    \A p \in Posts :
        post[p] = "folded" /\ woke[p] # NoJob /\ stage[woke[p]] \in {"author", "settled"} =>
            \/ p \in exp[woke[p]].with
            \/ p \in clobbered
            \/ woke[p] \in degraded

\* app.py _with_expectations: one recording's expectations never reach another
\* recording's run.
NoOracleLeak == \A r \in Recordings : draft[r].of \in {r, NoRecording}

\* confirm.py hold: a second hold of a recording cannot happen while another
\* job is holding it.
OneHolderPerRecording ==
    \A i, j \in Jobs :
        stage[i] = "waiting" /\ stage[j] = "waiting" /\ heldFor[i] = heldFor[j] => i = j

\* A hold is a bound on the wait and never a dependency on the screen, so every
\* job that was created is over some time (confirm.py, jobs.py).
EveryJobSettles ==
    \A j \in Jobs : state[j] = "queued" ~> state[j] \in {"done", "failed"}

\* A saved submission gets into a draft without anybody pressing anything again.
AnswersReachTheDraft ==
    \A p \in Posts :
        post[p] = "saved" ~> \E r \in Recordings : about[p] = r /\ p \in draft[r].with

\* Who has the file of a recording open for writing.
BeingGuessed(r)  == \E j \in Jobs : stage[j] = "writing" /\ rec[j] = r
BeingAnswered(r) == \E p \in Posts : post[p] = "writing" /\ about[p] = r

\* What is on record of a recording: a file that is being written still stands
\* for what was there before, and one that nobody is writing any more is lost.
Page(r) ==
    IF disk[r] = "whole" \/ (disk[r] = "torn" /\ BeingAnswered(r))
    THEN [is |-> "kept", with |-> answers[r]]
    ELSE [is |-> IF disk[r] = "torn" /\ ~BeingGuessed(r) THEN "spoiled" ELSE "blank", with |-> {}]

Book == INSTANCE AnswerBook WITH page <- [r \in Recordings |-> Page(r)]

\* Jobs that look for a stored set once and save a guess much later, requests
\* that load, answer and save without a lock, and restarts in the middle of
\* either keep the promises of the book: one guess, before any answer; after it
\* only submissions, each with its own answers in what it saves, about one
\* recording; nothing in place of a spoiled page (run.py:966-986, app.py:253-281).
KeepsTheBook == Book!BookSpec

-----------------------------------------------------------------------------
(***************************************************************************)
(* The inductive invariant behind the safety properties, part by part.     *)
(***************************************************************************)

Working == Stages \ {"idle", "settled"}
Guessing == {"guess", "save", "writing"}
AtTheGate == {"waiting", "leaving"}

\* A submission that has had the file of its recording in its hands.
Touched(p) == post[p] \notin {"idle", "refused"}

\* Ids are handed out in order, and only a created job has a recording.
JobsInOrder == \A j \in Jobs : IF j > created THEN state[j] = "absent" ELSE rec[j] \in Recordings

\* A job in the pipeline runs, and a running job has the lock of its recording.
WorkingUnderLock == \A j \in Jobs : /\ stage[j] \in Working <=> state[j] = "running"
                                    /\ state[j] \in {"absent", "queued"} => stage[j] = "idle"
                                    /\ state[j] = "running" => lock[rec[j]] = j

\* What the stage of a guessing job says about the file.
GuessBeforeAnswers ==
    \A j \in Jobs : stage[j] \in Guessing =>
        /\ disk[rec[j]] = IF stage[j] = "writing" THEN "torn" ELSE "absent"
        /\ stage[j] # "guess" => exp[j].with = {}
        /\ \A p \in Posts : Touched(p) => about[p] # rec[j]

\* Who is in the file, and what a submission is going to write.
AnswersAreAboutTheRecording ==
    /\ \A p \in Posts : post[p] # "idle" => about[p] \in Recordings
    /\ \A p \in Posts : IF Touched(p) THEN disk[about[p]] # "absent" /\ p \in base[p]
                                      ELSE base[p] = {}
    /\ \A r \in Recordings : \A p \in answers[r] : Touched(p) /\ about[p] = r
    /\ \A p \in Posts : \A q \in base[p] : Touched(q) /\ about[q] = about[p]

\* A saved submission is in the file unless a later save dropped it.
SavedAnswersStay ==
    \A p \in Posts : post[p] \in {"saved", "late", "folded"} =>
        p \in answers[about[p]] \/ p \in clobbered

\* An event that is filed belongs to a job at the gate of that recording.
FiledByTheHolder ==
    \A r \in Recordings : open[r] # NoJob => /\ heldFor[open[r]] = r
                                             /\ stage[open[r]] \in AtTheGate

\* Whose gate a job waits at: it has one, and with options of its own it is the
\* gate of its own recording.
HeldForARecording ==
    \A j \in Jobs :
        /\ gated[j] /\ stage[j] \in Working /\ SharedOptions => awaiting \in Recordings
        /\ stage[j] \in Guessing \cup AtTheGate \cup {"confirm", "reread"} => gated[j]
        /\ stage[j] \in AtTheGate \cup {"reread"} =>
               heldFor[j] \in Recordings /\ (~SharedOptions => heldFor[j] = rec[j])

\* A woken job was at the gate of the submission's recording.
WokenAtTheGate ==
    \A p \in Posts : woke[p] # NoJob =>
        /\ post[p] = "folded"
        /\ heldFor[woke[p]] = about[p]
        /\ stage[woke[p]] \in AtTheGate \cup {"reread", "author", "settled"}

IInv == /\ TypeOK
        /\ JobsInOrder
        /\ WorkingUnderLock
        /\ GuessBeforeAnswers
        /\ AnswersAreAboutTheRecording
        /\ SavedAnswersStay
        /\ FiledByTheHolder
        /\ HeldForARecording
        /\ WokenAtTheGate
        /\ FoldedInIsRead

=============================================================================
