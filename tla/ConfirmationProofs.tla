-------------------------- MODULE ConfirmationProofs --------------------------
(***************************************************************************)
(* Proofs about Confirmation, for any recordings, submissions and bounds:  *)
(* IInv is inductive (one lemma per action), the invariants and the action *)
(* property the runs check follow from it, and Confirmation implements the *)
(* abstract AnswerBook.                                                    *)
(***************************************************************************)
EXTENDS Confirmation, TLAPS

USE RunnerAssumption, ConfirmationAssumption
USE DEF Jobs, NoJob, Stages, PostStages, JobStates, ExpectationSets, NoExpectations,
        EmptySet, Guess, Stored, NoDraft, Move, Advance, Working, Guessing, AtTheGate, Touched,
        gateVars, fileVars, postVars, pipeVars, historyVars, countVars, runnerVars

LEMMA InitIInv == Init => IInv
  BY DEF Init, RunnerInit, Gate!GateInit, IInv, TypeOK, RunnerTypeOK, Gate!GateTypeOK,
         JobsInOrder, WorkingUnderLock, GuessBeforeAnswers, AnswersAreAboutTheRecording,
         SavedAnswersStay, FiledByTheHolder, HeldForARecording, WokenAtTheGate, FoldedInIsRead

LEMMA JobIsAJob == \A j \in Jobs : j # NoJob
  OBVIOUS

-----------------------------------------------------------------------------
(* One lemma per action. *)

LEMMA SendRecordingKeepsIInv == ASSUME IInv, NEW j \in Jobs, NEW r \in Recordings, SendRecording(j, r) PROVE IInv'
  <1> USE DEF IInv, SendRecording, Enqueue
  <1>1. TypeOK'
    BY DEF TypeOK, RunnerTypeOK, Gate!GateTypeOK, JobsInOrder, WorkingUnderLock, AnswersAreAboutTheRecording, HeldForARecording
  <1>2. JobsInOrder'
    BY DEF TypeOK, RunnerTypeOK, Gate!GateTypeOK, JobsInOrder, WorkingUnderLock, AnswersAreAboutTheRecording
  <1>3. WorkingUnderLock'
    BY DEF TypeOK, RunnerTypeOK, Gate!GateTypeOK, JobsInOrder, WorkingUnderLock
  <1>4. GuessBeforeAnswers'
    BY DEF TypeOK, RunnerTypeOK, Gate!GateTypeOK, JobsInOrder, WorkingUnderLock, GuessBeforeAnswers,
           AnswersAreAboutTheRecording
  <1>5. AnswersAreAboutTheRecording'
    BY DEF TypeOK, RunnerTypeOK, Gate!GateTypeOK, GuessBeforeAnswers, AnswersAreAboutTheRecording
  <1>6. SavedAnswersStay'
    BY DEF TypeOK, RunnerTypeOK, Gate!GateTypeOK, GuessBeforeAnswers, AnswersAreAboutTheRecording,
           SavedAnswersStay
  <1>7. FiledByTheHolder'
    BY DEF TypeOK, RunnerTypeOK, Gate!GateTypeOK, JobsInOrder, WorkingUnderLock, FiledByTheHolder
  <1>8. HeldForARecording'
    BY DEF TypeOK, RunnerTypeOK, Gate!GateTypeOK, JobsInOrder, WorkingUnderLock, HeldForARecording
  <1>9. WokenAtTheGate'
    BY DEF TypeOK, RunnerTypeOK, Gate!GateTypeOK, JobsInOrder, WorkingUnderLock, FiledByTheHolder, WokenAtTheGate
  <1>10. FoldedInIsRead'
    BY DEF TypeOK, RunnerTypeOK, Gate!GateTypeOK, JobsInOrder, WorkingUnderLock, FiledByTheHolder, WokenAtTheGate,
           FoldedInIsRead, SavedAnswersStay, GuessBeforeAnswers, AnswersAreAboutTheRecording
  <1>11. QED BY <1>1, <1>2, <1>3, <1>4, <1>5, <1>6, <1>7, <1>8, <1>9, <1>10

LEMMA StartJobKeepsIInv == ASSUME IInv, NEW j \in Jobs, StartJob(j) PROVE IInv'
  <1> USE DEF IInv, StartJob, Take
  <1>1. TypeOK'
    BY DEF TypeOK, RunnerTypeOK, Gate!GateTypeOK, JobsInOrder, WorkingUnderLock, AnswersAreAboutTheRecording, HeldForARecording
  <1>2. JobsInOrder'
    BY DEF TypeOK, RunnerTypeOK, Gate!GateTypeOK, JobsInOrder, WorkingUnderLock, AnswersAreAboutTheRecording
  <1>3. WorkingUnderLock'
    BY DEF TypeOK, RunnerTypeOK, Gate!GateTypeOK, JobsInOrder, WorkingUnderLock
  <1>4. GuessBeforeAnswers'
    BY DEF TypeOK, RunnerTypeOK, Gate!GateTypeOK, JobsInOrder, WorkingUnderLock, GuessBeforeAnswers,
           AnswersAreAboutTheRecording
  <1>5. AnswersAreAboutTheRecording'
    BY DEF TypeOK, RunnerTypeOK, Gate!GateTypeOK, GuessBeforeAnswers, AnswersAreAboutTheRecording
  <1>6. SavedAnswersStay'
    BY DEF TypeOK, RunnerTypeOK, Gate!GateTypeOK, GuessBeforeAnswers, AnswersAreAboutTheRecording,
           SavedAnswersStay
  <1>7. FiledByTheHolder'
    BY DEF TypeOK, RunnerTypeOK, Gate!GateTypeOK, JobsInOrder, WorkingUnderLock, FiledByTheHolder
  <1>8. HeldForARecording'
    BY DEF TypeOK, RunnerTypeOK, Gate!GateTypeOK, JobsInOrder, WorkingUnderLock, HeldForARecording
  <1>9. WokenAtTheGate'
    BY DEF TypeOK, RunnerTypeOK, Gate!GateTypeOK, JobsInOrder, WorkingUnderLock, FiledByTheHolder, WokenAtTheGate
  <1>10. FoldedInIsRead'
    BY DEF TypeOK, RunnerTypeOK, Gate!GateTypeOK, JobsInOrder, WorkingUnderLock, FiledByTheHolder, WokenAtTheGate,
           FoldedInIsRead, SavedAnswersStay, GuessBeforeAnswers, AnswersAreAboutTheRecording
  <1>11. QED BY <1>1, <1>2, <1>3, <1>4, <1>5, <1>6, <1>7, <1>8, <1>9, <1>10

LEMMA TakeGivenKeepsIInv == ASSUME IInv, NEW j \in Jobs, TakeGiven(j) PROVE IInv'
  <1> USE DEF IInv, TakeGiven, JobOnly
  <1>1. TypeOK'
    BY DEF TypeOK, RunnerTypeOK, Gate!GateTypeOK, JobsInOrder, WorkingUnderLock, AnswersAreAboutTheRecording, HeldForARecording
  <1>2. JobsInOrder'
    BY DEF TypeOK, RunnerTypeOK, Gate!GateTypeOK, JobsInOrder, WorkingUnderLock, AnswersAreAboutTheRecording
  <1>3. WorkingUnderLock'
    BY DEF TypeOK, RunnerTypeOK, Gate!GateTypeOK, JobsInOrder, WorkingUnderLock
  <1>4. GuessBeforeAnswers'
    BY DEF TypeOK, RunnerTypeOK, Gate!GateTypeOK, JobsInOrder, WorkingUnderLock, GuessBeforeAnswers,
           AnswersAreAboutTheRecording
  <1>5. AnswersAreAboutTheRecording'
    BY DEF TypeOK, RunnerTypeOK, Gate!GateTypeOK, GuessBeforeAnswers, AnswersAreAboutTheRecording
  <1>6. SavedAnswersStay'
    BY DEF TypeOK, RunnerTypeOK, Gate!GateTypeOK, GuessBeforeAnswers, AnswersAreAboutTheRecording,
           SavedAnswersStay
  <1>7. FiledByTheHolder'
    BY DEF TypeOK, RunnerTypeOK, Gate!GateTypeOK, JobsInOrder, WorkingUnderLock, FiledByTheHolder
  <1>8. HeldForARecording'
    BY DEF TypeOK, RunnerTypeOK, Gate!GateTypeOK, JobsInOrder, WorkingUnderLock, HeldForARecording
  <1>9. WokenAtTheGate'
    BY DEF TypeOK, RunnerTypeOK, Gate!GateTypeOK, JobsInOrder, WorkingUnderLock, FiledByTheHolder, WokenAtTheGate
  <1>10. FoldedInIsRead'
    <2>1. ASSUME NEW p \in Posts, woke[p] = j PROVE FALSE
      <3>1. woke[p] # NoJob
        BY <2>1, JobIsAJob
      <3>2. stage[j] \in AtTheGate \cup {"reread", "author", "settled"}
        BY <3>1, <2>1 DEF WokenAtTheGate
      <3>3. QED
        BY <3>2
    <2>2. QED
      BY <2>1 DEF TypeOK, FoldedInIsRead
  <1>11. QED BY <1>1, <1>2, <1>3, <1>4, <1>5, <1>6, <1>7, <1>8, <1>9, <1>10

LEMMA TakeStoredKeepsIInv == ASSUME IInv, NEW j \in Jobs, TakeStored(j) PROVE IInv'
  <1> USE DEF IInv, TakeStored, JobOnly
  <1>1. TypeOK'
    BY DEF TypeOK, RunnerTypeOK, Gate!GateTypeOK, JobsInOrder, WorkingUnderLock, AnswersAreAboutTheRecording, HeldForARecording
  <1>2. JobsInOrder'
    BY DEF TypeOK, RunnerTypeOK, Gate!GateTypeOK, JobsInOrder, WorkingUnderLock, AnswersAreAboutTheRecording
  <1>3. WorkingUnderLock'
    BY DEF TypeOK, RunnerTypeOK, Gate!GateTypeOK, JobsInOrder, WorkingUnderLock
  <1>4. GuessBeforeAnswers'
    BY DEF TypeOK, RunnerTypeOK, Gate!GateTypeOK, JobsInOrder, WorkingUnderLock, GuessBeforeAnswers,
           AnswersAreAboutTheRecording
  <1>5. AnswersAreAboutTheRecording'
    BY DEF TypeOK, RunnerTypeOK, Gate!GateTypeOK, GuessBeforeAnswers, AnswersAreAboutTheRecording
  <1>6. SavedAnswersStay'
    BY DEF TypeOK, RunnerTypeOK, Gate!GateTypeOK, GuessBeforeAnswers, AnswersAreAboutTheRecording,
           SavedAnswersStay
  <1>7. FiledByTheHolder'
    BY DEF TypeOK, RunnerTypeOK, Gate!GateTypeOK, JobsInOrder, WorkingUnderLock, FiledByTheHolder
  <1>8. HeldForARecording'
    BY DEF TypeOK, RunnerTypeOK, Gate!GateTypeOK, JobsInOrder, WorkingUnderLock, HeldForARecording
  <1>9. WokenAtTheGate'
    BY DEF TypeOK, RunnerTypeOK, Gate!GateTypeOK, JobsInOrder, WorkingUnderLock, FiledByTheHolder, WokenAtTheGate
  <1>10. FoldedInIsRead'
    BY DEF TypeOK, RunnerTypeOK, Gate!GateTypeOK, JobsInOrder, WorkingUnderLock, FiledByTheHolder, WokenAtTheGate,
           FoldedInIsRead, SavedAnswersStay, GuessBeforeAnswers, AnswersAreAboutTheRecording
  <1>11. QED BY <1>1, <1>2, <1>3, <1>4, <1>5, <1>6, <1>7, <1>8, <1>9, <1>10

LEMMA FindNothingKeepsIInv == ASSUME IInv, NEW j \in Jobs, FindNothing(j) PROVE IInv'
  <1> USE DEF IInv, FindNothing, JobOnly
  <1>1. TypeOK'
    BY DEF TypeOK, RunnerTypeOK, Gate!GateTypeOK, JobsInOrder, WorkingUnderLock, AnswersAreAboutTheRecording, HeldForARecording
  <1>2. JobsInOrder'
    BY DEF TypeOK, RunnerTypeOK, Gate!GateTypeOK, JobsInOrder, WorkingUnderLock, AnswersAreAboutTheRecording
  <1>3. WorkingUnderLock'
    BY DEF TypeOK, RunnerTypeOK, Gate!GateTypeOK, JobsInOrder, WorkingUnderLock
  <1>4. GuessBeforeAnswers'
    BY DEF TypeOK, RunnerTypeOK, Gate!GateTypeOK, JobsInOrder, WorkingUnderLock, GuessBeforeAnswers,
           AnswersAreAboutTheRecording
  <1>5. AnswersAreAboutTheRecording'
    BY DEF TypeOK, RunnerTypeOK, Gate!GateTypeOK, GuessBeforeAnswers, AnswersAreAboutTheRecording
  <1>6. SavedAnswersStay'
    BY DEF TypeOK, RunnerTypeOK, Gate!GateTypeOK, GuessBeforeAnswers, AnswersAreAboutTheRecording,
           SavedAnswersStay
  <1>7. FiledByTheHolder'
    BY DEF TypeOK, RunnerTypeOK, Gate!GateTypeOK, JobsInOrder, WorkingUnderLock, FiledByTheHolder
  <1>8. HeldForARecording'
    BY DEF TypeOK, RunnerTypeOK, Gate!GateTypeOK, JobsInOrder, WorkingUnderLock, HeldForARecording
  <1>9. WokenAtTheGate'
    BY DEF TypeOK, RunnerTypeOK, Gate!GateTypeOK, JobsInOrder, WorkingUnderLock, FiledByTheHolder, WokenAtTheGate
  <1>10. FoldedInIsRead'
    BY DEF TypeOK, RunnerTypeOK, Gate!GateTypeOK, JobsInOrder, WorkingUnderLock, FiledByTheHolder, WokenAtTheGate,
           FoldedInIsRead, SavedAnswersStay, GuessBeforeAnswers, AnswersAreAboutTheRecording
  <1>11. QED BY <1>1, <1>2, <1>3, <1>4, <1>5, <1>6, <1>7, <1>8, <1>9, <1>10

LEMMA ProposeKeepsIInv == ASSUME IInv, NEW j \in Jobs, Propose(j) PROVE IInv'
  <1> USE DEF IInv, Propose, JobOnly
  <1>1. TypeOK'
    BY DEF TypeOK, RunnerTypeOK, Gate!GateTypeOK, JobsInOrder, WorkingUnderLock, AnswersAreAboutTheRecording, HeldForARecording
  <1>2. JobsInOrder'
    BY DEF TypeOK, RunnerTypeOK, Gate!GateTypeOK, JobsInOrder, WorkingUnderLock, AnswersAreAboutTheRecording
  <1>3. WorkingUnderLock'
    BY DEF TypeOK, RunnerTypeOK, Gate!GateTypeOK, JobsInOrder, WorkingUnderLock
  <1>4. GuessBeforeAnswers'
    BY DEF TypeOK, RunnerTypeOK, Gate!GateTypeOK, JobsInOrder, WorkingUnderLock, GuessBeforeAnswers,
           AnswersAreAboutTheRecording
  <1>5. AnswersAreAboutTheRecording'
    BY DEF TypeOK, RunnerTypeOK, Gate!GateTypeOK, GuessBeforeAnswers, AnswersAreAboutTheRecording
  <1>6. SavedAnswersStay'
    BY DEF TypeOK, RunnerTypeOK, Gate!GateTypeOK, GuessBeforeAnswers, AnswersAreAboutTheRecording,
           SavedAnswersStay
  <1>7. FiledByTheHolder'
    BY DEF TypeOK, RunnerTypeOK, Gate!GateTypeOK, JobsInOrder, WorkingUnderLock, FiledByTheHolder
  <1>8. HeldForARecording'
    BY DEF TypeOK, HeldForARecording
  <1>9. WokenAtTheGate'
    BY DEF TypeOK, RunnerTypeOK, Gate!GateTypeOK, JobsInOrder, WorkingUnderLock, FiledByTheHolder, WokenAtTheGate
  <1>10. FoldedInIsRead'
    BY DEF TypeOK, RunnerTypeOK, Gate!GateTypeOK, JobsInOrder, WorkingUnderLock, FiledByTheHolder, WokenAtTheGate,
           FoldedInIsRead, SavedAnswersStay, GuessBeforeAnswers, AnswersAreAboutTheRecording
  <1>11. QED BY <1>1, <1>2, <1>3, <1>4, <1>5, <1>6, <1>7, <1>8, <1>9, <1>10

LEMMA ProposeFailsKeepsIInv == ASSUME IInv, NEW j \in Jobs, ProposeFails(j) PROVE IInv'
  <1> USE DEF IInv, ProposeFails, JobOnly
  <1>1. TypeOK'
    BY DEF TypeOK, RunnerTypeOK, Gate!GateTypeOK, JobsInOrder, WorkingUnderLock, AnswersAreAboutTheRecording, HeldForARecording
  <1>2. JobsInOrder'
    BY DEF TypeOK, RunnerTypeOK, Gate!GateTypeOK, JobsInOrder, WorkingUnderLock, AnswersAreAboutTheRecording
  <1>3. WorkingUnderLock'
    BY DEF TypeOK, RunnerTypeOK, Gate!GateTypeOK, JobsInOrder, WorkingUnderLock
  <1>4. GuessBeforeAnswers'
    BY DEF TypeOK, RunnerTypeOK, Gate!GateTypeOK, JobsInOrder, WorkingUnderLock, GuessBeforeAnswers,
           AnswersAreAboutTheRecording
  <1>5. AnswersAreAboutTheRecording'
    BY DEF TypeOK, RunnerTypeOK, Gate!GateTypeOK, GuessBeforeAnswers, AnswersAreAboutTheRecording
  <1>6. SavedAnswersStay'
    BY DEF TypeOK, RunnerTypeOK, Gate!GateTypeOK, GuessBeforeAnswers, AnswersAreAboutTheRecording,
           SavedAnswersStay
  <1>7. FiledByTheHolder'
    BY DEF TypeOK, RunnerTypeOK, Gate!GateTypeOK, JobsInOrder, WorkingUnderLock, FiledByTheHolder
  <1>8. HeldForARecording'
    BY DEF TypeOK, HeldForARecording
  <1>9. WokenAtTheGate'
    BY DEF TypeOK, RunnerTypeOK, Gate!GateTypeOK, JobsInOrder, WorkingUnderLock, FiledByTheHolder, WokenAtTheGate
  <1>10. FoldedInIsRead'
    BY DEF TypeOK, RunnerTypeOK, Gate!GateTypeOK, JobsInOrder, WorkingUnderLock, FiledByTheHolder, WokenAtTheGate,
           FoldedInIsRead, SavedAnswersStay, GuessBeforeAnswers, AnswersAreAboutTheRecording
  <1>11. QED BY <1>1, <1>2, <1>3, <1>4, <1>5, <1>6, <1>7, <1>8, <1>9, <1>10

LEMMA OpenGuessFileKeepsIInv == ASSUME IInv, NEW j \in Jobs, OpenGuessFile(j) PROVE IInv'
  <1> USE DEF IInv, OpenGuessFile
  <1>1. TypeOK'
    BY DEF TypeOK, RunnerTypeOK, Gate!GateTypeOK, JobsInOrder, WorkingUnderLock, AnswersAreAboutTheRecording, HeldForARecording
  <1>2. JobsInOrder'
    BY DEF TypeOK, RunnerTypeOK, Gate!GateTypeOK, JobsInOrder, WorkingUnderLock, AnswersAreAboutTheRecording
  <1>3. WorkingUnderLock'
    BY DEF TypeOK, RunnerTypeOK, Gate!GateTypeOK, JobsInOrder, WorkingUnderLock
  <1>4. GuessBeforeAnswers'
    <2>1. ASSUME NEW i \in Jobs, stage[i] \in Working, rec[i] = rec[j] PROVE i = j
      <3>1. state[i] = "running" /\ state[j] = "running"
        BY <2>1 DEF WorkingUnderLock
      <3>2. lock[rec[i]] = i /\ lock[rec[j]] = j
        BY <3>1 DEF WorkingUnderLock
      <3>3. QED
        BY <3>2, <2>1
    <2>2. rec[j] \in Recordings
      BY DEF TypeOK, JobsInOrder, WorkingUnderLock
    <2>3. ASSUME NEW i \in Jobs, stage'[i] \in Guessing, i # j
          PROVE  /\ stage[i] = stage'[i] /\ rec[i] # rec[j] /\ disk'[rec[i]] = disk[rec[i]]
      <3>1. stage[i] = stage'[i]
        BY <2>3 DEF TypeOK
      <3>2. rec[i] # rec[j]
        BY <2>1, <2>3, <3>1
      <3>3. disk'[rec[i]] = disk[rec[i]]
        <4>1. CASE rec[i] \in Recordings
          BY <3>2, <4>1 DEF TypeOK
        <4>2. CASE rec[i] \notin Recordings
          BY <2>3, <3>1, <4>2 DEF TypeOK, JobsInOrder, WorkingUnderLock
        <4>3. QED BY <4>1, <4>2
      <3>4. QED
        BY <3>1, <3>2, <3>3
    <2>4. disk'[rec[j]] = "torn" /\ stage'[j] = "writing" /\ stage[j] = "save"
      BY <2>2 DEF TypeOK
    <2>5. QED
      BY <2>3, <2>4 DEF TypeOK, GuessBeforeAnswers
  <1>5. AnswersAreAboutTheRecording'
    BY DEF TypeOK, RunnerTypeOK, Gate!GateTypeOK, GuessBeforeAnswers, AnswersAreAboutTheRecording
  <1>6. SavedAnswersStay'
    BY DEF TypeOK, RunnerTypeOK, Gate!GateTypeOK, GuessBeforeAnswers, AnswersAreAboutTheRecording,
           SavedAnswersStay
  <1>7. FiledByTheHolder'
    BY DEF TypeOK, RunnerTypeOK, Gate!GateTypeOK, JobsInOrder, WorkingUnderLock, FiledByTheHolder
  <1>8. HeldForARecording'
    BY DEF TypeOK, RunnerTypeOK, Gate!GateTypeOK, JobsInOrder, WorkingUnderLock, HeldForARecording
  <1>9. WokenAtTheGate'
    BY DEF TypeOK, RunnerTypeOK, Gate!GateTypeOK, JobsInOrder, WorkingUnderLock, FiledByTheHolder, WokenAtTheGate
  <1>10. FoldedInIsRead'
    BY DEF TypeOK, RunnerTypeOK, Gate!GateTypeOK, JobsInOrder, WorkingUnderLock, FiledByTheHolder, WokenAtTheGate,
           FoldedInIsRead, SavedAnswersStay, GuessBeforeAnswers, AnswersAreAboutTheRecording
  <1>11. QED BY <1>1, <1>2, <1>3, <1>4, <1>5, <1>6, <1>7, <1>8, <1>9, <1>10

LEMMA LeaveGuessUnsavedKeepsIInv == ASSUME IInv, NEW j \in Jobs, LeaveGuessUnsaved(j) PROVE IInv'
  <1> USE DEF IInv, LeaveGuessUnsaved, JobOnly
  <1>1. TypeOK'
    BY DEF TypeOK, RunnerTypeOK, Gate!GateTypeOK, JobsInOrder, WorkingUnderLock, AnswersAreAboutTheRecording, HeldForARecording
  <1>2. JobsInOrder'
    BY DEF TypeOK, RunnerTypeOK, Gate!GateTypeOK, JobsInOrder, WorkingUnderLock, AnswersAreAboutTheRecording
  <1>3. WorkingUnderLock'
    BY DEF TypeOK, RunnerTypeOK, Gate!GateTypeOK, JobsInOrder, WorkingUnderLock
  <1>4. GuessBeforeAnswers'
    BY DEF TypeOK, RunnerTypeOK, Gate!GateTypeOK, JobsInOrder, WorkingUnderLock, GuessBeforeAnswers,
           AnswersAreAboutTheRecording
  <1>5. AnswersAreAboutTheRecording'
    BY DEF TypeOK, RunnerTypeOK, Gate!GateTypeOK, GuessBeforeAnswers, AnswersAreAboutTheRecording
  <1>6. SavedAnswersStay'
    BY DEF TypeOK, RunnerTypeOK, Gate!GateTypeOK, GuessBeforeAnswers, AnswersAreAboutTheRecording,
           SavedAnswersStay
  <1>7. FiledByTheHolder'
    BY DEF TypeOK, RunnerTypeOK, Gate!GateTypeOK, JobsInOrder, WorkingUnderLock, FiledByTheHolder
  <1>8. HeldForARecording'
    BY DEF TypeOK, HeldForARecording
  <1>9. WokenAtTheGate'
    BY DEF TypeOK, RunnerTypeOK, Gate!GateTypeOK, JobsInOrder, WorkingUnderLock, FiledByTheHolder, WokenAtTheGate
  <1>10. FoldedInIsRead'
    BY DEF TypeOK, RunnerTypeOK, Gate!GateTypeOK, JobsInOrder, WorkingUnderLock, FiledByTheHolder, WokenAtTheGate,
           FoldedInIsRead, SavedAnswersStay, GuessBeforeAnswers, AnswersAreAboutTheRecording
  <1>11. QED BY <1>1, <1>2, <1>3, <1>4, <1>5, <1>6, <1>7, <1>8, <1>9, <1>10

LEMMA WriteGuessKeepsIInv == ASSUME IInv, NEW j \in Jobs, WriteGuess(j) PROVE IInv'
  <1> USE DEF IInv, WriteGuess
  <1>1. TypeOK'
    BY DEF TypeOK, RunnerTypeOK, Gate!GateTypeOK, JobsInOrder, WorkingUnderLock, AnswersAreAboutTheRecording, HeldForARecording
  <1>2. JobsInOrder'
    BY DEF TypeOK, RunnerTypeOK, Gate!GateTypeOK, JobsInOrder, WorkingUnderLock, AnswersAreAboutTheRecording
  <1>3. WorkingUnderLock'
    BY DEF TypeOK, RunnerTypeOK, Gate!GateTypeOK, JobsInOrder, WorkingUnderLock
  <1>4. GuessBeforeAnswers'
    BY DEF TypeOK, RunnerTypeOK, Gate!GateTypeOK, JobsInOrder, WorkingUnderLock, GuessBeforeAnswers,
           AnswersAreAboutTheRecording
  <1>5. AnswersAreAboutTheRecording'
    BY SMTT(30) DEF TypeOK, RunnerTypeOK, Gate!GateTypeOK, GuessBeforeAnswers, AnswersAreAboutTheRecording
  <1>6. SavedAnswersStay'
    BY DEF TypeOK, RunnerTypeOK, Gate!GateTypeOK, GuessBeforeAnswers, AnswersAreAboutTheRecording,
           SavedAnswersStay
  <1>7. FiledByTheHolder'
    BY DEF TypeOK, RunnerTypeOK, Gate!GateTypeOK, JobsInOrder, WorkingUnderLock, FiledByTheHolder
  <1>8. HeldForARecording'
    BY DEF TypeOK, RunnerTypeOK, Gate!GateTypeOK, JobsInOrder, WorkingUnderLock, HeldForARecording
  <1>9. WokenAtTheGate'
    BY DEF TypeOK, RunnerTypeOK, Gate!GateTypeOK, JobsInOrder, WorkingUnderLock, FiledByTheHolder, WokenAtTheGate
  <1>10. FoldedInIsRead'
    BY DEF TypeOK, RunnerTypeOK, Gate!GateTypeOK, JobsInOrder, WorkingUnderLock, FiledByTheHolder, WokenAtTheGate,
           FoldedInIsRead, SavedAnswersStay, GuessBeforeAnswers, AnswersAreAboutTheRecording
  <1>11. QED BY <1>1, <1>2, <1>3, <1>4, <1>5, <1>6, <1>7, <1>8, <1>9, <1>10

LEMMA NothingToConfirmKeepsIInv == ASSUME IInv, NEW j \in Jobs, NothingToConfirm(j) PROVE IInv'
  <1> USE DEF IInv, NothingToConfirm, JobOnly
  <1>1. TypeOK'
    BY DEF TypeOK, RunnerTypeOK, Gate!GateTypeOK, JobsInOrder, WorkingUnderLock, AnswersAreAboutTheRecording, HeldForARecording
  <1>2. JobsInOrder'
    BY DEF TypeOK, RunnerTypeOK, Gate!GateTypeOK, JobsInOrder, WorkingUnderLock, AnswersAreAboutTheRecording
  <1>3. WorkingUnderLock'
    BY DEF TypeOK, RunnerTypeOK, Gate!GateTypeOK, JobsInOrder, WorkingUnderLock
  <1>4. GuessBeforeAnswers'
    BY DEF TypeOK, RunnerTypeOK, Gate!GateTypeOK, JobsInOrder, WorkingUnderLock, GuessBeforeAnswers,
           AnswersAreAboutTheRecording
  <1>5. AnswersAreAboutTheRecording'
    BY DEF TypeOK, RunnerTypeOK, Gate!GateTypeOK, GuessBeforeAnswers, AnswersAreAboutTheRecording
  <1>6. SavedAnswersStay'
    BY DEF TypeOK, RunnerTypeOK, Gate!GateTypeOK, GuessBeforeAnswers, AnswersAreAboutTheRecording,
           SavedAnswersStay
  <1>7. FiledByTheHolder'
    BY DEF TypeOK, RunnerTypeOK, Gate!GateTypeOK, JobsInOrder, WorkingUnderLock, FiledByTheHolder
  <1>8. HeldForARecording'
    BY DEF TypeOK, RunnerTypeOK, Gate!GateTypeOK, JobsInOrder, WorkingUnderLock, HeldForARecording
  <1>9. WokenAtTheGate'
    BY DEF TypeOK, RunnerTypeOK, Gate!GateTypeOK, JobsInOrder, WorkingUnderLock, FiledByTheHolder, WokenAtTheGate
  <1>10. FoldedInIsRead'
    <2>1. ASSUME NEW p \in Posts, woke[p] = j PROVE FALSE
      <3>1. woke[p] # NoJob
        BY <2>1, JobIsAJob
      <3>2. stage[j] \in AtTheGate \cup {"reread", "author", "settled"}
        BY <3>1, <2>1 DEF WokenAtTheGate
      <3>3. QED
        BY <3>2
    <2>2. QED
      BY <2>1 DEF TypeOK, FoldedInIsRead
  <1>11. QED BY <1>1, <1>2, <1>3, <1>4, <1>5, <1>6, <1>7, <1>8, <1>9, <1>10

LEMMA HoldKeepsIInv == ASSUME IInv, NEW j \in Jobs, Hold(j) PROVE IInv'
  <1> USE DEF IInv, Hold, Gate!FileHold, AwaitedRecording
  <1>1. TypeOK'
    BY DEF TypeOK, RunnerTypeOK, Gate!GateTypeOK, JobsInOrder, WorkingUnderLock, AnswersAreAboutTheRecording, HeldForARecording
  <1>2. JobsInOrder'
    BY DEF TypeOK, RunnerTypeOK, Gate!GateTypeOK, JobsInOrder, WorkingUnderLock, AnswersAreAboutTheRecording
  <1>3. WorkingUnderLock'
    BY DEF TypeOK, RunnerTypeOK, Gate!GateTypeOK, JobsInOrder, WorkingUnderLock
  <1>4. GuessBeforeAnswers'
    BY DEF TypeOK, RunnerTypeOK, Gate!GateTypeOK, JobsInOrder, WorkingUnderLock, GuessBeforeAnswers,
           AnswersAreAboutTheRecording
  <1>5. AnswersAreAboutTheRecording'
    BY DEF TypeOK, RunnerTypeOK, Gate!GateTypeOK, GuessBeforeAnswers, AnswersAreAboutTheRecording
  <1>6. SavedAnswersStay'
    BY DEF TypeOK, RunnerTypeOK, Gate!GateTypeOK, GuessBeforeAnswers, AnswersAreAboutTheRecording,
           SavedAnswersStay
  <1>7. FiledByTheHolder'
    BY DEF TypeOK, RunnerTypeOK, Gate!GateTypeOK, JobsInOrder, WorkingUnderLock, FiledByTheHolder
  <1>8. HeldForARecording'
    BY DEF TypeOK, RunnerTypeOK, Gate!GateTypeOK, JobsInOrder, WorkingUnderLock, HeldForARecording
  <1>9. WokenAtTheGate'
    <2>1. ASSUME NEW p \in Posts, woke[p] = j PROVE FALSE
      <3>1. woke[p] # NoJob
        BY <2>1, JobIsAJob
      <3>2. stage[j] \in AtTheGate \cup {"reread", "author", "settled"}
        BY <3>1, <2>1 DEF WokenAtTheGate
      <3>3. QED
        BY <3>2
    <2>2. QED
      BY <2>1 DEF TypeOK, WokenAtTheGate
  <1>10. FoldedInIsRead'
    BY DEF TypeOK, RunnerTypeOK, Gate!GateTypeOK, JobsInOrder, WorkingUnderLock, FiledByTheHolder, WokenAtTheGate,
           FoldedInIsRead, SavedAnswersStay, GuessBeforeAnswers, AnswersAreAboutTheRecording
  <1>11. QED BY <1>1, <1>2, <1>3, <1>4, <1>5, <1>6, <1>7, <1>8, <1>9, <1>10

LEMMA WakeKeepsIInv == ASSUME IInv, NEW j \in Jobs, Wake(j) PROVE IInv'
  <1> USE DEF IInv, Wake, JobOnly
  <1>1. TypeOK'
    BY DEF TypeOK, RunnerTypeOK, Gate!GateTypeOK, JobsInOrder, WorkingUnderLock, AnswersAreAboutTheRecording, HeldForARecording
  <1>2. JobsInOrder'
    BY DEF TypeOK, RunnerTypeOK, Gate!GateTypeOK, JobsInOrder, WorkingUnderLock, AnswersAreAboutTheRecording
  <1>3. WorkingUnderLock'
    BY DEF TypeOK, RunnerTypeOK, Gate!GateTypeOK, JobsInOrder, WorkingUnderLock
  <1>4. GuessBeforeAnswers'
    BY DEF TypeOK, RunnerTypeOK, Gate!GateTypeOK, JobsInOrder, WorkingUnderLock, GuessBeforeAnswers,
           AnswersAreAboutTheRecording
  <1>5. AnswersAreAboutTheRecording'
    BY DEF TypeOK, RunnerTypeOK, Gate!GateTypeOK, GuessBeforeAnswers, AnswersAreAboutTheRecording
  <1>6. SavedAnswersStay'
    BY DEF TypeOK, RunnerTypeOK, Gate!GateTypeOK, GuessBeforeAnswers, AnswersAreAboutTheRecording,
           SavedAnswersStay
  <1>7. FiledByTheHolder'
    BY DEF TypeOK, RunnerTypeOK, Gate!GateTypeOK, JobsInOrder, WorkingUnderLock, FiledByTheHolder
  <1>8. HeldForARecording'
    BY DEF TypeOK, HeldForARecording
  <1>9. WokenAtTheGate'
    BY DEF TypeOK, RunnerTypeOK, Gate!GateTypeOK, JobsInOrder, WorkingUnderLock, FiledByTheHolder, WokenAtTheGate
  <1>10. FoldedInIsRead'
    BY DEF TypeOK, RunnerTypeOK, Gate!GateTypeOK, JobsInOrder, WorkingUnderLock, FiledByTheHolder, WokenAtTheGate,
           FoldedInIsRead, SavedAnswersStay, GuessBeforeAnswers, AnswersAreAboutTheRecording
  <1>11. QED BY <1>1, <1>2, <1>3, <1>4, <1>5, <1>6, <1>7, <1>8, <1>9, <1>10

LEMMA LeaveGateKeepsIInv == ASSUME IInv, NEW j \in Jobs, LeaveGate(j) PROVE IInv'
  <1> USE DEF IInv, LeaveGate, Gate!UnfileHold
  <1>1. TypeOK'
    BY DEF TypeOK, RunnerTypeOK, Gate!GateTypeOK, JobsInOrder, WorkingUnderLock, AnswersAreAboutTheRecording, HeldForARecording
  <1>2. JobsInOrder'
    BY DEF TypeOK, RunnerTypeOK, Gate!GateTypeOK, JobsInOrder, WorkingUnderLock, AnswersAreAboutTheRecording
  <1>3. WorkingUnderLock'
    BY DEF TypeOK, RunnerTypeOK, Gate!GateTypeOK, JobsInOrder, WorkingUnderLock
  <1>4. GuessBeforeAnswers'
    BY DEF TypeOK, RunnerTypeOK, Gate!GateTypeOK, JobsInOrder, WorkingUnderLock, GuessBeforeAnswers,
           AnswersAreAboutTheRecording
  <1>5. AnswersAreAboutTheRecording'
    BY DEF TypeOK, RunnerTypeOK, Gate!GateTypeOK, GuessBeforeAnswers, AnswersAreAboutTheRecording
  <1>6. SavedAnswersStay'
    BY DEF TypeOK, RunnerTypeOK, Gate!GateTypeOK, GuessBeforeAnswers, AnswersAreAboutTheRecording,
           SavedAnswersStay
  <1>7. FiledByTheHolder'
    BY DEF TypeOK, RunnerTypeOK, Gate!GateTypeOK, JobsInOrder, WorkingUnderLock, FiledByTheHolder
  <1>8. HeldForARecording'
    BY DEF TypeOK, HeldForARecording
  <1>9. WokenAtTheGate'
    BY DEF TypeOK, RunnerTypeOK, Gate!GateTypeOK, JobsInOrder, WorkingUnderLock, FiledByTheHolder, WokenAtTheGate
  <1>10. FoldedInIsRead'
    BY DEF TypeOK, RunnerTypeOK, Gate!GateTypeOK, JobsInOrder, WorkingUnderLock, FiledByTheHolder, WokenAtTheGate,
           FoldedInIsRead, SavedAnswersStay, GuessBeforeAnswers, AnswersAreAboutTheRecording
  <1>11. QED BY <1>1, <1>2, <1>3, <1>4, <1>5, <1>6, <1>7, <1>8, <1>9, <1>10

LEMMA RereadKeepsIInv == ASSUME IInv, NEW j \in Jobs, Reread(j) PROVE IInv'
  <1> USE DEF IInv, Reread
  <1>1. TypeOK'
    BY DEF TypeOK, RunnerTypeOK, Gate!GateTypeOK, JobsInOrder, WorkingUnderLock, AnswersAreAboutTheRecording, HeldForARecording
  <1>2. JobsInOrder'
    BY DEF TypeOK, RunnerTypeOK, Gate!GateTypeOK, JobsInOrder, WorkingUnderLock, AnswersAreAboutTheRecording
  <1>3. WorkingUnderLock'
    BY DEF TypeOK, RunnerTypeOK, Gate!GateTypeOK, JobsInOrder, WorkingUnderLock
  <1>4. GuessBeforeAnswers'
    BY DEF TypeOK, RunnerTypeOK, Gate!GateTypeOK, JobsInOrder, WorkingUnderLock, GuessBeforeAnswers,
           AnswersAreAboutTheRecording
  <1>5. AnswersAreAboutTheRecording'
    BY DEF TypeOK, RunnerTypeOK, Gate!GateTypeOK, GuessBeforeAnswers, AnswersAreAboutTheRecording
  <1>6. SavedAnswersStay'
    BY DEF TypeOK, RunnerTypeOK, Gate!GateTypeOK, GuessBeforeAnswers, AnswersAreAboutTheRecording,
           SavedAnswersStay
  <1>7. FiledByTheHolder'
    BY DEF TypeOK, RunnerTypeOK, Gate!GateTypeOK, JobsInOrder, WorkingUnderLock, FiledByTheHolder
  <1>8. HeldForARecording'
    BY DEF TypeOK, RunnerTypeOK, Gate!GateTypeOK, JobsInOrder, WorkingUnderLock, HeldForARecording
  <1>9. WokenAtTheGate'
    BY DEF TypeOK, RunnerTypeOK, Gate!GateTypeOK, JobsInOrder, WorkingUnderLock, FiledByTheHolder, WokenAtTheGate
  <1>10. FoldedInIsRead'
    BY DEF TypeOK, RunnerTypeOK, Gate!GateTypeOK, JobsInOrder, WorkingUnderLock, FiledByTheHolder, WokenAtTheGate,
           FoldedInIsRead, SavedAnswersStay, GuessBeforeAnswers, AnswersAreAboutTheRecording
  <1>11. QED BY <1>1, <1>2, <1>3, <1>4, <1>5, <1>6, <1>7, <1>8, <1>9, <1>10

LEMMA AuthorKeepsIInv == ASSUME IInv, NEW j \in Jobs, Author(j) PROVE IInv'
  <1> USE DEF IInv, Author, Authored, Settle
  <1>1. TypeOK'
    BY DEF TypeOK, RunnerTypeOK, Gate!GateTypeOK, JobsInOrder, WorkingUnderLock, AnswersAreAboutTheRecording, HeldForARecording
  <1>2. JobsInOrder'
    BY DEF TypeOK, RunnerTypeOK, Gate!GateTypeOK, JobsInOrder, WorkingUnderLock, AnswersAreAboutTheRecording
  <1>3. WorkingUnderLock'
    BY DEF TypeOK, RunnerTypeOK, Gate!GateTypeOK, JobsInOrder, WorkingUnderLock
  <1>4. GuessBeforeAnswers'
    BY DEF TypeOK, RunnerTypeOK, Gate!GateTypeOK, JobsInOrder, WorkingUnderLock, GuessBeforeAnswers,
           AnswersAreAboutTheRecording
  <1>5. AnswersAreAboutTheRecording'
    BY DEF TypeOK, RunnerTypeOK, Gate!GateTypeOK, GuessBeforeAnswers, AnswersAreAboutTheRecording
  <1>6. SavedAnswersStay'
    BY DEF TypeOK, RunnerTypeOK, Gate!GateTypeOK, GuessBeforeAnswers, AnswersAreAboutTheRecording,
           SavedAnswersStay
  <1>7. FiledByTheHolder'
    BY DEF TypeOK, RunnerTypeOK, Gate!GateTypeOK, JobsInOrder, WorkingUnderLock, FiledByTheHolder
  <1>8. HeldForARecording'
    BY DEF TypeOK, RunnerTypeOK, Gate!GateTypeOK, JobsInOrder, WorkingUnderLock, HeldForARecording
  <1>9. WokenAtTheGate'
    BY DEF TypeOK, RunnerTypeOK, Gate!GateTypeOK, JobsInOrder, WorkingUnderLock, FiledByTheHolder, WokenAtTheGate
  <1>10. FoldedInIsRead'
    BY DEF TypeOK, RunnerTypeOK, Gate!GateTypeOK, JobsInOrder, WorkingUnderLock, FiledByTheHolder, WokenAtTheGate,
           FoldedInIsRead, SavedAnswersStay, GuessBeforeAnswers, AnswersAreAboutTheRecording
  <1>11. QED BY <1>1, <1>2, <1>3, <1>4, <1>5, <1>6, <1>7, <1>8, <1>9, <1>10

LEMMA FailEarlyKeepsIInv == ASSUME IInv, NEW j \in Jobs, FailEarly(j) PROVE IInv'
  <1> USE DEF IInv, FailEarly, Settle
  <1>1. TypeOK'
    BY DEF TypeOK, RunnerTypeOK, Gate!GateTypeOK, JobsInOrder, WorkingUnderLock, AnswersAreAboutTheRecording, HeldForARecording
  <1>2. JobsInOrder'
    BY DEF TypeOK, RunnerTypeOK, Gate!GateTypeOK, JobsInOrder, WorkingUnderLock, AnswersAreAboutTheRecording
  <1>3. WorkingUnderLock'
    BY DEF TypeOK, RunnerTypeOK, Gate!GateTypeOK, JobsInOrder, WorkingUnderLock
  <1>4. GuessBeforeAnswers'
    BY DEF TypeOK, RunnerTypeOK, Gate!GateTypeOK, JobsInOrder, WorkingUnderLock, GuessBeforeAnswers,
           AnswersAreAboutTheRecording
  <1>5. AnswersAreAboutTheRecording'
    BY DEF TypeOK, RunnerTypeOK, Gate!GateTypeOK, GuessBeforeAnswers, AnswersAreAboutTheRecording
  <1>6. SavedAnswersStay'
    BY DEF TypeOK, RunnerTypeOK, Gate!GateTypeOK, GuessBeforeAnswers, AnswersAreAboutTheRecording,
           SavedAnswersStay
  <1>7. FiledByTheHolder'
    BY DEF TypeOK, RunnerTypeOK, Gate!GateTypeOK, JobsInOrder, WorkingUnderLock, FiledByTheHolder
  <1>8. HeldForARecording'
    BY DEF TypeOK, RunnerTypeOK, Gate!GateTypeOK, JobsInOrder, WorkingUnderLock, HeldForARecording
  <1>9. WokenAtTheGate'
    BY DEF TypeOK, RunnerTypeOK, Gate!GateTypeOK, JobsInOrder, WorkingUnderLock, FiledByTheHolder, WokenAtTheGate
  <1>10. FoldedInIsRead'
    <2>1. ASSUME NEW p \in Posts, woke[p] = j PROVE FALSE
      <3>1. woke[p] # NoJob
        BY <2>1, JobIsAJob
      <3>2. stage[j] \in AtTheGate \cup {"reread", "author", "settled"}
        BY <3>1, <2>1 DEF WokenAtTheGate
      <3>3. QED
        BY <3>2
    <2>2. QED
      BY <2>1 DEF TypeOK, FoldedInIsRead
  <1>11. QED BY <1>1, <1>2, <1>3, <1>4, <1>5, <1>6, <1>7, <1>8, <1>9, <1>10

LEMMA FailLateKeepsIInv == ASSUME IInv, NEW j \in Jobs, FailLate(j) PROVE IInv'
  <1> USE DEF IInv, FailLate, Authored, Settle
  <1>1. TypeOK'
    <2>1. Authored(j) \in [Recordings -> [of : Recordings \cup {NoRecording}, with : SUBSET Posts]]
      BY DEF TypeOK
    <2>2. draft' \in [Recordings -> [of : Recordings \cup {NoRecording}, with : SUBSET Posts]]
      BY <2>1 DEF TypeOK
    <2>3. QED
      BY <2>2 DEF TypeOK, RunnerTypeOK, Gate!GateTypeOK
  <1>2. JobsInOrder'
    BY DEF TypeOK, RunnerTypeOK, Gate!GateTypeOK, JobsInOrder, WorkingUnderLock, AnswersAreAboutTheRecording
  <1>3. WorkingUnderLock'
    BY DEF TypeOK, RunnerTypeOK, Gate!GateTypeOK, JobsInOrder, WorkingUnderLock
  <1>4. GuessBeforeAnswers'
    BY DEF TypeOK, RunnerTypeOK, Gate!GateTypeOK, JobsInOrder, WorkingUnderLock, GuessBeforeAnswers,
           AnswersAreAboutTheRecording
  <1>5. AnswersAreAboutTheRecording'
    BY DEF TypeOK, RunnerTypeOK, Gate!GateTypeOK, GuessBeforeAnswers, AnswersAreAboutTheRecording
  <1>6. SavedAnswersStay'
    BY DEF TypeOK, RunnerTypeOK, Gate!GateTypeOK, GuessBeforeAnswers, AnswersAreAboutTheRecording,
           SavedAnswersStay
  <1>7. FiledByTheHolder'
    BY DEF TypeOK, RunnerTypeOK, Gate!GateTypeOK, JobsInOrder, WorkingUnderLock, FiledByTheHolder
  <1>8. HeldForARecording'
    BY DEF TypeOK, RunnerTypeOK, Gate!GateTypeOK, JobsInOrder, WorkingUnderLock, HeldForARecording
  <1>9. WokenAtTheGate'
    BY DEF TypeOK, RunnerTypeOK, Gate!GateTypeOK, JobsInOrder, WorkingUnderLock, FiledByTheHolder, WokenAtTheGate
  <1>10. FoldedInIsRead'
    BY DEF TypeOK, RunnerTypeOK, Gate!GateTypeOK, JobsInOrder, WorkingUnderLock, FiledByTheHolder, WokenAtTheGate,
           FoldedInIsRead, SavedAnswersStay, GuessBeforeAnswers, AnswersAreAboutTheRecording
  <1>11. QED BY <1>1, <1>2, <1>3, <1>4, <1>5, <1>6, <1>7, <1>8, <1>9, <1>10

LEMMA LoadToAnswerKeepsIInv == ASSUME IInv, NEW p \in Posts, NEW r \in Recordings, LoadToAnswer(p, r) PROVE IInv'
  <1> USE DEF IInv, LoadToAnswer
  <1>1. TypeOK'
    BY DEF TypeOK, RunnerTypeOK, Gate!GateTypeOK, JobsInOrder, WorkingUnderLock, AnswersAreAboutTheRecording, HeldForARecording
  <1>2. JobsInOrder'
    BY DEF TypeOK, RunnerTypeOK, Gate!GateTypeOK, JobsInOrder, WorkingUnderLock, AnswersAreAboutTheRecording
  <1>3. WorkingUnderLock'
    BY DEF TypeOK, RunnerTypeOK, Gate!GateTypeOK, JobsInOrder, WorkingUnderLock
  <1>4. GuessBeforeAnswers'
    BY DEF TypeOK, RunnerTypeOK, Gate!GateTypeOK, JobsInOrder, WorkingUnderLock, GuessBeforeAnswers,
           AnswersAreAboutTheRecording
  <1>5. AnswersAreAboutTheRecording'
    BY DEF TypeOK, RunnerTypeOK, Gate!GateTypeOK, GuessBeforeAnswers, AnswersAreAboutTheRecording
  <1>6. SavedAnswersStay'
    BY DEF TypeOK, RunnerTypeOK, Gate!GateTypeOK, GuessBeforeAnswers, AnswersAreAboutTheRecording,
           SavedAnswersStay
  <1>7. FiledByTheHolder'
    BY DEF TypeOK, RunnerTypeOK, Gate!GateTypeOK, JobsInOrder, WorkingUnderLock, FiledByTheHolder
  <1>8. HeldForARecording'
    BY DEF TypeOK, RunnerTypeOK, Gate!GateTypeOK, JobsInOrder, WorkingUnderLock, HeldForARecording
  <1>9. WokenAtTheGate'
    BY DEF TypeOK, RunnerTypeOK, Gate!GateTypeOK, JobsInOrder, WorkingUnderLock, FiledByTheHolder, WokenAtTheGate
  <1>10. FoldedInIsRead'
    BY DEF TypeOK, RunnerTypeOK, Gate!GateTypeOK, JobsInOrder, WorkingUnderLock, FiledByTheHolder, WokenAtTheGate,
           FoldedInIsRead, SavedAnswersStay, GuessBeforeAnswers, AnswersAreAboutTheRecording
  <1>11. QED BY <1>1, <1>2, <1>3, <1>4, <1>5, <1>6, <1>7, <1>8, <1>9, <1>10

LEMMA RefuseAnswerKeepsIInv == ASSUME IInv, NEW p \in Posts, NEW r \in Recordings, RefuseAnswer(p, r) PROVE IInv'
  <1> USE DEF IInv, RefuseAnswer
  <1>1. TypeOK'
    BY DEF TypeOK, RunnerTypeOK, Gate!GateTypeOK, JobsInOrder, WorkingUnderLock, AnswersAreAboutTheRecording, HeldForARecording
  <1>2. JobsInOrder'
    BY DEF TypeOK, RunnerTypeOK, Gate!GateTypeOK, JobsInOrder, WorkingUnderLock, AnswersAreAboutTheRecording
  <1>3. WorkingUnderLock'
    BY DEF TypeOK, RunnerTypeOK, Gate!GateTypeOK, JobsInOrder, WorkingUnderLock
  <1>4. GuessBeforeAnswers'
    BY DEF TypeOK, RunnerTypeOK, Gate!GateTypeOK, JobsInOrder, WorkingUnderLock, GuessBeforeAnswers,
           AnswersAreAboutTheRecording
  <1>5. AnswersAreAboutTheRecording'
    <2>1. /\ \A r1 \in Recordings : p \notin answers[r1]
          /\ \A q \in Posts : p \notin base[q]
      BY DEF TypeOK, AnswersAreAboutTheRecording
    <2>2. /\ \A q \in Posts : q # p => about'[q] = about[q] /\ post'[q] = post[q]
          /\ about'[p] = r /\ post'[p] = "refused" /\ post[p] = "idle"
          /\ UNCHANGED <<base, disk, answers>>
      BY DEF TypeOK
    <2>3. /\ \A q \in Posts : post'[q] # "idle" => about'[q] \in Recordings
          /\ \A q \in Posts : IF Touched(q)' THEN disk'[about'[q]] # "absent" /\ q \in base'[q]
                                              ELSE base'[q] = {}
      BY <2>2 DEF AnswersAreAboutTheRecording
    <2>4. \A r1 \in Recordings : \A q \in answers'[r1] : Touched(q)' /\ about'[q] = r1
      BY <2>1, <2>2 DEF TypeOK, AnswersAreAboutTheRecording
    <2>5. \A o \in Posts : \A q \in base'[o] : Touched(q)' /\ about'[q] = about'[o]
      <3>1. base[p] = {}
        BY DEF AnswersAreAboutTheRecording
      <3>2. QED
        BY <2>1, <2>2, <3>1 DEF TypeOK, AnswersAreAboutTheRecording
    <2>6. QED
      BY <2>3, <2>4, <2>5 DEF AnswersAreAboutTheRecording
  <1>6. SavedAnswersStay'
    BY DEF TypeOK, RunnerTypeOK, Gate!GateTypeOK, GuessBeforeAnswers, AnswersAreAboutTheRecording,
           SavedAnswersStay
  <1>7. FiledByTheHolder'
    BY DEF TypeOK, RunnerTypeOK, Gate!GateTypeOK, JobsInOrder, WorkingUnderLock, FiledByTheHolder
  <1>8. HeldForARecording'
    BY DEF TypeOK, RunnerTypeOK, Gate!GateTypeOK, JobsInOrder, WorkingUnderLock, HeldForARecording
  <1>9. WokenAtTheGate'
    BY DEF TypeOK, RunnerTypeOK, Gate!GateTypeOK, JobsInOrder, WorkingUnderLock, FiledByTheHolder, WokenAtTheGate
  <1>10. FoldedInIsRead'
    BY DEF TypeOK, RunnerTypeOK, Gate!GateTypeOK, JobsInOrder, WorkingUnderLock, FiledByTheHolder, WokenAtTheGate,
           FoldedInIsRead, SavedAnswersStay, GuessBeforeAnswers, AnswersAreAboutTheRecording
  <1>11. QED BY <1>1, <1>2, <1>3, <1>4, <1>5, <1>6, <1>7, <1>8, <1>9, <1>10

LEMMA OpenAnswerFileKeepsIInv == ASSUME IInv, NEW p \in Posts, OpenAnswerFile(p) PROVE IInv'
  <1> USE DEF IInv, OpenAnswerFile
  <1>1. TypeOK'
    BY DEF TypeOK, RunnerTypeOK, Gate!GateTypeOK, JobsInOrder, WorkingUnderLock, AnswersAreAboutTheRecording, HeldForARecording
  <1>2. JobsInOrder'
    BY DEF TypeOK, RunnerTypeOK, Gate!GateTypeOK, JobsInOrder, WorkingUnderLock, AnswersAreAboutTheRecording
  <1>3. WorkingUnderLock'
    BY DEF TypeOK, RunnerTypeOK, Gate!GateTypeOK, JobsInOrder, WorkingUnderLock
  <1>4. GuessBeforeAnswers'
    BY DEF TypeOK, RunnerTypeOK, Gate!GateTypeOK, JobsInOrder, WorkingUnderLock, GuessBeforeAnswers,
           AnswersAreAboutTheRecording
  <1>5. AnswersAreAboutTheRecording'
    BY DEF TypeOK, RunnerTypeOK, Gate!GateTypeOK, GuessBeforeAnswers, AnswersAreAboutTheRecording
  <1>6. SavedAnswersStay'
    BY DEF TypeOK, RunnerTypeOK, Gate!GateTypeOK, GuessBeforeAnswers, AnswersAreAboutTheRecording,
           SavedAnswersStay
  <1>7. FiledByTheHolder'
    BY DEF TypeOK, RunnerTypeOK, Gate!GateTypeOK, JobsInOrder, WorkingUnderLock, FiledByTheHolder
  <1>8. HeldForARecording'
    BY DEF TypeOK, RunnerTypeOK, Gate!GateTypeOK, JobsInOrder, WorkingUnderLock, HeldForARecording
  <1>9. WokenAtTheGate'
    BY DEF TypeOK, RunnerTypeOK, Gate!GateTypeOK, JobsInOrder, WorkingUnderLock, FiledByTheHolder, WokenAtTheGate
  <1>10. FoldedInIsRead'
    BY DEF TypeOK, RunnerTypeOK, Gate!GateTypeOK, JobsInOrder, WorkingUnderLock, FiledByTheHolder, WokenAtTheGate,
           FoldedInIsRead, SavedAnswersStay, GuessBeforeAnswers, AnswersAreAboutTheRecording
  <1>11. QED BY <1>1, <1>2, <1>3, <1>4, <1>5, <1>6, <1>7, <1>8, <1>9, <1>10

LEMMA WriteAnswersKeepsIInv == ASSUME IInv, NEW p \in Posts, WriteAnswers(p) PROVE IInv'
  <1> USE DEF IInv, WriteAnswers
  <1>1. TypeOK'
    BY DEF TypeOK, RunnerTypeOK, Gate!GateTypeOK, JobsInOrder, WorkingUnderLock, AnswersAreAboutTheRecording, HeldForARecording
  <1>2. JobsInOrder'
    BY DEF TypeOK, RunnerTypeOK, Gate!GateTypeOK, JobsInOrder, WorkingUnderLock, AnswersAreAboutTheRecording
  <1>3. WorkingUnderLock'
    BY DEF TypeOK, RunnerTypeOK, Gate!GateTypeOK, JobsInOrder, WorkingUnderLock
  <1>4. GuessBeforeAnswers'
    BY DEF TypeOK, RunnerTypeOK, Gate!GateTypeOK, JobsInOrder, WorkingUnderLock, GuessBeforeAnswers,
           AnswersAreAboutTheRecording
  <1>5. AnswersAreAboutTheRecording'
    BY DEF TypeOK, RunnerTypeOK, Gate!GateTypeOK, GuessBeforeAnswers, AnswersAreAboutTheRecording
  <1>6. SavedAnswersStay'
    BY DEF TypeOK, RunnerTypeOK, Gate!GateTypeOK, GuessBeforeAnswers, AnswersAreAboutTheRecording,
           SavedAnswersStay
  <1>7. FiledByTheHolder'
    BY DEF TypeOK, RunnerTypeOK, Gate!GateTypeOK, JobsInOrder, WorkingUnderLock, FiledByTheHolder
  <1>8. HeldForARecording'
    BY DEF TypeOK, RunnerTypeOK, Gate!GateTypeOK, JobsInOrder, WorkingUnderLock, HeldForARecording
  <1>9. WokenAtTheGate'
    BY DEF TypeOK, RunnerTypeOK, Gate!GateTypeOK, JobsInOrder, WorkingUnderLock, FiledByTheHolder, WokenAtTheGate
  <1>10. FoldedInIsRead'
    BY DEF TypeOK, RunnerTypeOK, Gate!GateTypeOK, JobsInOrder, WorkingUnderLock, FiledByTheHolder, WokenAtTheGate,
           FoldedInIsRead, SavedAnswersStay, GuessBeforeAnswers, AnswersAreAboutTheRecording
  <1>11. QED BY <1>1, <1>2, <1>3, <1>4, <1>5, <1>6, <1>7, <1>8, <1>9, <1>10

LEMMA FoldInKeepsIInv == ASSUME IInv, NEW p \in Posts, FoldIn(p) PROVE IInv'
  <1> USE DEF IInv, FoldIn, Gate!ReleaseHolder
  <1>1. TypeOK'
    <2>1. open[about[p]] \in Jobs
      BY DEF TypeOK, Gate!GateTypeOK, AnswersAreAboutTheRecording
    <2>2. Gate!GateTypeOK'
      BY <2>1 DEF TypeOK, Gate!GateTypeOK
    <2>3. QED
      BY <2>1, <2>2 DEF TypeOK, RunnerTypeOK
  <1>2. JobsInOrder'
    BY DEF TypeOK, RunnerTypeOK, Gate!GateTypeOK, JobsInOrder, WorkingUnderLock, AnswersAreAboutTheRecording
  <1>3. WorkingUnderLock'
    BY DEF TypeOK, RunnerTypeOK, Gate!GateTypeOK, JobsInOrder, WorkingUnderLock
  <1>4. GuessBeforeAnswers'
    BY DEF TypeOK, RunnerTypeOK, Gate!GateTypeOK, JobsInOrder, WorkingUnderLock, GuessBeforeAnswers,
           AnswersAreAboutTheRecording
  <1>5. AnswersAreAboutTheRecording'
    BY DEF TypeOK, RunnerTypeOK, Gate!GateTypeOK, GuessBeforeAnswers, AnswersAreAboutTheRecording
  <1>6. SavedAnswersStay'
    BY DEF TypeOK, RunnerTypeOK, Gate!GateTypeOK, GuessBeforeAnswers, AnswersAreAboutTheRecording,
           SavedAnswersStay
  <1>7. FiledByTheHolder'
    BY DEF TypeOK, RunnerTypeOK, Gate!GateTypeOK, JobsInOrder, WorkingUnderLock, FiledByTheHolder
  <1>8. HeldForARecording'
    BY DEF TypeOK, RunnerTypeOK, Gate!GateTypeOK, JobsInOrder, WorkingUnderLock, HeldForARecording
  <1>9. WokenAtTheGate'
    <2>1. /\ open[about[p]] # NoJob /\ about[p] \in Recordings
          /\ woke' = [woke EXCEPT ![p] = open[about[p]]]
      BY DEF AnswersAreAboutTheRecording
    <2>2. heldFor[open[about[p]]] = about[p] /\ stage[open[about[p]]] \in AtTheGate
      BY <2>1 DEF FiledByTheHolder
    <2>3. woke'[p] = open[about[p]] /\ post'[p] = "folded"
      BY DEF TypeOK
    <2>4. \A q \in Posts : q # p => woke'[q] = woke[q] /\ post'[q] = post[q]
      BY DEF TypeOK
    <2>5. QED
      BY <2>2, <2>3, <2>4 DEF WokenAtTheGate
  <1>10. FoldedInIsRead'
    <2>1. stage[open[about[p]]] \in AtTheGate
      BY DEF FiledByTheHolder, AnswersAreAboutTheRecording
    <2>2. woke'[p] = open[about[p]]
      BY DEF TypeOK
    <2>3. \A q \in Posts : q # p => woke'[q] = woke[q] /\ post'[q] = post[q]
      BY DEF TypeOK
    <2>4. QED
      BY <2>1, <2>2, <2>3 DEF FoldedInIsRead
  <1>11. QED BY <1>1, <1>2, <1>3, <1>4, <1>5, <1>6, <1>7, <1>8, <1>9, <1>10

LEMMA FindNobodyHoldingKeepsIInv == ASSUME IInv, NEW p \in Posts, FindNobodyHolding(p) PROVE IInv'
  <1> USE DEF IInv, FindNobodyHolding, Gate!ReleaseNobody, Gate!gateVars
  <1>1. TypeOK'
    BY DEF TypeOK, RunnerTypeOK, Gate!GateTypeOK, JobsInOrder, WorkingUnderLock, AnswersAreAboutTheRecording, HeldForARecording
  <1>2. JobsInOrder'
    BY DEF TypeOK, RunnerTypeOK, Gate!GateTypeOK, JobsInOrder, WorkingUnderLock, AnswersAreAboutTheRecording
  <1>3. WorkingUnderLock'
    BY DEF TypeOK, RunnerTypeOK, Gate!GateTypeOK, JobsInOrder, WorkingUnderLock
  <1>4. GuessBeforeAnswers'
    BY DEF TypeOK, RunnerTypeOK, Gate!GateTypeOK, JobsInOrder, WorkingUnderLock, GuessBeforeAnswers,
           AnswersAreAboutTheRecording
  <1>5. AnswersAreAboutTheRecording'
    BY DEF TypeOK, RunnerTypeOK, Gate!GateTypeOK, GuessBeforeAnswers, AnswersAreAboutTheRecording
  <1>6. SavedAnswersStay'
    BY DEF TypeOK, RunnerTypeOK, Gate!GateTypeOK, GuessBeforeAnswers, AnswersAreAboutTheRecording,
           SavedAnswersStay
  <1>7. FiledByTheHolder'
    BY DEF TypeOK, RunnerTypeOK, Gate!GateTypeOK, JobsInOrder, WorkingUnderLock, FiledByTheHolder
  <1>8. HeldForARecording'
    BY DEF TypeOK, RunnerTypeOK, Gate!GateTypeOK, JobsInOrder, WorkingUnderLock, HeldForARecording
  <1>9. WokenAtTheGate'
    BY DEF TypeOK, RunnerTypeOK, Gate!GateTypeOK, JobsInOrder, WorkingUnderLock, FiledByTheHolder, WokenAtTheGate
  <1>10. FoldedInIsRead'
    BY DEF TypeOK, RunnerTypeOK, Gate!GateTypeOK, JobsInOrder, WorkingUnderLock, FiledByTheHolder, WokenAtTheGate,
           FoldedInIsRead, SavedAnswersStay, GuessBeforeAnswers, AnswersAreAboutTheRecording
  <1>11. QED BY <1>1, <1>2, <1>3, <1>4, <1>5, <1>6, <1>7, <1>8, <1>9, <1>10

LEMMA RunAgainKeepsIInv == ASSUME IInv, NEW p \in Posts, NEW j \in Jobs, RunAgain(p, j) PROVE IInv'
  <1> USE DEF IInv, RunAgain, Enqueue
  <1>1. TypeOK'
    BY DEF TypeOK, RunnerTypeOK, Gate!GateTypeOK, JobsInOrder, WorkingUnderLock, AnswersAreAboutTheRecording, HeldForARecording
  <1>2. JobsInOrder'
    BY DEF TypeOK, RunnerTypeOK, Gate!GateTypeOK, JobsInOrder, WorkingUnderLock, AnswersAreAboutTheRecording
  <1>3. WorkingUnderLock'
    BY DEF TypeOK, RunnerTypeOK, Gate!GateTypeOK, JobsInOrder, WorkingUnderLock
  <1>4. GuessBeforeAnswers'
    BY DEF TypeOK, RunnerTypeOK, Gate!GateTypeOK, JobsInOrder, WorkingUnderLock, GuessBeforeAnswers,
           AnswersAreAboutTheRecording
  <1>5. AnswersAreAboutTheRecording'
    BY DEF TypeOK, RunnerTypeOK, Gate!GateTypeOK, GuessBeforeAnswers, AnswersAreAboutTheRecording
  <1>6. SavedAnswersStay'
    BY DEF TypeOK, RunnerTypeOK, Gate!GateTypeOK, GuessBeforeAnswers, AnswersAreAboutTheRecording,
           SavedAnswersStay
  <1>7. FiledByTheHolder'
    BY DEF TypeOK, RunnerTypeOK, Gate!GateTypeOK, JobsInOrder, WorkingUnderLock, FiledByTheHolder
  <1>8. HeldForARecording'
    BY DEF TypeOK, RunnerTypeOK, Gate!GateTypeOK, JobsInOrder, WorkingUnderLock, HeldForARecording
  <1>9. WokenAtTheGate'
    BY DEF TypeOK, RunnerTypeOK, Gate!GateTypeOK, JobsInOrder, WorkingUnderLock, FiledByTheHolder, WokenAtTheGate
  <1>10. FoldedInIsRead'
    BY DEF TypeOK, RunnerTypeOK, Gate!GateTypeOK, JobsInOrder, WorkingUnderLock, FiledByTheHolder, WokenAtTheGate,
           FoldedInIsRead, SavedAnswersStay, GuessBeforeAnswers, AnswersAreAboutTheRecording
  <1>11. QED BY <1>1, <1>2, <1>3, <1>4, <1>5, <1>6, <1>7, <1>8, <1>9, <1>10

LEMMA SkipKeepsIInv == ASSUME IInv, NEW r \in Recordings, Skip(r) PROVE IInv'
  <1> USE DEF IInv, Skip, Gate!ReleaseHolder
  <1>1. TypeOK'
    <2>1. open[r] \in Jobs
      BY DEF TypeOK, Gate!GateTypeOK, AnswersAreAboutTheRecording
    <2>2. Gate!GateTypeOK'
      BY <2>1 DEF TypeOK, Gate!GateTypeOK
    <2>3. QED
      BY <2>1, <2>2 DEF TypeOK, RunnerTypeOK
  <1>2. JobsInOrder'
    BY DEF TypeOK, RunnerTypeOK, Gate!GateTypeOK, JobsInOrder, WorkingUnderLock, AnswersAreAboutTheRecording
  <1>3. WorkingUnderLock'
    BY DEF TypeOK, RunnerTypeOK, Gate!GateTypeOK, JobsInOrder, WorkingUnderLock
  <1>4. GuessBeforeAnswers'
    BY DEF TypeOK, RunnerTypeOK, Gate!GateTypeOK, JobsInOrder, WorkingUnderLock, GuessBeforeAnswers,
           AnswersAreAboutTheRecording
  <1>5. AnswersAreAboutTheRecording'
    BY DEF TypeOK, RunnerTypeOK, Gate!GateTypeOK, GuessBeforeAnswers, AnswersAreAboutTheRecording
  <1>6. SavedAnswersStay'
    BY DEF TypeOK, RunnerTypeOK, Gate!GateTypeOK, GuessBeforeAnswers, AnswersAreAboutTheRecording,
           SavedAnswersStay
  <1>7. FiledByTheHolder'
    BY DEF TypeOK, RunnerTypeOK, Gate!GateTypeOK, JobsInOrder, WorkingUnderLock, FiledByTheHolder
  <1>8. HeldForARecording'
    BY DEF TypeOK, RunnerTypeOK, Gate!GateTypeOK, JobsInOrder, WorkingUnderLock, HeldForARecording
  <1>9. WokenAtTheGate'
    BY DEF TypeOK, RunnerTypeOK, Gate!GateTypeOK, JobsInOrder, WorkingUnderLock, FiledByTheHolder, WokenAtTheGate
  <1>10. FoldedInIsRead'
    BY DEF TypeOK, RunnerTypeOK, Gate!GateTypeOK, JobsInOrder, WorkingUnderLock, FiledByTheHolder, WokenAtTheGate,
           FoldedInIsRead, SavedAnswersStay, GuessBeforeAnswers, AnswersAreAboutTheRecording
  <1>11. QED BY <1>1, <1>2, <1>3, <1>4, <1>5, <1>6, <1>7, <1>8, <1>9, <1>10

LEMMA SkipNothingKeepsIInv == ASSUME IInv, NEW r \in Recordings, SkipNothing(r) PROVE IInv'
  <1> USE DEF IInv, SkipNothing, Gate!ReleaseNobody, Gate!gateVars
  <1>1. TypeOK'
    BY DEF TypeOK, RunnerTypeOK, Gate!GateTypeOK
  <1>2. JobsInOrder'
    BY DEF TypeOK, RunnerTypeOK, Gate!GateTypeOK, JobsInOrder, WorkingUnderLock, AnswersAreAboutTheRecording
  <1>3. WorkingUnderLock'
    BY DEF TypeOK, RunnerTypeOK, Gate!GateTypeOK, JobsInOrder, WorkingUnderLock
  <1>4. GuessBeforeAnswers'
    BY DEF TypeOK, RunnerTypeOK, Gate!GateTypeOK, JobsInOrder, WorkingUnderLock, GuessBeforeAnswers,
           AnswersAreAboutTheRecording
  <1>5. AnswersAreAboutTheRecording'
    BY DEF TypeOK, RunnerTypeOK, Gate!GateTypeOK, GuessBeforeAnswers, AnswersAreAboutTheRecording
  <1>6. SavedAnswersStay'
    BY DEF TypeOK, RunnerTypeOK, Gate!GateTypeOK, GuessBeforeAnswers, AnswersAreAboutTheRecording,
           SavedAnswersStay
  <1>7. FiledByTheHolder'
    BY DEF TypeOK, RunnerTypeOK, Gate!GateTypeOK, JobsInOrder, WorkingUnderLock, FiledByTheHolder
  <1>8. HeldForARecording'
    BY DEF TypeOK, RunnerTypeOK, Gate!GateTypeOK, JobsInOrder, WorkingUnderLock, HeldForARecording
  <1>9. WokenAtTheGate'
    BY DEF TypeOK, RunnerTypeOK, Gate!GateTypeOK, JobsInOrder, WorkingUnderLock, FiledByTheHolder, WokenAtTheGate
  <1>10. FoldedInIsRead'
    BY DEF TypeOK, RunnerTypeOK, Gate!GateTypeOK, JobsInOrder, WorkingUnderLock, FiledByTheHolder, WokenAtTheGate,
           FoldedInIsRead, SavedAnswersStay, GuessBeforeAnswers, AnswersAreAboutTheRecording
  <1>11. QED BY <1>1, <1>2, <1>3, <1>4, <1>5, <1>6, <1>7, <1>8, <1>9, <1>10

LEMMA RestartKeepsIInv == ASSUME IInv, Restart PROVE IInv'
  <1> USE DEF IInv, Restart, ForgetJobs, Gate!ForgetHolds, InProgress
  <1>1. TypeOK'
    BY DEF TypeOK, RunnerTypeOK, Gate!GateTypeOK, JobsInOrder, WorkingUnderLock, AnswersAreAboutTheRecording, HeldForARecording
  <1>2. JobsInOrder'
    BY DEF TypeOK, RunnerTypeOK, Gate!GateTypeOK, JobsInOrder, WorkingUnderLock, AnswersAreAboutTheRecording
  <1>3. WorkingUnderLock'
    BY DEF TypeOK, RunnerTypeOK, Gate!GateTypeOK, JobsInOrder, WorkingUnderLock
  <1>4. GuessBeforeAnswers'
    BY DEF TypeOK, RunnerTypeOK, Gate!GateTypeOK, JobsInOrder, WorkingUnderLock, GuessBeforeAnswers,
           AnswersAreAboutTheRecording
  <1>5. AnswersAreAboutTheRecording'
    BY DEF TypeOK, RunnerTypeOK, Gate!GateTypeOK, GuessBeforeAnswers, AnswersAreAboutTheRecording
  <1>6. SavedAnswersStay'
    BY DEF TypeOK, RunnerTypeOK, Gate!GateTypeOK, GuessBeforeAnswers, AnswersAreAboutTheRecording,
           SavedAnswersStay
  <1>7. FiledByTheHolder'
    BY DEF TypeOK, RunnerTypeOK, Gate!GateTypeOK, JobsInOrder, WorkingUnderLock, FiledByTheHolder
  <1>8. HeldForARecording'
    BY DEF TypeOK, RunnerTypeOK, Gate!GateTypeOK, JobsInOrder, WorkingUnderLock, HeldForARecording
  <1>9. WokenAtTheGate'
    BY DEF TypeOK, RunnerTypeOK, Gate!GateTypeOK, JobsInOrder, WorkingUnderLock, FiledByTheHolder, WokenAtTheGate
  <1>10. FoldedInIsRead'
    BY DEF TypeOK, RunnerTypeOK, Gate!GateTypeOK, JobsInOrder, WorkingUnderLock, FiledByTheHolder, WokenAtTheGate,
           FoldedInIsRead, SavedAnswersStay, GuessBeforeAnswers, AnswersAreAboutTheRecording
  <1>11. QED BY <1>1, <1>2, <1>3, <1>4, <1>5, <1>6, <1>7, <1>8, <1>9, <1>10

-----------------------------------------------------------------------------
LEMMA NextKeepsIInv == IInv /\ [Next]_vars => IInv'
  <1> SUFFICES ASSUME IInv, [Next]_vars PROVE IInv'
    OBVIOUS
  <1>1. CASE UNCHANGED vars
    BY <1>1 DEF vars, IInv, TypeOK, RunnerTypeOK, Gate!GateTypeOK, JobsInOrder,
       WorkingUnderLock, GuessBeforeAnswers, AnswersAreAboutTheRecording, SavedAnswersStay,
       FiledByTheHolder, HeldForARecording, WokenAtTheGate, FoldedInIsRead
  <1>2. ASSUME NEW j \in Jobs, NEW r \in Recordings, SendRecording(j, r) PROVE IInv'
    BY <1>2, SendRecordingKeepsIInv
  <1>3. ASSUME NEW j \in Jobs, JobStep(j) PROVE IInv'
    BY <1>3, StartJobKeepsIInv, TakeGivenKeepsIInv, TakeStoredKeepsIInv, FindNothingKeepsIInv,
       ProposeKeepsIInv, ProposeFailsKeepsIInv, OpenGuessFileKeepsIInv,
       LeaveGuessUnsavedKeepsIInv, WriteGuessKeepsIInv, NothingToConfirmKeepsIInv,
       HoldKeepsIInv, WakeKeepsIInv, LeaveGateKeepsIInv, RereadKeepsIInv, AuthorKeepsIInv,
       FailEarlyKeepsIInv, FailLateKeepsIInv
       DEF JobStep
  <1>4. ASSUME NEW p \in Posts, NEW r \in Recordings, LoadToAnswer(p, r) \/ RefuseAnswer(p, r)
        PROVE  IInv'
    BY <1>4, LoadToAnswerKeepsIInv, RefuseAnswerKeepsIInv
  <1>5. ASSUME NEW p \in Posts, PostStep(p) PROVE IInv'
    BY <1>5, OpenAnswerFileKeepsIInv, WriteAnswersKeepsIInv, FoldInKeepsIInv,
       FindNobodyHoldingKeepsIInv, RunAgainKeepsIInv DEF PostStep
  <1>6. ASSUME NEW r \in Recordings, Skip(r) \/ SkipNothing(r) PROVE IInv'
    BY <1>6, SkipKeepsIInv, SkipNothingKeepsIInv
  <1>7. CASE Restart
    BY <1>7, RestartKeepsIInv
  <1>8. QED
    BY <1>1, <1>2, <1>3, <1>4, <1>5, <1>6, <1>7 DEF Next

(* IInv, and with it the type invariant, holds in every behaviour of the   *)
(* server.                                                                 *)
THEOREM InductiveInvariant == Spec => []IInv
  BY InitIInv, NextKeepsIInv, PTL DEF Spec

(* Every variable keeps its type.                                          *)
THEOREM TypeCorrect == Spec => []TypeOK
  <1>1. IInv => TypeOK
    BY DEF IInv
  <1>2. QED
    BY <1>1, InductiveInvariant, PTL

(* Two jobs of one recording never run at once: one writer per run         *)
(* directory (jobs.py, JobRunner._run).                                    *)
THEOREM OneWriter == Spec => []OneWriterPerRecording
  <1>1. IInv => OneWriterPerRecording
    BY DEF IInv, WorkingUnderLock, OneWriterPerRecording
  <1>2. QED
    BY <1>1, InductiveInvariant, PTL

(* A guess is never saved over answers, whatever was sent, answered,       *)
(* skipped or restarted meanwhile (run.py, _expectations).                 *)
THEOREM AnswersAreAuthoritative == Spec => []GuessNeverOverwritesAnswers
  <1>1. IInv => GuessNeverOverwritesAnswers
    <2> SUFFICES ASSUME IInv, NEW j \in Jobs, NEW p \in Posts, stage[j] \in {"save", "writing"},
                        p \in answers[rec[j]]
                 PROVE  FALSE
      BY DEF GuessNeverOverwritesAnswers
    <2>1. rec[j] \in Recordings
      BY DEF IInv, TypeOK, JobsInOrder, WorkingUnderLock
    <2>2. Touched(p) /\ about[p] = rec[j]
      BY <2>1 DEF IInv, AnswersAreAboutTheRecording
    <2>3. QED
      BY <2>2 DEF IInv, GuessBeforeAnswers
  <1>2. QED
    BY <1>1, InductiveInvariant, PTL

(* A submission reported as folded in is authored by the job it woke,      *)
(* unless another submission erased it or was writing the file just then   *)
(* (confirm.py, "why a lost update is not possible here").                 *)
THEOREM FoldedInAnswersAreRead == Spec => []FoldedInIsRead
  <1>1. IInv => FoldedInIsRead
    BY DEF IInv
  <1>2. QED
    BY <1>1, InductiveInvariant, PTL

(* A whole expectations file is only ever opened for writing by a          *)
(* submission (run.py, _expectations).                                     *)
THEOREM FilesBelongToSubmissions == Spec => OnlySubmissionsChangeAnswers
  <1> DEFINE Own == \A r \in Recordings :
                       disk[r] = "whole" /\ disk'[r] # "whole" => \E p \in Posts : OpenAnswerFile(p)
  <1>1. IInv /\ [Next]_vars => [Own]_vars
    <2> SUFFICES ASSUME IInv, Next PROVE Own
      OBVIOUS
    <2>1. (UNCHANGED disk) => Own
      OBVIOUS
    <2>2. ASSUME NEW j \in Jobs, JobStep(j) PROVE Own
      <3>1. CASE OpenGuessFile(j)
        <4>1. disk[rec[j]] = "absent"
          BY <3>1 DEF OpenGuessFile, IInv, GuessBeforeAnswers
        <4>2. QED
          BY <3>1, <4>1 DEF OpenGuessFile, IInv, TypeOK
      <3>2. CASE WriteGuess(j)
        BY <3>2 DEF WriteGuess, IInv, TypeOK
      <3>3. CASE UNCHANGED disk
        BY <3>3, <2>1
      <3>4. QED
        BY <2>2, <3>1, <3>2, <3>3
           DEF JobStep, StartJob, TakeGiven, TakeStored, FindNothing, Propose, ProposeFails,
               LeaveGuessUnsaved, NothingToConfirm, Hold, Wake, LeaveGate, Reread, Author,
               FailEarly, FailLate, JobOnly
    <2>3. ASSUME NEW p \in Posts, PostStep(p) PROVE Own
      <3>1. CASE OpenAnswerFile(p)
        BY <3>1
      <3>2. CASE WriteAnswers(p)
        BY <3>2 DEF WriteAnswers, IInv, TypeOK
      <3>3. CASE UNCHANGED disk
        BY <3>3, <2>1
      <3>4. QED
        BY <2>3, <3>1, <3>2, <3>3 DEF PostStep, FoldIn, FindNobodyHolding, RunAgain
    <2>4. CASE UNCHANGED disk
      BY <2>4, <2>1
    <2>5. QED
      BY <2>2, <2>3, <2>4 DEF Next, SendRecording, LoadToAnswer, RefuseAnswer, Skip, SkipNothing,
         Restart
  <1>2. QED
    BY <1>1, InductiveInvariant, PTL DEF Spec, OnlySubmissionsChangeAnswers

-----------------------------------------------------------------------------
(* The pages of the book, and the one fact about them that IInv lacks: the *)
(* file a submission has loaded is whole, or another submission is writing *)
(* it.                                                                     *)
Pages == [r \in Recordings |-> Page(r)]
LoadedIsKept ==
    \A p \in Posts : post[p] = "loaded" => disk[about[p]] = "whole" \/ BeingAnswered(about[p])

\* The files are as they were, and so is who has them open.
SameFiles ==
    /\ UNCHANGED <<disk, answers>>
    /\ \A r \in Recordings : (BeingGuessed(r)' <=> BeingGuessed(r))
                             /\ (BeingAnswered(r)' <=> BeingAnswered(r))

LEMMA SamePages == ASSUME SameFiles PROVE Pages' = Pages
  <1>1. ASSUME NEW r \in Recordings PROVE Page(r)' = Page(r)
    BY <1>1 DEF SameFiles, Page
  <1>2. QED
    BY <1>1 DEF Pages

\* A job that neither opens nor closes the file of its guess.
LEMMA JobKeepsPages ==
    ASSUME IInv, NEW j \in Jobs, JobStep(j), ~OpenGuessFile(j), ~WriteGuess(j)
    PROVE  SameFiles /\ UNCHANGED <<post, about>>
  <1>1. UNCHANGED <<rec, disk, answers, post, about>>
    BY DEF JobStep, StartJob, Take, TakeGiven, TakeStored, FindNothing, Propose, ProposeFails,
           LeaveGuessUnsaved, NothingToConfirm, Hold, Wake, LeaveGate, Reread, Author,
           FailEarly, FailLate, Settle, JobOnly
  <1>2. \A i \in Jobs : stage'[i] = "writing" <=> stage[i] = "writing"
    BY DEF JobStep, StartJob, Take, TakeGiven, TakeStored, FindNothing, Propose, ProposeFails,
           LeaveGuessUnsaved, NothingToConfirm, Hold, Wake, LeaveGate, Reread, Author,
           FailEarly, FailLate, Settle, JobOnly, IInv, TypeOK
  <1>3. QED
    BY <1>1, <1>2 DEF SameFiles, BeingGuessed, BeingAnswered

\* The guess of a recording is put on a blank page.
LEMMA GuessOpens ==
    ASSUME IInv, NEW j \in Jobs, OpenGuessFile(j)
    PROVE  Pages' = Pages /\ UNCHANGED <<post, about>>
  <1>1. rec[j] \in Recordings /\ disk[rec[j]] = "absent" /\ UNCHANGED <<rec, answers, post, about>>
    BY DEF OpenGuessFile, IInv, TypeOK, JobsInOrder, WorkingUnderLock, GuessBeforeAnswers
  <1>2. ASSUME NEW r \in Recordings PROVE Page(r)' = Page(r)
    <2>1. BeingAnswered(r)' <=> BeingAnswered(r)
      BY <1>1 DEF BeingAnswered
    <2>2. CASE r = rec[j]
      <3>1. ~BeingAnswered(r)
        BY <2>2 DEF BeingAnswered, OpenGuessFile, IInv, GuessBeforeAnswers
      <3>2. BeingGuessed(r)' /\ disk'[r] = "torn"
        BY <2>2, <1>1 DEF BeingGuessed, OpenGuessFile, IInv, TypeOK
      <3>3. QED
        BY <2>1, <2>2, <3>1, <3>2, <1>1 DEF Page
    <2>3. CASE r # rec[j]
      <3>1. BeingGuessed(r)' <=> BeingGuessed(r)
        BY <2>3, <1>1 DEF BeingGuessed, OpenGuessFile, IInv, TypeOK
      <3>2. disk'[r] = disk[r]
        BY <2>3 DEF OpenGuessFile, IInv, TypeOK
      <3>3. QED
        BY <2>1, <3>1, <3>2, <1>1 DEF Page
    <2>4. QED
      BY <2>2, <2>3
  <1>3. QED
    BY <1>1, <1>2 DEF Pages

LEMMA GuessIsMade ==
    ASSUME IInv, NEW j \in Jobs, WriteGuess(j)
    PROVE  Book!GuessOnce(rec[j]) /\ rec[j] \in Recordings /\ UNCHANGED <<post, about>>
  <1>1. /\ rec[j] \in Recordings /\ disk[rec[j]] = "torn" /\ exp[j].with = {}
        /\ UNCHANGED <<rec, post, about>>
    BY DEF WriteGuess, IInv, TypeOK, JobsInOrder, WorkingUnderLock, GuessBeforeAnswers
  <1>2. BeingGuessed(rec[j]) /\ ~BeingAnswered(rec[j])
    BY <1>1 DEF BeingGuessed, BeingAnswered, WriteGuess, IInv, GuessBeforeAnswers
  <1>3. Page(rec[j]) = Book!Blank
    BY <1>1, <1>2 DEF Page, Book!Blank
  <1>4. Page(rec[j])' = Book!Kept({})
    BY <1>1 DEF Page, Book!Kept, WriteGuess, IInv, TypeOK
  <1>5. ASSUME NEW r \in Recordings, r # rec[j] PROVE Page(r)' = Page(r)
    <2>1. BeingAnswered(r)' <=> BeingAnswered(r)
      BY <1>1 DEF BeingAnswered
    <2>2. BeingGuessed(r)' <=> BeingGuessed(r)
      BY <1>1, <1>5 DEF BeingGuessed, WriteGuess, IInv, TypeOK
    <2>3. disk'[r] = disk[r] /\ answers'[r] = answers[r]
      BY <1>5 DEF WriteGuess, IInv, TypeOK
    <2>4. QED
      BY <2>1, <2>2, <2>3 DEF Page
  <1>6. QED
    BY <1>1, <1>3, <1>4, <1>5 DEF Book!GuessOnce

\* A submission opens a file that has something on record.
LEMMA AnswerOpens ==
    ASSUME IInv, LoadedIsKept, NEW p \in Posts, OpenAnswerFile(p)
    PROVE  Pages' = Pages /\ about' = about /\ LoadedIsKept'
  <1>1. about[p] \in Recordings /\ UNCHANGED <<stage, rec, answers, about>>
    BY DEF OpenAnswerFile, IInv, AnswersAreAboutTheRecording
  <1>2. ASSUME NEW r \in Recordings PROVE Page(r)' = Page(r)
    <2>1. BeingGuessed(r)' <=> BeingGuessed(r)
      BY <1>1 DEF BeingGuessed
    <2>2. CASE r = about[p]
      <3>1. disk[r] = "whole" \/ (disk[r] = "torn" /\ BeingAnswered(r))
        BY <2>2 DEF LoadedIsKept, OpenAnswerFile, IInv, TypeOK, AnswersAreAboutTheRecording
      <3>2. BeingAnswered(r)' /\ disk'[r] = "torn"
        BY <1>1, <2>2 DEF BeingAnswered, OpenAnswerFile, IInv, TypeOK
      <3>3. QED
        BY <1>1, <3>1, <3>2 DEF Page
    <2>3. CASE r # about[p]
      <3>1. BeingAnswered(r)' <=> BeingAnswered(r)
        BY <1>1, <2>3 DEF BeingAnswered, OpenAnswerFile, IInv, TypeOK
      <3>2. disk'[r] = disk[r]
        BY <2>3 DEF OpenAnswerFile, IInv, TypeOK
      <3>3. QED
        BY <1>1, <2>1, <3>1, <3>2 DEF Page
    <2>4. QED
      BY <2>2, <2>3
  <1>3. LoadedIsKept'
    <2> SUFFICES ASSUME NEW q \in Posts, post'[q] = "loaded"
                 PROVE  disk'[about[q]] = "whole" \/ BeingAnswered(about[q])'
      BY <1>1 DEF LoadedIsKept
    <2>1. q # p /\ post[q] = "loaded" /\ post'[p] = "writing"
      BY DEF OpenAnswerFile, IInv, TypeOK
    <2>2. CASE about[q] = about[p]
      BY <1>1, <2>1, <2>2 DEF BeingAnswered
    <2>3. CASE about[q] # about[p]
      <3>1. disk'[about[q]] = disk[about[q]]
        BY <2>1, <2>3 DEF OpenAnswerFile, IInv, TypeOK, AnswersAreAboutTheRecording
      <3>2. BeingAnswered(about[q]) => BeingAnswered(about[q])'
        BY <1>1 DEF BeingAnswered, OpenAnswerFile, IInv, TypeOK
      <3>3. QED
        BY <2>1, <3>1, <3>2 DEF LoadedIsKept
    <2>4. QED
      BY <2>2, <2>3
  <1>4. QED
    BY <1>1, <1>2, <1>3 DEF Pages

LEMMA AnswerIsPutDown ==
    ASSUME IInv, LoadedIsKept, NEW p \in Posts, WriteAnswers(p)
    PROVE  Book!Submit(p, about[p]) /\ about[p] \in Recordings /\ LoadedIsKept'
  <1> DEFINE r0 == about[p]
  <1>1. /\ r0 \in Recordings /\ disk[r0] # "absent" /\ p \in base[p]
        /\ base[p] \subseteq {q \in Posts : about[q] = r0}
        /\ UNCHANGED <<stage, rec, about>>
    BY DEF WriteAnswers, IInv, TypeOK, AnswersAreAboutTheRecording
  <1>2. Page(r0) = Book!Kept(answers[r0])
    BY <1>1 DEF Page, Book!Kept, BeingAnswered, WriteAnswers, IInv, TypeOK
  <1>3. Page(r0)' = Book!Kept({p} \cup base[p])
    <2>1. disk'[r0] = "whole" /\ answers'[r0] = base[p]
      BY <1>1 DEF WriteAnswers, IInv, TypeOK
    <2>2. {p} \cup base[p] = base[p]
      BY <1>1
    <2>3. QED
      BY <1>1, <2>1, <2>2 DEF Page, Book!Kept
  <1>4. ASSUME NEW r \in Recordings, r # r0 PROVE Page(r)' = Page(r)
    <2>1. BeingGuessed(r)' <=> BeingGuessed(r)
      BY <1>1 DEF BeingGuessed
    <2>2. BeingAnswered(r)' <=> BeingAnswered(r)
      BY <1>1, <1>4 DEF BeingAnswered, WriteAnswers, IInv, TypeOK
    <2>3. disk'[r] = disk[r] /\ answers'[r] = answers[r]
      BY <1>4 DEF WriteAnswers, IInv, TypeOK
    <2>4. QED
      BY <2>1, <2>2, <2>3 DEF Page
  <1>5. LoadedIsKept'
    <2> SUFFICES ASSUME NEW q \in Posts, post'[q] = "loaded"
                 PROVE  disk'[about[q]] = "whole" \/ BeingAnswered(about[q])'
      BY <1>1 DEF LoadedIsKept
    <2>1. q # p /\ post[q] = "loaded"
      BY DEF WriteAnswers, IInv, TypeOK
    <2>2. CASE about[q] = r0
      BY <1>1, <2>2 DEF WriteAnswers, IInv, TypeOK
    <2>3. CASE about[q] # r0
      <3>1. disk'[about[q]] = disk[about[q]]
        BY <2>1, <2>3 DEF WriteAnswers, IInv, TypeOK, AnswersAreAboutTheRecording
      <3>2. BeingAnswered(about[q]) => BeingAnswered(about[q])'
        BY <1>1, <2>3 DEF BeingAnswered, WriteAnswers, IInv, TypeOK
      <3>3. QED
        BY <2>1, <3>1, <3>2 DEF LoadedIsKept
    <2>4. QED
      BY <2>2, <2>3
  <1>6. Pages' = [Pages EXCEPT ![r0] = Book!Kept({p} \cup base[p])]
    BY <1>1, <1>3, <1>4 DEF Pages
  <1>7. Pages[r0].is = "kept"
    BY <1>1, <1>2 DEF Pages, Book!Kept
  <1>8. Book!Submit(p, r0)
    BY <1>1, <1>6, <1>7 DEF Book!Submit, Pages
  <1>9. QED
    BY <1>1, <1>5, <1>8

\* A submission that has not come in is about nothing yet.
NotYetAbout == \A p \in Posts : post[p] = "idle" => about[p] = NoRecording
BookInv == IInv /\ LoadedIsKept /\ NotYetAbout

LEMMA LoadedIsStillKept ==
    ASSUME LoadedIsKept, SameFiles, UNCHANGED about, AnswersAreAboutTheRecording,
           \A p \in Posts : post'[p] = "loaded" => post[p] = "loaded"
    PROVE  LoadedIsKept'
  BY DEF LoadedIsKept, SameFiles, AnswersAreAboutTheRecording

\* A submission comes in.
LEMMA AnswerArrives ==
    ASSUME BookInv, NEW p \in Posts, NEW r \in Recordings, LoadToAnswer(p, r) \/ RefuseAnswer(p, r)
    PROVE  Pages' = Pages /\ Book!Arrive(p, r) /\ LoadedIsKept' /\ NotYetAbout'
  <1>1. /\ post[p] = "idle" /\ about[p] = NoRecording /\ about' = [about EXCEPT ![p] = r]
        /\ post' = [post EXCEPT ![p] = IF disk[r] = "whole" THEN "loaded" ELSE "refused"]
        /\ UNCHANGED <<disk, answers, rec, stage>>
    BY DEF BookInv, NotYetAbout, LoadToAnswer, RefuseAnswer
  <1>2. \A q \in Posts : (post'[q] = "writing" <=> post[q] = "writing")
                         /\ (q # p => about'[q] = about[q] /\ post'[q] = post[q])
    BY <1>1 DEF BookInv, IInv, TypeOK
  <1>3. \A s \in Recordings : (BeingAnswered(s)' <=> BeingAnswered(s))
                              /\ (BeingGuessed(s)' <=> BeingGuessed(s))
    BY <1>1, <1>2 DEF BeingAnswered, BeingGuessed
  <1>4. Pages' = Pages
    BY <1>1, <1>3, SamePages DEF SameFiles
  <1>5. Book!Arrive(p, r)
    BY <1>1, <1>4 DEF Book!Arrive, Pages
  <1>6. ASSUME NEW q \in Posts, post'[q] = "loaded"
        PROVE  (disk[about[q]] = "whole" \/ BeingAnswered(about[q]))'
    <2>1. CASE q = p
      BY <1>1, <1>6, <2>1 DEF BookInv, IInv, TypeOK
    <2>2. CASE q # p
      <3>1. post[q] = "loaded" /\ about'[q] = about[q] /\ about[q] \in Recordings
        BY <1>2, <1>6, <2>2 DEF BookInv, IInv, AnswersAreAboutTheRecording
      <3>2. disk[about[q]] = "whole" \/ BeingAnswered(about[q])
        BY <3>1 DEF BookInv, LoadedIsKept
      <3>3. BeingAnswered(about[q]) => BeingAnswered(about[q])'
        <4>1. ASSUME NEW w \in Posts, post[w] = "writing", about[w] = about[q]
              PROVE  post'[w] = "writing" /\ about'[w] = about'[q]
          BY <1>1, <1>2, <3>1, <4>1
        <4>2. QED
          BY <4>1 DEF BeingAnswered
      <3>4. QED
        BY <1>1, <3>1, <3>2, <3>3
    <2>3. QED
      BY <2>1, <2>2
  <1>7. NotYetAbout'
    BY <1>1, <1>2 DEF BookInv, NotYetAbout, IInv, TypeOK
  <1>8. QED
    BY <1>4, <1>5, <1>6, <1>7 DEF LoadedIsKept

\* The server dies, and what it was writing is spoiled.
LEMMA RestartSpoils ==
    ASSUME BookInv, Restart
    PROVE  Book!Crash /\ LoadedIsKept' /\ NotYetAbout'
  <1> DEFINE torn == {r \in Recordings : disk[r] = "torn"}
  <1>1. /\ UNCHANGED <<disk, answers, about>>
        /\ \A j \in Jobs : stage'[j] = "idle"
        /\ \A p \in Posts : post'[p] \notin {"loaded", "writing"}
                            /\ (post'[p] = "idle" => post[p] = "idle")
    BY DEF Restart, InProgress, BookInv, IInv, TypeOK
  <1>2. ASSUME NEW r \in Recordings
        PROVE  Page(r)' = IF r \in torn THEN Book!Spoiled ELSE Page(r)
    <2>1. ~BeingGuessed(r)' /\ ~BeingAnswered(r)'
      BY <1>1 DEF BeingGuessed, BeingAnswered
    <2>2. QED
      BY <1>1, <2>1 DEF Page, Book!Spoiled, BookInv, IInv, TypeOK
  <1>3. Book!Crash
    BY <1>1, <1>2 DEF Book!Crash
  <1>4. QED
    BY <1>1, <1>3 DEF LoadedIsKept, NotYetAbout, BookInv

LEMMA JobKeepsTheBook ==
    ASSUME BookInv, NEW j \in Jobs, JobStep(j)
    PROVE  [Book!BookNext]_(Book!bookVars) /\ LoadedIsKept' /\ NotYetAbout'
  <1>1. CASE OpenGuessFile(j)
    <2>1. Pages' = Pages /\ UNCHANGED <<post, about>>
      BY <1>1, GuessOpens DEF BookInv
    <2>2. LoadedIsKept'
      <3> SUFFICES ASSUME NEW q \in Posts, post[q] = "loaded"
                   PROVE  disk'[about[q]] = "whole" \/ BeingAnswered(about[q])'
        BY <2>1 DEF LoadedIsKept
      <3>1. about[q] # rec[j] /\ about[q] \in Recordings
        BY <1>1 DEF OpenGuessFile, BookInv, IInv, GuessBeforeAnswers, AnswersAreAboutTheRecording
      <3>2. disk'[about[q]] = disk[about[q]]
        BY <1>1, <3>1 DEF OpenGuessFile, BookInv, IInv, TypeOK
      <3>3. BeingAnswered(about[q])' <=> BeingAnswered(about[q])
        BY <2>1 DEF BeingAnswered
      <3>4. QED
        BY <3>2, <3>3 DEF BookInv, LoadedIsKept
    <2>3. QED
      BY <2>1, <2>2 DEF Book!bookVars, Pages, NotYetAbout, BookInv
  <1>2. CASE WriteGuess(j)
    <2>1. Book!GuessOnce(rec[j]) /\ rec[j] \in Recordings /\ UNCHANGED <<post, about>>
      BY <1>2, GuessIsMade DEF BookInv
    <2>2. LoadedIsKept'
      <3> SUFFICES ASSUME NEW q \in Posts, post[q] = "loaded"
                   PROVE  disk'[about[q]] = "whole" \/ BeingAnswered(about[q])'
        BY <2>1 DEF LoadedIsKept
      <3>1. disk[about[q]] = "whole" => disk'[about[q]] = "whole"
        BY <1>2 DEF WriteGuess, BookInv, IInv, TypeOK, AnswersAreAboutTheRecording
      <3>2. BeingAnswered(about[q])' <=> BeingAnswered(about[q])
        BY <2>1 DEF BeingAnswered
      <3>3. QED
        BY <3>1, <3>2 DEF BookInv, LoadedIsKept
    <2>3. QED
      BY <2>1, <2>2 DEF Book!BookNext, NotYetAbout, BookInv
  <1>3. CASE ~OpenGuessFile(j) /\ ~WriteGuess(j)
    <2>1. SameFiles /\ UNCHANGED <<post, about>>
      BY <1>3, JobKeepsPages DEF BookInv
    <2>2. Pages' = Pages
      BY <2>1, SamePages
    <2>3. LoadedIsKept'
      BY <2>1, LoadedIsStillKept DEF BookInv, IInv
    <2>4. QED
      BY <2>1, <2>2, <2>3 DEF Book!bookVars, Pages, NotYetAbout, BookInv
  <1>4. QED
    BY <1>1, <1>2, <1>3

\* A job is created, or nothing happens to pipeline and files at all.
LEMMA OthersKeepTheBook ==
    ASSUME BookInv, UNCHANGED <<stage, disk, answers, about>>,
           \/ UNCHANGED rec
           \/ \E j \in Jobs, r \in Recordings : Enqueue(j, r),
           \A p \in Posts : /\ post'[p] = "writing" <=> post[p] = "writing"
                            /\ post'[p] = "loaded" => post[p] = "loaded"
                            /\ post'[p] = "idle" => post[p] = "idle"
    PROVE  [Book!BookNext]_(Book!bookVars) /\ LoadedIsKept' /\ NotYetAbout'
  <1>1. ASSUME NEW j \in Jobs, stage[j] = "writing" PROVE rec'[j] = rec[j]
    <2>1. state[j] = "running" /\ j <= created
      BY <1>1 DEF BookInv, IInv, TypeOK, RunnerTypeOK, WorkingUnderLock, JobsInOrder
    <2>2. QED
      BY <2>1 DEF Enqueue, BookInv, IInv, TypeOK, RunnerTypeOK
  <1>2. ASSUME NEW r \in Recordings PROVE BeingGuessed(r)' <=> BeingGuessed(r)
    BY <1>1 DEF BeingGuessed
  <1>3. ASSUME NEW r \in Recordings PROVE BeingAnswered(r)' <=> BeingAnswered(r)
    BY DEF BeingAnswered
  <1>4. SameFiles
    BY <1>2, <1>3 DEF SameFiles
  <1>5. Pages' = Pages
    BY <1>4, SamePages
  <1>6. LoadedIsKept'
    BY <1>4, LoadedIsStillKept DEF BookInv, IInv
  <1>7. QED
    BY <1>5, <1>6 DEF Book!bookVars, Pages, NotYetAbout, BookInv

LEMMA PostKeepsTheBook ==
    ASSUME BookInv, NEW p \in Posts, PostStep(p)
    PROVE  [Book!BookNext]_(Book!bookVars) /\ LoadedIsKept' /\ NotYetAbout'
  <1>1. CASE OpenAnswerFile(p)
    <2>1. Pages' = Pages /\ about' = about /\ LoadedIsKept'
      BY <1>1, AnswerOpens DEF BookInv
    <2>2. NotYetAbout'
      BY <1>1, <2>1 DEF OpenAnswerFile, NotYetAbout, BookInv, IInv, TypeOK
    <2>3. QED
      BY <2>1, <2>2 DEF Book!bookVars, Pages
  <1>2. CASE WriteAnswers(p)
    <2>1. Book!Submit(p, about[p]) /\ about[p] \in Recordings /\ LoadedIsKept'
      BY <1>2, AnswerIsPutDown DEF BookInv
    <2>2. NotYetAbout'
      BY <1>2 DEF WriteAnswers, NotYetAbout, BookInv, IInv, TypeOK
    <2>3. QED
      BY <2>1, <2>2 DEF Book!BookNext
  <1>3. CASE FoldIn(p) \/ FindNobodyHolding(p)
    <2>1. /\ UNCHANGED <<stage, disk, answers, about, rec>>
          /\ \E to \in {"folded", "late"} : post' = [post EXCEPT ![p] = to]
          /\ post[p] = "saved"
      BY <1>3 DEF FoldIn, FindNobodyHolding
    <2>2. \A q \in Posts : /\ post'[q] = "writing" <=> post[q] = "writing"
                           /\ post'[q] = "loaded" => post[q] = "loaded"
                           /\ post'[q] = "idle" => post[q] = "idle"
      BY <2>1 DEF BookInv, IInv, TypeOK
    <2>3. QED
      BY <2>1, <2>2, OthersKeepTheBook
  <1>4. ASSUME NEW j \in Jobs, RunAgain(p, j)
        PROVE  [Book!BookNext]_(Book!bookVars) /\ LoadedIsKept' /\ NotYetAbout'
    <2>1. /\ UNCHANGED <<stage, disk, answers, about>> /\ Enqueue(j, about[p])
          /\ post' = [post EXCEPT ![p] = "rerun"] /\ post[p] = "late"
      BY <1>4 DEF RunAgain
    <2>2. about[p] \in Recordings
      BY <2>1 DEF BookInv, IInv, AnswersAreAboutTheRecording
    <2>3. \A q \in Posts : /\ post'[q] = "writing" <=> post[q] = "writing"
                           /\ post'[q] = "loaded" => post[q] = "loaded"
                           /\ post'[q] = "idle" => post[q] = "idle"
      BY <2>1 DEF BookInv, IInv, TypeOK
    <2>4. QED
      BY <2>1, <2>2, <2>3, OthersKeepTheBook
  <1>5. QED
    BY <1>1, <1>2, <1>3, <1>4 DEF PostStep

(* Every behaviour of jobs, requests and restarts is one of the answer     *)
(* book: a recording is guessed about once, before any answer, then only   *)
(* submissions change its page, each leaving its own answers on it, and a  *)
(* page spoiled by a crash stays spoiled (run.py, _expectations;           *)
(* app.py, post_expectations).                                             *)
THEOREM ImplementsTheBook == Spec => KeepsTheBook
  <1>1. Init => Book!BookInit /\ LoadedIsKept /\ NotYetAbout
    BY DEF Init, Book!BookInit, Book!Blank, Page, LoadedIsKept, NotYetAbout
  <1>2. BookInv /\ [Next]_vars => [Book!BookNext]_(Book!bookVars) /\ LoadedIsKept' /\ NotYetAbout'
    <2> SUFFICES ASSUME BookInv, [Next]_vars
                 PROVE  [Book!BookNext]_(Book!bookVars) /\ LoadedIsKept' /\ NotYetAbout'
      OBVIOUS
    <2>1. ASSUME NEW j \in Jobs, NEW r \in Recordings, SendRecording(j, r)
          PROVE  [Book!BookNext]_(Book!bookVars) /\ LoadedIsKept' /\ NotYetAbout'
      <3>1. UNCHANGED <<stage, disk, answers, about, post>> /\ Enqueue(j, r)
        BY <2>1 DEF SendRecording
      <3>2. QED
        BY <3>1, OthersKeepTheBook
    <2>2. ASSUME NEW j \in Jobs, JobStep(j)
          PROVE  [Book!BookNext]_(Book!bookVars) /\ LoadedIsKept' /\ NotYetAbout'
      BY <2>2, JobKeepsTheBook
    <2>3. ASSUME NEW p \in Posts, NEW r \in Recordings, LoadToAnswer(p, r) \/ RefuseAnswer(p, r)
          PROVE  [Book!BookNext]_(Book!bookVars) /\ LoadedIsKept' /\ NotYetAbout'
      BY <2>3, AnswerArrives DEF Book!BookNext
    <2>4. ASSUME NEW p \in Posts, PostStep(p)
          PROVE  [Book!BookNext]_(Book!bookVars) /\ LoadedIsKept' /\ NotYetAbout'
      BY <2>4, PostKeepsTheBook
    <2>5. CASE UNCHANGED vars \/ \E r \in Recordings : Skip(r) \/ SkipNothing(r)
      <3>1. UNCHANGED <<stage, disk, answers, about, rec, post>>
        BY <2>5 DEF vars, Skip, SkipNothing
      <3>2. QED
        BY <3>1, OthersKeepTheBook
    <2>6. CASE Restart
      BY <2>6, RestartSpoils DEF Book!BookNext
    <2>7. QED
      BY <2>1, <2>2, <2>3, <2>4, <2>5, <2>6 DEF Next
  <1>3. QED
    BY <1>1, <1>2, InductiveInvariant, PTL DEF Spec, KeepsTheBook, Book!BookSpec, BookInv

-----------------------------------------------------------------------------
(* With options of its own, every job waits at the gate of its own         *)
(* recording, so what it authors against is about that recording.          *)
PrivateOracle ==
    /\ \A j \in Jobs : IF j > created THEN exp[j] = NoExpectations
                                      ELSE exp[j].of \in {rec[j], NoRecording}
    /\ NoOracleLeak

(* One job gets expectations that are about its own recording.             *)
LEMMA OwnExpectations ==
    ASSUME NEW j \in Jobs, NEW e, PrivateOracle, exp \in [Jobs -> ExpectationSets],
           exp' = [exp EXCEPT ![j] = e], e.of \in {rec'[j], NoRecording}, j <= created',
           \A i \in Jobs \ {j} : rec'[i] = rec[i] /\ (i > created <=> i > created'),
           created' \in Nat, UNCHANGED draft
    PROVE  PrivateOracle'
  <1>1. NoOracleLeak'
    BY DEF PrivateOracle, NoOracleLeak
  <1>2. ASSUME NEW i \in Jobs
        PROVE  IF i > created' THEN exp'[i] = NoExpectations
                              ELSE exp'[i].of \in {rec'[i], NoRecording}
    <2>1. CASE i = j
      <3>1. exp'[i] = e
        BY <2>1
      <3>2. ~(i > created')
        BY <2>1 DEF Jobs
      <3>3. QED
        BY <2>1, <3>1, <3>2
    <2>2. CASE i # j
      <3>1. exp'[i] = exp[i] /\ rec'[i] = rec[i] /\ (i > created <=> i > created')
        BY <2>2
      <3>2. IF i > created THEN exp[i] = NoExpectations ELSE exp[i].of \in {rec[i], NoRecording}
        BY DEF PrivateOracle
      <3>3. QED
        BY <3>1, <3>2
    <2>3. QED
      BY <2>1, <2>2
  <1>3. QED
    BY <1>1, <1>2 DEF PrivateOracle

(* A job at work is one of those created.                                  *)
LEMMA AtWork ==
    ASSUME NEW j \in Jobs, IInv, stage[j] \in Working
    PROVE  j <= created /\ rec[j] \in Recordings /\ created \in Nat
  <1>1. created \in Nat
    BY DEF IInv, TypeOK, RunnerTypeOK
  <1>2. state[j] = "running"
    BY DEF IInv, WorkingUnderLock
  <1>3. QED
    BY <1>1, <1>2 DEF IInv, JobsInOrder, Jobs

LEMMA PrivateOracleKept ==
    ASSUME ~SharedOptions, IInv, PrivateOracle, [Next]_vars PROVE PrivateOracle'
  <1>0. created \in Nat /\ exp \in [Jobs -> ExpectationSets]
        /\ rec \in [Jobs -> Recordings \cup {NoRecording}]
    BY DEF IInv, TypeOK, RunnerTypeOK
  <1>1. ASSUME NEW j \in Jobs, NEW r \in Recordings, SendRecording(j, r) PROVE PrivateOracle'
    <2>1. /\ j = created + 1 /\ created' = j /\ rec' = [rec EXCEPT ![j] = r]
          /\ UNCHANGED <<exp, draft>>
      BY <1>1 DEF SendRecording, Enqueue
    <2>2. NoOracleLeak'
      BY <2>1 DEF PrivateOracle, NoOracleLeak
    <2>3. ASSUME NEW i \in Jobs
          PROVE  IF i > created' THEN exp'[i] = NoExpectations
                                ELSE exp'[i].of \in {rec'[i], NoRecording}
      <3>1. IF i > created THEN exp[i] = NoExpectations ELSE exp[i].of \in {rec[i], NoRecording}
        BY DEF PrivateOracle
      <3>2. CASE i = j
        <4>1. exp'[i] = NoExpectations /\ ~(i > created')
          BY <1>0, <2>1, <3>1, <3>2 DEF Jobs
        <4>2. QED
          BY <4>1 DEF NoExpectations
      <3>3. CASE i # j
        <4>1. rec'[i] = rec[i] /\ exp'[i] = exp[i]
          BY <1>0, <2>1, <3>3
        <4>2. i > created' <=> i > created
          BY <1>0, <2>1, <3>3 DEF Jobs
        <4>3. QED
          BY <3>1, <4>1, <4>2
      <3>4. QED
        BY <3>2, <3>3
    <2>4. QED
      BY <2>2, <2>3 DEF PrivateOracle
  <1>2. ASSUME NEW j \in Jobs, JobStep(j) PROVE PrivateOracle'
    <2>1. CASE TakeStored(j)
      <3>1. exp' = [exp EXCEPT ![j] = Stored(rec[j])] /\ UNCHANGED <<rec, created, draft>>
        BY <2>1 DEF TakeStored, JobOnly, runnerVars
      <3>2. j <= created
        BY <2>1, AtWork DEF TakeStored, Move, Working, Stages
      <3>3. (Stored(rec[j])).of \in {rec'[j], NoRecording}
        BY <3>1 DEF Stored
      <3>4. QED
        BY <1>0, <3>1, <3>2, <3>3, OwnExpectations
    <2>2. CASE Propose(j)
      <3>0. PICK some \in BOOLEAN : exp' = [exp EXCEPT ![j] = Guess(rec[j], some)]
        BY <2>2 DEF Propose
      <3>1. exp' = [exp EXCEPT ![j] = Guess(rec[j], some)] /\ UNCHANGED <<rec, created, draft>>
        BY <2>2, <3>0 DEF Propose, JobOnly, runnerVars
      <3>2. j <= created
        BY <2>2, AtWork DEF Propose, Move, Working, Stages
      <3>3. (Guess(rec[j], some)).of \in {rec'[j], NoRecording}
        BY <3>1 DEF Guess
      <3>4. QED
        BY <1>0, <3>1, <3>2, <3>3, OwnExpectations
    <2>3. CASE ProposeFails(j)
      <3>1. exp' = [exp EXCEPT ![j] = EmptySet(rec[j])] /\ UNCHANGED <<rec, created, draft>>
        BY <2>3 DEF ProposeFails, JobOnly, runnerVars
      <3>2. j <= created
        BY <2>3, AtWork DEF ProposeFails, Move, Working, Stages
      <3>3. (EmptySet(rec[j])).of \in {rec'[j], NoRecording}
        BY <3>1 DEF EmptySet
      <3>4. QED
        BY <1>0, <3>1, <3>2, <3>3, OwnExpectations
    <2>4. CASE Reread(j)
      <3>1. heldFor[j] = rec[j]
        BY <2>4 DEF Reread, Move, IInv, HeldForARecording
      <3>2. PICK e : /\ exp' = [exp EXCEPT ![j] = e]
                     /\ e \in {Stored(rec[j]), exp[j]}
        BY <1>0, <2>4, <3>1 DEF Reread
      <3>3. UNCHANGED <<rec, created, draft>>
        BY <2>4 DEF Reread, runnerVars
      <3>4. j <= created
        BY <2>4, AtWork DEF Reread, Move, Working, Stages
      <3>5. exp[j].of \in {rec[j], NoRecording}
        BY <1>0, <3>4 DEF PrivateOracle, Jobs
      <3>6. e.of \in {rec'[j], NoRecording}
        BY <3>2, <3>3, <3>5 DEF Stored
      <3>7. QED
        BY <1>0, <3>2, <3>3, <3>4, <3>6, OwnExpectations
    <2>5. CASE Author(j) \/ FailLate(j)
      <3>1. exp[j].of \in {rec[j], NoRecording}
        <4>1. j <= created
          BY <2>5, AtWork DEF Author, FailLate, Move, Working, Stages
        <4>2. QED
          BY <1>0, <4>1 DEF PrivateOracle, Jobs
      <3>2. draft' \in {draft, Authored(j)}
        BY <2>5 DEF Author, FailLate
      <3>3. NoOracleLeak'
        <4>1. ASSUME NEW r \in Recordings PROVE draft'[r].of \in {r, NoRecording}
          <5>1. draft[r].of \in {r, NoRecording}
            BY DEF PrivateOracle, NoOracleLeak
          <5>2. Authored(j)[r] = IF r = rec[j] THEN [of |-> exp[j].of, with |-> exp[j].with]
                                               ELSE draft[r]
            BY DEF Authored, IInv, TypeOK
          <5>3. Authored(j)[r].of \in {r, NoRecording}
            BY <3>1, <5>1, <5>2
          <5>4. QED
            BY <3>2, <5>1, <5>3
        <4>2. QED
          BY <4>1 DEF NoOracleLeak
      <3>4. UNCHANGED <<exp, rec, created>>
        BY <2>5 DEF Author, FailLate, Settle
      <3>5. QED
        BY <3>3, <3>4 DEF PrivateOracle
    <2>6. CASE UNCHANGED <<exp, rec, created, draft>>
      BY <2>6 DEF PrivateOracle, NoOracleLeak
    <2>7. QED
      BY <1>2, <2>1, <2>2, <2>3, <2>4, <2>5, <2>6
         DEF JobStep, StartJob, Take, TakeGiven, FindNothing, OpenGuessFile, LeaveGuessUnsaved,
             WriteGuess, NothingToConfirm, Hold, Wake, LeaveGate, FailEarly, Settle, JobOnly
  <1>3. ASSUME NEW p \in Posts, NEW j \in Jobs, RunAgain(p, j) PROVE PrivateOracle'
    <2> DEFINE e == [of |-> about[p], with |-> base[p], items |-> items[about[p]]]
    <2>1. /\ j = created + 1 /\ created' = j /\ rec' = [rec EXCEPT ![j] = about[p]]
          /\ exp' = [exp EXCEPT ![j] = e] /\ UNCHANGED draft
      BY <1>3 DEF RunAgain, Enqueue
    <2>2. e.of = rec'[j]
      BY <1>0, <2>1
    <2>3. ASSUME NEW i \in Jobs \ {j} PROVE rec'[i] = rec[i] /\ (i > created <=> i > created')
      BY <1>0, <2>1 DEF Jobs
    <2>4. created' \in Nat /\ j <= created'
      BY <1>0, <2>1
    <2> HIDE DEF e
    <2>5. e.of \in {rec'[j], NoRecording}
      BY <2>2
    <2>6. QED
      BY <1>0, <2>1, <2>3, <2>4, <2>5, OwnExpectations
  <1>4. CASE Restart
    BY <1>4 DEF Restart, ForgetJobs, PrivateOracle, NoOracleLeak
  <1>5. CASE UNCHANGED <<exp, rec, created, draft>>
    BY <1>5 DEF PrivateOracle, NoOracleLeak
  <1>6. QED
    BY <1>1, <1>2, <1>3, <1>4, <1>5
       DEF Next, vars, PostStep, OpenAnswerFile, WriteAnswers, FoldIn, FindNobodyHolding,
           LoadToAnswer, RefuseAnswer, Skip, SkipNothing

(* One recording's expectations do not reach another recording's draft     *)
(* when no options are shared (app.py, _with_expectations); with shared    *)
(* options they do, as the run ConfirmLeak shows.                          *)
THEOREM NoLeakWithoutSharing == ASSUME ~SharedOptions PROVE Spec => []NoOracleLeak
  <1>1. Init => PrivateOracle
    BY DEF Init, RunnerInit, PrivateOracle, NoOracleLeak
  <1>2. IInv /\ PrivateOracle /\ [Next]_vars => PrivateOracle'
    BY PrivateOracleKept
  <1>3. PrivateOracle => NoOracleLeak
    BY DEF PrivateOracle
  <1>4. QED
    BY <1>1, <1>2, <1>3, InductiveInvariant, PTL DEF Spec

(* Nor do two jobs ever hold at the same gate then: "it cannot happen      *)
(* while JobRunner serialises per recording" (confirm.py, hold).           *)
THEOREM OneHolderWithoutSharing == ASSUME ~SharedOptions PROVE Spec => []OneHolderPerRecording
  <1>1. IInv => OneHolderPerRecording
    <2> SUFFICES ASSUME IInv, NEW i \in Jobs, NEW j \in Jobs, stage[i] = "waiting",
                        stage[j] = "waiting", heldFor[i] = heldFor[j]
                 PROVE  i = j
      BY DEF OneHolderPerRecording
    <2>1. rec[i] = rec[j]
      BY DEF IInv, HeldForARecording
    <2>2. lock[rec[i]] = i /\ lock[rec[j]] = j
      BY DEF IInv, WorkingUnderLock
    <2>3. QED
      BY <2>1, <2>2
  <1>2. QED
    BY <1>1, InductiveInvariant, PTL

=============================================================================
