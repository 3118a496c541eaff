---------------------------- MODULE PipelineRounds ----------------------------
(***************************************************************************)
(* The rounds of a run and what they leave in the run directory            *)
(* (server/pipeline/run.py: run_pipeline, _pick_round, _write_output,      *)
(* _erase_output; server/api/app.py: _run).                                *)
(*                                                                         *)
(* Every round has a document written, saves it as author.json and         *)
(* ir.json, renders it, has the gate check it and a judge read it.  What   *)
(* gate and judge object to asks for one more round, until nobody objects  *)
(* or the rounds are used up.  Then one round is chosen.  As every round   *)
(* overwrote the files of the one before, a winner that is not the last is *)
(* written back.  Coverage suggestions write the IR and the output again,  *)
(* then comes the trace, and only then is the output of a document that    *)
(* failed hard erased.  A re-run does all this in the same directory.      *)
(*                                                                         *)
(* Data: a document is what the choice and the gate see of it, and which   *)
(* file name it renders to (the name has the number of scenarios in it).   *)
(* Segments, expectations, sidecars, coverage.json and the contents of     *)
(* reports are left out.  A file is written in one step.                   *)
(***************************************************************************)
EXTENDS Integers, Sequences, FiniteSets

CONSTANTS Names,       \* file names a document may render to
          MaxRounds,   \* options.max_author_rounds
          MaxProved,   \* bound: claims of a document that point at a retrieval
          MaxRefused,  \* bound: claims dropped while a document was parsed
          MaxFails,    \* bound: findings of the judge with severity "fail"
          Judging,     \* options.judge_enabled and tools_enabled
          Suggesting,  \* options.suggestions_enabled and tools_enabled
          MaxRuns      \* bound: runs in this directory

ASSUME RoundsAssumption ==
    /\ MaxRounds \in Nat /\ MaxRuns \in Nat
    /\ MaxProved \in Nat /\ MaxRefused \in Nat /\ MaxFails \in Nat
    /\ Judging \in BOOLEAN /\ Suggesting \in BOOLEAN

VARIABLES at,        \* the next thing run_pipeline does
          part,      \* what it is done for: a round, the choice, the winner
          attempt,   \* rounds begun
          document,  \* the document at hand, an index into drafts
          rounds,    \* the rounds completed
          cursor,    \* the next round _pick_round looks at
          shipped,   \* the best round it has seen
          drafts,    \* every document of every run so far
          runs       \* runs begun in this directory

VARIABLES author, ir, files, judge, trace, review   \* the run directory

localVars == <<at, part, attempt, document, rounds, cursor, shipped>>
dirVars   == <<author, ir, files, judge, trace, review>>
pipelineVars == <<localVars, drafts, runs, dirVars>>

Documents == [gate : {"ok", "rejected", "hard"}, proved : 0..MaxProved,
              refused : 0..MaxRefused, name : Names]
Rounds    == [doc : 1..Len(drafts), fails : 0..MaxFails]

\* A test case as ir.json or a feature file holds it: the document it was
\* assembled from and the reviewer's edits it went through.
Plain(d)  == [draft |-> d, edits |-> {}]
Nothing   == Plain(0)
Gate(d)   == drafts[d].gate
Name(d)   == drafts[d].name
NoReview  == [edits |-> {}, approved |-> FALSE, kept |-> FALSE]
NewReview == [NoReview EXCEPT !.kept = TRUE]

Limit == IF MaxRounds = 0 THEN 1 ELSE MaxRounds
Resting == {"idle", "done", "failed"}

---------------------------------------------------------------------------
\* Which of two rounds is better.

Passes(r) == IF Gate(r.doc) = "ok" THEN 1 ELSE 0
Proved(r) == drafts[r.doc].proved

\* At least as good everywhere, and better somewhere: gate, proved verdicts,
\* and the fewer fails of the judge.
Dominates(a, b) ==
    /\ Passes(a) >= Passes(b)
    /\ Proved(a) >= Proved(b)
    /\ a.fails <= b.fails
    /\ \/ Passes(a) > Passes(b)
       \/ Proved(a) > Proved(b)
       \/ a.fails < b.fails

\* Does anybody object to the document?  The claims that were dropped while it
\* was parsed count, and so do the gate and the judge.
Feedback(d, fails) == drafts[d].refused > 0 \/ Gate(d) # "ok" \/ fails > 0

---------------------------------------------------------------------------
Init ==
    /\ at = "idle" /\ part = "round"
    /\ attempt = 0 /\ document = 0 /\ rounds = <<>> /\ cursor = 1 /\ shipped = 0
    /\ drafts = <<>> /\ runs = 0
    /\ author = 0 /\ ir = Nothing /\ files = [n \in Names |-> Nothing]
    /\ judge = [run |-> 0, attempt |-> 0]
    /\ trace = [draft |-> 0, calls |-> <<>>]
    /\ review = NoReview

\* The local variables of run_pipeline as it begins, and when it is gone.
FreshLocals ==
    /\ part' = "round"
    /\ attempt' = 0 /\ document' = 0 /\ rounds' = <<>> /\ cursor' = 1 /\ shipped' = 0

\* A job of this recording has its lock and enters run_pipeline.
StartRun ==
    /\ at \in Resting /\ runs < MaxRuns
    /\ runs' = runs + 1
    /\ at' = "author" /\ FreshLocals
    /\ UNCHANGED <<drafts, dirVars>>

WriteDocument ==
    /\ at = "author"
    /\ \E d \in Documents : drafts' = Append(drafts, d)
    /\ document' = Len(drafts) + 1
    /\ attempt' = attempt + 1 /\ at' = "author.json"
    /\ UNCHANGED <<part, rounds, cursor, shipped, runs, dirVars>>

\* A revision in which two adjacent steps say the same would lose one of them:
\* it has been written and paid for, and the previous document goes through the
\* round again.  (Nothing looks at the refused one: it is entered as a copy.)
RefuseRevision ==
    /\ at = "author" /\ attempt > 0
    /\ drafts' = Append(drafts, drafts[document])
    /\ attempt' = attempt + 1 /\ at' = "author.json"
    /\ UNCHANGED <<part, document, rounds, cursor, shipped, runs, dirVars>>

SaveAuthor ==
    /\ at = "author.json"
    /\ author' = document /\ at' = "ir.json"
    /\ UNCHANGED <<part, attempt, document, rounds, cursor, shipped, drafts, runs,
                   ir, files, judge, trace, review>>

SaveIR ==
    /\ at = "ir.json"
    /\ ir' = Plain(document) /\ at' = "clear"
    /\ UNCHANGED <<part, attempt, document, rounds, cursor, shipped, drafts, runs,
                   author, files, judge, trace, review>>

\* Mutant of ClearStale: leaves the files of another name where they are.
ClearNothing ==
    /\ at = "clear"
    /\ at' = "feature"
    /\ UNCHANGED <<part, attempt, document, rounds, cursor, shipped, drafts, runs, dirVars>>

\* _write_output first removes what has another name than what it will write.
ClearStale ==
    /\ at = "clear"
    /\ files' = [n \in Names |-> IF n = Name(document) THEN files[n] ELSE Nothing]
    /\ at' = "feature"
    /\ UNCHANGED <<part, attempt, document, rounds, cursor, shipped, drafts, runs,
                   author, ir, judge, trace, review>>

WriteFeature ==
    /\ at = "feature"
    /\ files' = [files EXCEPT ![Name(document)] = Plain(document)]
    /\ at' = CASE part = "round"   -> "judge"
               [] part = "restore" -> "judge.json"
               [] OTHER            -> "trace"
    /\ UNCHANGED <<part, attempt, document, rounds, cursor, shipped, drafts, runs,
                   author, ir, judge, trace, review>>

---------------------------------------------------------------------------
\* The gate reads the document, the judge writes judge.json; a judge that fails
\* or is not asked has found nothing.  The round is then complete.
CompleteRound(fails) ==
    /\ at = "judge"
    /\ fails > 0 => Judging
    /\ rounds' = Append(rounds, [doc |-> document, fails |-> fails])
    /\ judge' = IF Judging THEN [run |-> runs, attempt |-> attempt] ELSE judge
    /\ UNCHANGED <<attempt, document, cursor, drafts, runs, author, ir, files, trace, review>>

\* Somebody objects and there are rounds left.
Revise ==
    \E fails \in 0..MaxFails :
        /\ CompleteRound(fails)
        /\ Feedback(document, fails) /\ attempt < Limit
        /\ at' = "author"
        /\ UNCHANGED <<part, shipped>>

\* Nobody objects, or nobody can be asked again: the last round is the first
\* candidate.
EndRounds ==
    \E fails \in 0..MaxFails :
        /\ CompleteRound(fails)
        /\ ~Feedback(document, fails) \/ attempt >= Limit
        /\ at' = "pick" /\ part' = "pick" /\ shipped' = Len(rounds) + 1

\* Mutant of PickRound: compares every round with the last instead of the best.
PickAgainstTheLast ==
    /\ at = "pick" /\ cursor < Len(rounds)
    /\ shipped' = IF Dominates(rounds[cursor], rounds[Len(rounds)]) THEN cursor ELSE shipped
    /\ cursor' = cursor + 1
    /\ UNCHANGED <<at, part, attempt, document, rounds, drafts, runs, dirVars>>

\* One turn of the loop of _pick_round over the earlier rounds.
PickRound ==
    /\ at = "pick" /\ cursor < Len(rounds)
    /\ shipped' = IF Dominates(rounds[cursor], rounds[shipped]) THEN cursor ELSE shipped
    /\ cursor' = cursor + 1
    /\ UNCHANGED <<at, part, attempt, document, rounds, drafts, runs, dirVars>>

AfterChoice == IF Suggesting THEN "coverage" ELSE "trace"

\* The last round ships as it is; an earlier one has to be written back.
Ship ==
    /\ at = "pick" /\ cursor = Len(rounds)
    /\ document' = rounds[shipped].doc
    /\ IF shipped = Len(rounds)
       THEN part' = "shipped" /\ at' = AfterChoice
       ELSE part' = "restore" /\ at' = "author.json"
    /\ UNCHANGED <<attempt, rounds, cursor, shipped, drafts, runs, dirVars>>

\* Mutant of RestoreJudge: the last round's judge.json stays beside the winner's
\* files.
RestoreNoJudge ==
    /\ at = "judge.json"
    /\ part' = "shipped" /\ at' = AfterChoice
    /\ UNCHANGED <<attempt, document, rounds, cursor, shipped, drafts, runs, dirVars>>

RestoreJudge ==
    /\ at = "judge.json"
    /\ judge' = IF Judging THEN [run |-> runs, attempt |-> shipped] ELSE judge
    /\ part' = "shipped" /\ at' = AfterChoice
    /\ UNCHANGED <<attempt, document, rounds, cursor, shipped, drafts, runs,
                   author, ir, files, trace, review>>

\* Suggestions are attached to the IR, which is saved and rendered once more.
SuggestCoverage ==
    /\ at = "coverage"
    /\ at' = "ir.json"
    /\ UNCHANGED <<part, attempt, document, rounds, cursor, shipped, drafts, runs, dirVars>>

---------------------------------------------------------------------------
\* Mutant of WriteTrace: traces the last round though an earlier one ships.
TraceTheLast ==
    /\ at = "trace"
    /\ trace' = [draft |-> rounds[Len(rounds)].doc,
                 calls |-> [i \in DOMAIN rounds |-> rounds[i].doc]]
    /\ at' = "erase"
    /\ UNCHANGED <<part, attempt, document, rounds, cursor, shipped, drafts, runs,
                   author, ir, files, judge, review>>

\* The trace has the model calls of the document of every round, and the verdict
\* on the one that ships.
WriteTrace ==
    /\ at = "trace"
    /\ trace' = [draft |-> document, calls |-> [i \in DOMAIN rounds |-> rounds[i].doc]]
    /\ at' = "erase"
    /\ UNCHANGED <<part, attempt, document, rounds, cursor, shipped, drafts, runs,
                   author, ir, files, judge, review>>

\* Mutant of EraseOutput: goes by the report of the last round though an earlier
\* one ships.
EraseByTheLast ==
    /\ at = "erase"
    /\ files' = IF Gate(rounds[Len(rounds)].doc) = "hard"
                THEN [files EXCEPT ![Name(document)] = Nothing]
                ELSE files
    /\ at' = "review"
    /\ UNCHANGED <<part, attempt, document, rounds, cursor, shipped, drafts, runs,
                   author, ir, judge, trace, review>>

EraseOutput ==
    /\ at = "erase"
    /\ files' = IF Gate(document) = "hard"
                THEN [files EXCEPT ![Name(document)] = Nothing]
                ELSE files
    /\ at' = "review"
    /\ UNCHANGED <<part, attempt, document, rounds, cursor, shipped, drafts, runs,
                   author, ir, judge, trace, review>>

\* The pipeline is back and _run puts a new review beside the draft.
OpenReview ==
    /\ at = "review"
    /\ review' = NewReview /\ at' = "done"
    /\ UNCHANGED <<part, attempt, document, rounds, cursor, shipped, drafts, runs,
                   author, ir, files, judge, trace>>

\* A model call or a write raises, or the server stops.  What was written stays.
Abort ==
    /\ at \notin Resting
    /\ at' = "failed" /\ FreshLocals
    /\ UNCHANGED <<drafts, runs, dirVars>>

Round == WriteDocument \/ RefuseRevision \/ Revise \/ EndRounds
Write == SaveAuthor \/ SaveIR \/ ClearStale \/ WriteFeature
Close == PickRound \/ Ship \/ RestoreJudge \/ SuggestCoverage
         \/ WriteTrace \/ EraseOutput \/ OpenReview
PipelineStep == Round \/ Write \/ Close

PipelineNext == StartRun \/ PipelineStep \/ Abort

PipelineSpec == Init /\ [][PipelineNext]_pipelineVars

---------------------------------------------------------------------------
Stages == Resting \cup
          {"author", "author.json", "ir.json", "clear", "feature", "judge", "pick",
           "judge.json", "coverage", "trace", "erase", "review"}

\* The types when the edits a test case has gone through are among es.
Typed(es) ==
    /\ at \in Stages
    /\ part \in {"round", "pick", "restore", "shipped"}
    /\ attempt \in 0..Limit
    /\ drafts \in Seq(Documents)
    /\ document \in 0..Len(drafts)
    /\ rounds \in Seq(Rounds) /\ Len(rounds) <= attempt
    /\ cursor \in 1..(Limit + 1) /\ shipped \in 0..Len(rounds)
    /\ runs \in 0..MaxRuns
    /\ author \in 0..Len(drafts)
    /\ ir \in [draft : 0..Len(drafts), edits : SUBSET es]
    /\ files \in [Names -> [draft : 0..Len(drafts), edits : SUBSET es]]
    /\ judge \in [run : 0..MaxRuns, attempt : 0..Limit]
    /\ trace \in [draft : 0..Len(drafts), calls : Seq(1..Len(drafts))]
    /\ review \in [edits : SUBSET es, approved : BOOLEAN, kept : BOOLEAN]

\* The variables keep their types; a run alone edits nothing.
TypeOK == Typed({})

\* The round that ships is dominated by none, and it is the last one unless it
\* is better than the last one on every axis at once (run.py:274-315).
Chosen == part \in {"restore", "shipped"}
BestRoundShips ==
    Chosen =>
        /\ \A i \in DOMAIN rounds : ~Dominates(rounds[i], rounds[shipped])
        /\ shipped # Len(rounds) => Dominates(rounds[shipped], rounds[Len(rounds)])

\* When a run has ended well, author.json, ir.json, the feature file, judge.json
\* and trace.json are all about the round that shipped, though every round
\* overwrote them, and no feature file of an earlier run or round is left beside
\* it (run.py:679-684, 1399-1423).
FilesOfOneRound ==
    at = "done" =>
        LET d == rounds[shipped].doc
        IN  /\ author = d /\ ir = Plain(d) /\ trace.draft = d
            /\ Judging => judge = [run |-> runs, attempt |-> shipped]
            /\ \A n \in Names :
                   files[n] = IF n = Name(d) /\ Gate(d) # "hard" THEN Plain(d) ELSE Nothing

\* When a run has ended well, no feature file shows a document that failed hard
\* (run.py:786-792).
HardFailureLeavesNoFeature ==
    at = "done" => \A n \in Names : files[n].draft # 0 => Gate(files[n].draft) # "hard"

\* run.py:704-708: "the trace records the RUN, not the round that won it", because
\* "a stage that costs quota invisibly is the exact defect the trace exists to
\* prevent": the calls of every document the run had written are in it, once each.
TraceRecordsTheRun ==
    at = "done" /\ runs = 1 =>
        \A d \in DOMAIN drafts : Cardinality({i \in DOMAIN trace.calls : trace.calls[i] = d}) = 1
---------------------------------------------------------------------------
\* The inductive invariant behind the properties above.

Working == Stages \ Resting
InRound == {"author.json", "ir.json", "clear", "feature", "judge"}
Settled == {"coverage", "trace", "erase", "review", "done"}

\* What is done in which part, and when there has been a run.
Control ==
    /\ at = "idle" <=> runs = 0
    /\ at \in {"idle", "failed", "author", "judge"} => part = "round"
    /\ at = "pick" <=> part = "pick"
    /\ at = "judge.json" => part = "restore"
    /\ at \in Settled => part = "shipped"
    /\ at = "author.json" => part # "shipped"

\* Rounds begun and completed, and the document at hand.
Counting ==
    /\ Len(rounds) = IF part = "round" /\ at \in InRound THEN attempt - 1 ELSE attempt
    /\ at \notin {"idle", "failed", "author"} => attempt > 0
    /\ attempt > 0 => document > 0
    /\ at = "author" => attempt < Limit
    /\ at = "pick" => document = rounds[Len(rounds)].doc
    /\ Chosen => document = rounds[shipped].doc

\* What _pick_round knows after some of the earlier rounds.
Picking ==
    IF part = "round"
    THEN cursor = 1
    ELSE /\ shipped \in DOMAIN rounds /\ cursor \in DOMAIN rounds
         /\ Chosen => cursor = Len(rounds)
         /\ \A i \in 1..(cursor - 1) : ~Dominates(rounds[i], rounds[shipped])
         /\ shipped # Len(rounds) => Dominates(rounds[shipped], rounds[Len(rounds)])

\* Which files are already those of the document at hand.
Saved ==
    /\ at \in {"ir.json", "clear", "feature", "judge", "pick", "judge.json"} \cup Settled =>
           author = document
    /\ at \in {"clear", "feature", "judge", "pick", "judge.json"} \cup Settled =>
           ir = Plain(document)
    /\ at = "feature" => \A n \in Names : n # Name(document) => files[n] = Nothing
    /\ at \in {"judge", "pick", "judge.json", "coverage", "trace", "erase"} =>
           files = [n \in Names |-> IF n = Name(document) THEN Plain(document) ELSE Nothing]
    /\ at \in {"review", "done"} =>
           files = [n \in Names |-> IF n = Name(document) /\ Gate(document) # "hard"
                                    THEN Plain(document) ELSE Nothing]
    /\ Judging /\ at = "pick" => judge = [run |-> runs, attempt |-> Len(rounds)]
    /\ Judging /\ part = "shipped" => judge = [run |-> runs, attempt |-> shipped]

\* A trace is written at the end of a run,
Traced ==
    at \in {"erase", "review", "done"} =>
        trace = [draft |-> document, calls |-> [i \in DOMAIN rounds |-> rounds[i].doc]]

\* and that of a first run is about the IR.
Verdict ==
    runs <= 1 /\ trace.draft # 0 => /\ at \in {"erase", "review", "done", "failed"}
                                    /\ trace.draft = ir.draft

\* What is true of a run whatever is done to its files, and everything that is
\* true of it, at any moment and for any bounds.
Course(es) == Typed(es) /\ Control /\ Counting /\ Picking
IInv == Course({}) /\ Saved /\ Traced /\ Verdict
=============================================================================
