---------------------------- MODULE ReviewDeskProofs ----------------------------
(* What is true of the rounds of a run for any bounds and options, and of  *)
(* a run directory for any number of requests and runs.                    *)
EXTENDS ReviewDesk, TLAPS

USE RoundsAssumption
USE DEF localVars, dirVars, Resting, Stages, Working, InRound, Settled, Chosen, Plain, Nothing,
        AfterChoice, Limit

LEMMA SeqGrows ==
  ASSUME NEW S, NEW T, S \subseteq T, NEW s \in Seq(S) PROVE s \in Seq(T)
  OBVIOUS

LEMMA TupleIsASeq ==
  ASSUME NEW S, NEW n \in Nat, NEW f \in [1..n -> S] PROVE f \in Seq(S)
  OBVIOUS

LEMMA OrderOfIntegers ==
  ASSUME NEW x \in Int, NEW y \in Int, NEW z \in Int
  PROVE  /\ x >= y /\ y >= z => x >= z
         /\ x > y /\ y >= z => x > z
         /\ x <= y /\ y <= z => x <= z
         /\ x < y /\ y <= z => x < z
         /\ ~(x > x) /\ ~(x < x)
  OBVIOUS

\* A round that is better than one that is better than a third is better than the
\* third, and no round is better than itself.
LEMMA DominatesIsAnOrder ==
  ASSUME drafts \in Seq(Documents), NEW a \in Rounds, NEW b \in Rounds, NEW c \in Rounds
  PROVE  /\ Dominates(a, b) /\ Dominates(b, c) => Dominates(a, c)
         /\ ~Dominates(a, a)
  <1>1. ASSUME NEW r \in Rounds
        PROVE  Proved(r) \in Int /\ Passes(r) \in Int /\ r.fails \in Int
    <2>1. r.doc \in DOMAIN drafts /\ r.fails \in Int
      BY DEF Rounds
    <2>2. drafts[r.doc] \in Documents
      BY <2>1
    <2>3. Proved(r) \in Int
      BY <2>2 DEF Documents, Proved
    <2>4. Passes(r) \in Int
      BY DEF Passes
    <2>5. QED BY <2>1, <2>3, <2>4
  <1>2. /\ Proved(a) \in Int /\ Passes(a) \in Int /\ a.fails \in Int
        /\ Proved(b) \in Int /\ Passes(b) \in Int /\ b.fails \in Int
        /\ Proved(c) \in Int /\ Passes(c) \in Int /\ c.fails \in Int
    BY <1>1
  <1>3. ~Dominates(a, a)
    BY <1>2, OrderOfIntegers, Zenon DEF Dominates
  <1>4. ASSUME Dominates(a, b), Dominates(b, c) PROVE Dominates(a, c)
    <2>1. Passes(a) >= Passes(c) /\ (Passes(a) > Passes(b) => Passes(a) > Passes(c))
      BY <1>2, <1>4, OrderOfIntegers, Zenon DEF Dominates
    <2>2. /\ Proved(a) >= Proved(c)
          /\ Proved(a) > Proved(b) => Proved(a) > Proved(c)
      BY <1>2, <1>4, OrderOfIntegers, Zenon DEF Dominates
    <2>3. a.fails <= c.fails /\ (a.fails < b.fails => a.fails < c.fails)
      BY <1>2, <1>4, OrderOfIntegers, ZenonT(30) DEF Dominates
    <2>4. QED BY <1>4, <2>1, <2>2, <2>3, Zenon DEF Dominates
  <1>5. QED BY <1>3, <1>4

\* The document of a completed round is one that was written.
LEMMA RoundsHaveDocuments ==
  ASSUME rounds \in Seq(Rounds), NEW i \in DOMAIN rounds
  PROVE  rounds[i] \in Rounds /\ rounds[i].doc \in 1..Len(drafts)
  <1>1. rounds[i] \in Rounds
    OBVIOUS
  <1>2. QED BY <1>1 DEF Rounds

\* A step keeps the course of a run, what has been edited or not; and it keeps the
\* files those of the document at hand where nobody else has been at them.
Kept(es) == /\ Course(es)'
            /\ Saved => Saved'
            /\ Saved /\ Traced => Traced'
            /\ Saved /\ Verdict => Verdict'

LEMMA StartRunKeepsCourse == ASSUME NEW es, Course(es), StartRun PROVE Kept(es)
  <1> USE DEF Course, StartRun, FreshLocals
  <1>1. Typed(es)'
    BY DEF Typed, Counting, Rounds
  <1>2. Control'
    BY DEF Typed, Control
  <1>3. Counting'
    BY DEF Typed, Control, Counting, Picking
  <1>4. Picking'
    BY DEF Control, Picking
  <1>5. ASSUME Saved PROVE Saved'
    BY <1>5 DEF Saved
  <1>6. ASSUME Saved, Traced PROVE Traced'
    BY <1>6 DEF Typed, Control, Counting, Saved, Traced
  <1>7. ASSUME Saved, Verdict PROVE Verdict'
    BY <1>7 DEF Typed, Control, Counting, Saved, Verdict
  <1>8. QED BY <1>1, <1>2, <1>3, <1>4, <1>5, <1>6, <1>7 DEF Kept

\* A step that adds a document and begins a round keeps the types.
LEMMA OneMoreDocument ==
  ASSUME NEW es, Course(es), NEW d \in Documents, drafts' = Append(drafts, d),
         at = "author", at' = "author.json", attempt' = attempt + 1,
         document' \in {document, Len(drafts) + 1},
         UNCHANGED <<part, rounds, cursor, shipped, runs, dirVars>>
  PROVE  Typed(es)'
  <1> USE DEF Course, Typed
  <1>1. drafts' \in Seq(Documents) /\ Len(drafts') = Len(drafts) + 1 /\ Len(drafts) \in Nat
    OBVIOUS
  <1>2. attempt < Limit /\ Len(rounds) <= attempt + 1
    BY DEF Control, Counting
  <1>3. attempt' \in 0..Limit
    BY <1>2, SMTT(30)
  <1>4. rounds' \in Seq(Rounds')
    <2>1. Rounds \subseteq Rounds'
      BY <1>1, SMTT(30) DEF Rounds
    <2>2. QED BY <2>1, SeqGrows
  <1>5. document' \in 0..Len(drafts') /\ author' \in 0..Len(drafts')
    BY <1>1
  <1>6. ir' \in [draft : 0..Len(drafts'), edits : SUBSET es]
    BY <1>1
  <1>7. files' \in [Names -> [draft : 0..Len(drafts'), edits : SUBSET es]]
    BY <1>1
  <1>8. trace' \in [draft : 0..Len(drafts'), calls : Seq(1..Len(drafts'))]
    <2>1. 1..Len(drafts) \subseteq 1..Len(drafts')
      BY <1>1
    <2>2. trace.calls \in Seq(1..Len(drafts'))
      BY <2>1, SeqGrows
    <2>3. trace.draft \in 0..Len(drafts')
      BY <1>1
    <2>4. trace = [draft |-> trace.draft, calls |-> trace.calls]
      OBVIOUS
    <2>5. QED BY <2>2, <2>3, <2>4
  <1>9. at' \in Stages /\ part' \in {"round", "pick", "restore", "shipped"}
        /\ cursor' \in 1..(Limit + 1) /\ shipped' \in 0..Len(rounds') /\ runs' \in 0..MaxRuns
        /\ judge' \in [run : 0..MaxRuns, attempt : 0..Limit]
        /\ review' \in [edits : SUBSET es, approved : BOOLEAN, kept : BOOLEAN]
    OBVIOUS
  <1>10. drafts' \in Seq(Documents') /\ Len(rounds') <= attempt'
    BY <1>1, <1>2 DEF Documents
  <1>11. QED BY <1>3, <1>4, <1>5, <1>6, <1>7, <1>8, <1>9, <1>10

LEMMA WriteDocumentKeepsCourse == ASSUME NEW es, Course(es), WriteDocument PROVE Kept(es)
  <1> USE DEF Course, WriteDocument
  <1>0. PICK d \in Documents : drafts' = Append(drafts, d)
    OBVIOUS
  <1>1. Typed(es)'
    BY <1>0, OneMoreDocument
  <1>2. Control'
    BY DEF Typed, Control
  <1>3. Counting'
    BY DEF Typed, Control, Counting, Picking
  <1>4. Picking'
    BY DEF Control, Picking
  <1>5. ASSUME Saved PROVE Saved'
    BY <1>5 DEF Saved
  <1>6. ASSUME Saved, Traced PROVE Traced'
    BY <1>6 DEF Typed, Control, Counting, Saved, Traced
  <1>7. ASSUME Saved, Verdict PROVE Verdict'
    BY <1>7 DEF Typed, Control, Counting, Saved, Verdict
  <1>8. QED BY <1>1, <1>2, <1>3, <1>4, <1>5, <1>6, <1>7 DEF Kept

LEMMA RefuseRevisionKeepsCourse == ASSUME NEW es, Course(es), RefuseRevision PROVE Kept(es)
  <1> USE DEF Course
  <1>0. /\ drafts \in Seq(Documents) /\ document \in 1..Len(drafts)
        /\ \A i \in 1..Len(drafts) : drafts'[i] = drafts[i]
        /\ drafts[document] \in Documents
    BY DEF Typed, Counting, RefuseRevision
  <1>1. Typed(es)'
    BY <1>0, OneMoreDocument DEF RefuseRevision
  <1> USE DEF RefuseRevision
  <1>2. Control'
    BY DEF Typed, Control
  <1>3. Counting'
    <2>1. Len(rounds) = attempt /\ attempt < Limit /\ part = "round" /\ document > 0
          /\ attempt \in 0..Limit
      BY DEF Typed, Control, Counting
    <2>2. Len(rounds') = attempt' - 1 /\ attempt' > 0 /\ part' = "round" /\ document' > 0
      BY <2>1
    <2>3. QED BY <2>2 DEF Counting
  <1>4. Picking'
    BY DEF Control, Picking
  <1>5. ASSUME Saved PROVE Saved'
    BY <1>5 DEF Saved
  <1>6. ASSUME Saved, Traced PROVE Traced'
    BY <1>6 DEF Typed, Control, Counting, Saved, Traced
  <1>7. ASSUME Saved, Verdict PROVE Verdict'
    BY <1>7 DEF Typed, Control, Counting, Saved, Verdict
  <1>8. QED BY <1>1, <1>2, <1>3, <1>4, <1>5, <1>6, <1>7 DEF Kept

LEMMA SaveAuthorKeepsCourse == ASSUME NEW es, Course(es), SaveAuthor PROVE Kept(es)
  <1> USE DEF Course, SaveAuthor
  <1>1. Typed(es)'
    BY DEF Typed, Counting, Rounds
  <1>2. Control'
    BY DEF Typed, Control
  <1>3. Counting'
    BY DEF Typed, Control, Counting, Picking
  <1>4. Picking'
    BY DEF Typed, Control, Counting, Picking, Dominates, Passes, Proved, Gate
  <1>5. ASSUME Saved PROVE Saved'
    BY <1>5 DEF Typed, Control, Counting, Picking, Saved, Name, Gate
  <1>6. ASSUME Saved, Traced PROVE Traced'
    BY <1>6 DEF Typed, Control, Counting, Saved, Traced
  <1>7. ASSUME Saved, Verdict PROVE Verdict'
    BY <1>7 DEF Typed, Control, Counting, Saved, Verdict
  <1>8. QED BY <1>1, <1>2, <1>3, <1>4, <1>5, <1>6, <1>7 DEF Kept

LEMMA SaveIRKeepsCourse == ASSUME NEW es, Course(es), SaveIR PROVE Kept(es)
  <1> USE DEF Course, SaveIR
  <1>1. Typed(es)'
    BY DEF Typed, Counting, Rounds
  <1>2. Control'
    BY DEF Typed, Control
  <1>3. Counting'
    BY DEF Typed, Control, Counting, Picking
  <1>4. Picking'
    BY DEF Typed, Control, Counting, Picking, Dominates, Passes, Proved, Gate
  <1>5. ASSUME Saved PROVE Saved'
    BY <1>5 DEF Typed, Control, Counting, Picking, Saved, Name, Gate
  <1>6. ASSUME Saved, Traced PROVE Traced'
    BY <1>6 DEF Typed, Control, Counting, Saved, Traced
  <1>7. ASSUME Saved, Verdict PROVE Verdict'
    BY <1>7 DEF Typed, Control, Counting, Saved, Verdict
  <1>8. QED BY <1>1, <1>2, <1>3, <1>4, <1>5, <1>6, <1>7 DEF Kept

LEMMA ClearStaleKeepsCourse == ASSUME NEW es, Course(es), ClearStale PROVE Kept(es)
  <1> USE DEF Course, ClearStale
  <1>1. Typed(es)'
    <2> USE DEF Typed
    <2>1. Rounds' = Rounds
      BY DEF Rounds
    <2>2. files' \in [Names -> [draft : 0..Len(drafts), edits : SUBSET es]]
      OBVIOUS
    <2>3. QED BY <2>1, <2>2
  <1>2. Control'
    BY DEF Typed, Control
  <1>3. Counting'
    BY DEF Typed, Control, Counting, Picking
  <1>4. Picking'
    BY DEF Typed, Control, Counting, Picking, Dominates, Passes, Proved, Gate
  <1>5. ASSUME Saved PROVE Saved'
    BY <1>5 DEF Typed, Control, Counting, Picking, Saved, Name, Gate
  <1>6. ASSUME Saved, Traced PROVE Traced'
    BY <1>6 DEF Typed, Control, Counting, Saved, Traced
  <1>7. ASSUME Saved, Verdict PROVE Verdict'
    BY <1>7 DEF Typed, Control, Counting, Saved, Verdict
  <1>8. QED BY <1>1, <1>2, <1>3, <1>4, <1>5, <1>6, <1>7 DEF Kept

LEMMA WriteFeatureKeepsCourse == ASSUME NEW es, Course(es), WriteFeature PROVE Kept(es)
  <1> USE DEF Course, WriteFeature
  <1>1. Typed(es)'
    BY DEF Typed, Counting, Rounds
  <1>2. Control'
    BY DEF Typed, Control
  <1>3. Counting'
    BY DEF Typed, Control, Counting, Picking
  <1>4. Picking'
    BY DEF Typed, Control, Counting, Picking, Dominates, Passes, Proved, Gate
  <1>5. ASSUME Saved PROVE Saved'
    BY <1>5 DEF Typed, Control, Counting, Picking, Saved, Name, Gate
  <1>6. ASSUME Saved, Traced PROVE Traced'
    BY <1>6 DEF Typed, Control, Counting, Saved, Traced
  <1>7. ASSUME Saved, Verdict PROVE Verdict'
    BY <1>7 DEF Typed, Control, Counting, Saved, Verdict
  <1>8. QED BY <1>1, <1>2, <1>3, <1>4, <1>5, <1>6, <1>7 DEF Kept

LEMMA ReviseKeepsCourse == ASSUME NEW es, Course(es), Revise PROVE Kept(es)
  <1> USE DEF Course, Revise, CompleteRound
  <1>1. Typed(es)'
    <2> USE DEF Typed
    <2>1. Rounds' = Rounds
      BY DEF Rounds
    <2>2. document \in 1..Len(drafts) /\ Len(rounds) < attempt
      BY DEF Control, Counting
    <2>3. rounds' \in Seq(Rounds) /\ Len(rounds') = Len(rounds) + 1
      BY <2>2 DEF Rounds
    <2>4. shipped' \in 0..Len(rounds')
      BY <2>3
    <2>5. judge' \in [run : 0..MaxRuns, attempt : 0..Limit]
      <3>1. judge \in [run : 0..MaxRuns, attempt : 0..Limit] /\ runs \in 0..MaxRuns
            /\ attempt \in 0..Limit
        OBVIOUS
      <3>2. QED BY <3>1
    <2>6. at' \in Stages /\ part' \in {"round", "pick", "restore", "shipped"}
      OBVIOUS
    <2>7. UNCHANGED <<attempt, document, cursor, drafts, runs, author, ir, files, trace, review>>
      OBVIOUS
    <2>8. Typed(es)
      OBVIOUS
    <2> HIDE DEF Revise, CompleteRound, Course
    <2>9. /\ drafts' \in Seq(Documents') /\ document' \in 0..Len(drafts')
          /\ cursor' \in 1..(Limit + 1) /\ runs' \in 0..MaxRuns /\ attempt' \in 0..Limit
          /\ author' \in 0..Len(drafts')
      BY <2>7, <2>8 DEF Documents
    <2>10. /\ ir' \in [draft : 0..Len(drafts'), edits : SUBSET es]
           /\ files' \in [Names -> [draft : 0..Len(drafts'), edits : SUBSET es]]
           /\ trace' \in [draft : 0..Len(drafts'), calls : Seq(1..Len(drafts'))]
           /\ review' \in [edits : SUBSET es, approved : BOOLEAN, kept : BOOLEAN]
      BY <2>7, <2>8
    <2>11. rounds' \in Seq(Rounds') /\ Len(rounds') <= attempt'
      BY <2>1, <2>2, <2>3, <2>7, <2>8
    <2>12. QED BY <2>4, <2>5, <2>6, <2>9, <2>10, <2>11
  <1>2. Control'
    BY DEF Typed, Control
  <1>3. Counting'
    <2>1. attempt \in Nat /\ attempt > 0 /\ attempt < Limit /\ document > 0 /\ part = "round"
      BY DEF Typed, Control, Counting
    <2>2. rounds \in Seq(Rounds) /\ Len(rounds) = attempt - 1
      BY <2>1 DEF Typed, Counting
    <2>3. Len(rounds') = attempt' /\ attempt' = attempt /\ document' = document
      BY <2>1, <2>2
    <2>4. QED BY <2>1, <2>3 DEF Counting
  <1>4. Picking'
    BY DEF Control, Picking
  <1>5. ASSUME Saved PROVE Saved'
    BY <1>5 DEF Typed, Control, Counting, Picking, Saved, Name, Gate
  <1>6. ASSUME Saved, Traced PROVE Traced'
    BY <1>6 DEF Typed, Control, Counting, Saved, Traced
  <1>7. ASSUME Saved, Verdict PROVE Verdict'
    BY <1>7 DEF Typed, Control, Counting, Saved, Verdict
  <1>8. QED BY <1>1, <1>2, <1>3, <1>4, <1>5, <1>6, <1>7 DEF Kept

LEMMA EndRoundsKeepsCourse == ASSUME NEW es, Course(es), EndRounds PROVE Kept(es)
  <1> USE DEF Course, EndRounds, CompleteRound
  <1>1. Typed(es)'
    <2> USE DEF Typed
    <2>1. Rounds' = Rounds
      BY DEF Rounds
    <2>2. document \in 1..Len(drafts) /\ Len(rounds) < attempt
      BY DEF Control, Counting
    <2>3. rounds' \in Seq(Rounds) /\ Len(rounds') = Len(rounds) + 1
      BY <2>2 DEF Rounds
    <2>4. shipped' \in 0..Len(rounds')
      BY <2>3
    <2>5. judge' \in [run : 0..MaxRuns, attempt : 0..Limit]
      <3>1. judge \in [run : 0..MaxRuns, attempt : 0..Limit] /\ runs \in 0..MaxRuns
            /\ attempt \in 0..Limit
        OBVIOUS
      <3>2. QED BY <3>1
    <2>6. at' \in Stages /\ part' \in {"round", "pick", "restore", "shipped"}
      OBVIOUS
    <2>7. UNCHANGED <<attempt, document, cursor, drafts, runs, author, ir, files, trace, review>>
      OBVIOUS
    <2>8. Typed(es)
      OBVIOUS
    <2> HIDE DEF EndRounds, CompleteRound, Course
    <2>9. /\ drafts' \in Seq(Documents') /\ document' \in 0..Len(drafts')
          /\ cursor' \in 1..(Limit + 1) /\ runs' \in 0..MaxRuns /\ attempt' \in 0..Limit
          /\ author' \in 0..Len(drafts')
      BY <2>7, <2>8 DEF Documents
    <2>10. /\ ir' \in [draft : 0..Len(drafts'), edits : SUBSET es]
           /\ files' \in [Names -> [draft : 0..Len(drafts'), edits : SUBSET es]]
           /\ trace' \in [draft : 0..Len(drafts'), calls : Seq(1..Len(drafts'))]
           /\ review' \in [edits : SUBSET es, approved : BOOLEAN, kept : BOOLEAN]
      BY <2>7, <2>8
    <2>11. rounds' \in Seq(Rounds') /\ Len(rounds') <= attempt'
      BY <2>1, <2>2, <2>3, <2>7, <2>8
    <2>12. QED BY <2>4, <2>5, <2>6, <2>9, <2>10, <2>11
  <1>2. Control'
    BY DEF Typed, Control
  <1>3. Counting'
    BY DEF Typed, Control, Counting, Picking
  <1>4. Picking'
    BY DEF Typed, Control, Counting, Picking, Dominates, Passes, Proved, Gate
  <1>5. ASSUME Saved PROVE Saved'
    BY <1>5, SMTT(30) DEF Typed, Control, Counting, Picking, Saved, Name, Gate
  <1>6. ASSUME Saved, Traced PROVE Traced'
    BY <1>6 DEF Typed, Control, Counting, Saved, Traced
  <1>7. ASSUME Saved, Verdict PROVE Verdict'
    BY <1>7 DEF Typed, Control, Counting, Saved, Verdict
  <1>8. QED BY <1>1, <1>2, <1>3, <1>4, <1>5, <1>6, <1>7 DEF Kept

LEMMA PickRoundKeepsCourse == ASSUME NEW es, Course(es), PickRound PROVE Kept(es)
  <1> USE DEF Course, PickRound
  <1>1. Typed(es)'
    <2> USE DEF Typed
    <2>1. Rounds' = Rounds
      BY DEF Rounds
    <2>2. cursor' \in 1..(Limit + 1) /\ shipped' \in 0..Len(rounds)
      OBVIOUS
    <2>3. QED BY <2>1, <2>2
  <1>2. Control'
    BY DEF Typed, Control
  <1>3. Counting'
    BY DEF Typed, Control, Counting, Picking
  <1>4. Picking'
    <2>1. part = "pick" /\ part' = "pick" /\ rounds \in Seq(Rounds) /\ drafts \in Seq(Documents)
      BY DEF Typed, Control
    <2>2. /\ shipped \in DOMAIN rounds /\ cursor \in DOMAIN rounds
          /\ \A i \in 1..(cursor - 1) : ~Dominates(rounds[i], rounds[shipped])
          /\ shipped # Len(rounds) => Dominates(rounds[shipped], rounds[Len(rounds)])
      BY <2>1 DEF Picking
    <2>3. \A a, b : Dominates(a, b)' = Dominates(a, b)
      BY DEF Dominates, Passes, Proved, Gate
    <2>4. CASE Dominates(rounds[cursor], rounds[shipped])
      <3>1. \A i \in 1..cursor : ~Dominates(rounds[i], rounds[cursor])
        BY <2>1, <2>2, <2>4, DominatesIsAnOrder
      <3>2. cursor # Len(rounds) /\ Dominates(rounds[cursor], rounds[Len(rounds)])
        BY <2>1, <2>2, <2>4, DominatesIsAnOrder
      <3>3. QED BY <2>1, <2>2, <2>3, <2>4, <3>1, <3>2 DEF Picking
    <2>5. CASE ~Dominates(rounds[cursor], rounds[shipped])
      BY <2>1, <2>2, <2>3, <2>5 DEF Picking
    <2>6. QED BY <2>4, <2>5
  <1>5. ASSUME Saved PROVE Saved'
    BY <1>5 DEF Typed, Control, Counting, Picking, Saved, Name, Gate
  <1>6. ASSUME Saved, Traced PROVE Traced'
    BY <1>6 DEF Typed, Control, Counting, Saved, Traced
  <1>7. ASSUME Saved, Verdict PROVE Verdict'
    BY <1>7 DEF Typed, Control, Counting, Saved, Verdict
  <1>8. QED BY <1>1, <1>2, <1>3, <1>4, <1>5, <1>6, <1>7 DEF Kept

LEMMA ShipKeepsCourse == ASSUME NEW es, Course(es), Ship PROVE Kept(es)
  <1>0. /\ part = "pick" /\ shipped \in DOMAIN rounds
        /\ rounds[shipped].doc \in 1..Len(drafts)
    <2>1. part = "pick" /\ rounds \in Seq(Rounds)
      BY DEF Course, Ship, Control, Typed
    <2>2. shipped \in DOMAIN rounds
      BY <2>1 DEF Course, Picking
    <2>3. QED BY <2>1, <2>2, RoundsHaveDocuments
  <1> USE DEF Course, Ship
  <1>1. Typed(es)'
    <2> USE DEF Typed
    <2>1. Rounds' = Rounds
      BY DEF Rounds
    <2>2. document' \in 0..Len(drafts)
      BY <1>0
    <2>3. QED BY <2>1, <2>2
  <1>2. Control'
    BY DEF Typed, Control
  <1>3. Counting'
    <2>1. document' > 0
      BY <1>0 DEF Typed
    <2>2. QED BY <1>0, <2>1 DEF Typed, Counting
  <1>4. Picking'
    BY DEF Typed, Control, Counting, Picking, Dominates, Passes, Proved, Gate
  <1>5. ASSUME Saved PROVE Saved'
    BY <1>5, SMTT(30) DEF Typed, Control, Counting, Picking, Saved, Name, Gate
  <1>6. ASSUME Saved, Traced PROVE Traced'
    BY <1>6 DEF Typed, Control, Counting, Saved, Traced
  <1>7. ASSUME Saved, Verdict PROVE Verdict'
    BY <1>7 DEF Typed, Control, Counting, Saved, Verdict
  <1>8. QED BY <1>1, <1>2, <1>3, <1>4, <1>5, <1>6, <1>7 DEF Kept

LEMMA RestoreJudgeKeepsCourse == ASSUME NEW es, Course(es), RestoreJudge PROVE Kept(es)
  <1> USE DEF Course, RestoreJudge
  <1>1. Typed(es)'
    <2> USE DEF Typed
    <2>1. Rounds' = Rounds
      BY DEF Rounds
    <2>2. judge' \in [run : 0..MaxRuns, attempt : 0..Limit]
      OBVIOUS
    <2>3. QED BY <2>1, <2>2
  <1>2. Control'
    BY DEF Typed, Control
  <1>3. Counting'
    BY DEF Typed, Control, Counting, Picking
  <1>4. Picking'
    BY DEF Typed, Control, Counting, Picking, Dominates, Passes, Proved, Gate
  <1>5. ASSUME Saved PROVE Saved'
    BY <1>5 DEF Typed, Control, Counting, Picking, Saved, Name, Gate
  <1>6. ASSUME Saved, Traced PROVE Traced'
    BY <1>6 DEF Typed, Control, Counting, Saved, Traced
  <1>7. ASSUME Saved, Verdict PROVE Verdict'
    BY <1>7 DEF Typed, Control, Counting, Saved, Verdict
  <1>8. QED BY <1>1, <1>2, <1>3, <1>4, <1>5, <1>6, <1>7 DEF Kept

LEMMA SuggestCoverageKeepsCourse == ASSUME NEW es, Course(es), SuggestCoverage PROVE Kept(es)
  <1> USE DEF Course, SuggestCoverage
  <1>1. Typed(es)'
    BY DEF Typed, Counting, Rounds
  <1>2. Control'
    BY DEF Typed, Control
  <1>3. Counting'
    BY DEF Typed, Control, Counting, Picking
  <1>4. Picking'
    BY DEF Typed, Control, Counting, Picking, Dominates, Passes, Proved, Gate
  <1>5. ASSUME Saved PROVE Saved'
    BY <1>5 DEF Typed, Control, Counting, Picking, Saved, Name, Gate
  <1>6. ASSUME Saved, Traced PROVE Traced'
    BY <1>6 DEF Typed, Control, Counting, Saved, Traced
  <1>7. ASSUME Saved, Verdict PROVE Verdict'
    BY <1>7 DEF Typed, Control, Counting, Saved, Verdict
  <1>8. QED BY <1>1, <1>2, <1>3, <1>4, <1>5, <1>6, <1>7 DEF Kept

LEMMA WriteTraceKeepsCourse == ASSUME NEW es, Course(es), WriteTrace PROVE Kept(es)
  <1> USE DEF Course, WriteTrace
  <1>1. Typed(es)'
    <2> USE DEF Typed
    <2>1. Rounds' = Rounds
      BY DEF Rounds
    <2>2. trace' \in [draft : 0..Len(drafts), calls : Seq(1..Len(drafts))]
      <3>1. \A i \in DOMAIN rounds : rounds[i].doc \in 1..Len(drafts)
        BY RoundsHaveDocuments
      <3>2. DOMAIN rounds = 1..Len(rounds) /\ Len(rounds) \in Nat
        OBVIOUS
      <3>3. [i \in 1..Len(rounds) |-> rounds[i].doc]
                \in [1..Len(rounds) -> 1..Len(drafts)]
        BY <3>1, <3>2
      <3>4. [i \in 1..Len(rounds) |-> rounds[i].doc] \in Seq(1..Len(drafts))
        BY <3>2, <3>3, TupleIsASeq
      <3>5. QED BY <3>2, <3>4
    <2>3. QED BY <2>1, <2>2
  <1>2. Control'
    BY DEF Typed, Control
  <1>3. Counting'
    BY DEF Typed, Control, Counting, Picking
  <1>4. Picking'
    BY DEF Typed, Control, Counting, Picking, Dominates, Passes, Proved, Gate
  <1>5. ASSUME Saved PROVE Saved'
    BY <1>5 DEF Typed, Control, Counting, Picking, Saved, Name, Gate
  <1>6. ASSUME Saved, Traced PROVE Traced'
    BY <1>6 DEF Typed, Control, Counting, Saved, Traced
  <1>7. ASSUME Saved, Verdict PROVE Verdict'
    BY <1>7 DEF Typed, Control, Counting, Saved, Verdict
  <1>8. QED BY <1>1, <1>2, <1>3, <1>4, <1>5, <1>6, <1>7 DEF Kept

LEMMA EraseOutputKeepsCourse == ASSUME NEW es, Course(es), EraseOutput PROVE Kept(es)
  <1> USE DEF Course, EraseOutput
  <1>1. Typed(es)'
    <2> USE DEF Typed
    <2>1. Rounds' = Rounds
      BY DEF Rounds
    <2>2. files' \in [Names -> [draft : 0..Len(drafts), edits : SUBSET es]]
      <3>1. Nothing \in [draft : 0..Len(drafts), edits : SUBSET es]
        OBVIOUS
      <3>2. CASE Gate(document) = "hard"
        BY <3>1, <3>2
      <3>3. CASE Gate(document) # "hard"
        BY <3>3
      <3>4. QED BY <3>2, <3>3
    <2>3. QED BY <2>1, <2>2
  <1>2. Control'
    BY DEF Typed, Control
  <1>3. Counting'
    BY DEF Typed, Control, Counting, Picking
  <1>4. Picking'
    BY DEF Typed, Control, Counting, Picking, Dominates, Passes, Proved, Gate
  <1>5. ASSUME Saved PROVE Saved'
    BY <1>5 DEF Typed, Control, Counting, Picking, Saved, Name, Gate
  <1>6. ASSUME Saved, Traced PROVE Traced'
    BY <1>6 DEF Typed, Control, Counting, Saved, Traced
  <1>7. ASSUME Saved, Verdict PROVE Verdict'
    BY <1>7 DEF Typed, Control, Counting, Saved, Verdict
  <1>8. QED BY <1>1, <1>2, <1>3, <1>4, <1>5, <1>6, <1>7 DEF Kept

LEMMA OpenReviewKeepsCourse == ASSUME NEW es, Course(es), OpenReview PROVE Kept(es)
  <1> USE DEF Course, OpenReview
  <1>1. Typed(es)'
    BY DEF Typed, NoReview, NewReview, Rounds
  <1>2. Control'
    BY DEF Typed, Control
  <1>3. Counting'
    BY DEF Typed, Control, Counting, Picking
  <1>4. Picking'
    BY DEF Typed, Control, Counting, Picking, Dominates, Passes, Proved, Gate
  <1>5. ASSUME Saved PROVE Saved'
    BY <1>5 DEF Typed, Control, Counting, Picking, Saved, Name, Gate
  <1>6. ASSUME Saved, Traced PROVE Traced'
    BY <1>6 DEF Typed, Control, Counting, Saved, Traced
  <1>7. ASSUME Saved, Verdict PROVE Verdict'
    BY <1>7 DEF Typed, Control, Counting, Saved, Verdict
  <1>8. QED BY <1>1, <1>2, <1>3, <1>4, <1>5, <1>6, <1>7 DEF Kept

LEMMA AbortKeepsCourse == ASSUME NEW es, Course(es), Abort PROVE Kept(es)
  <1> USE DEF Course, Abort, FreshLocals
  <1>1. Typed(es)'
    BY SMTT(30) DEF Typed, Counting, Rounds
  <1>2. Control'
    BY DEF Typed, Control
  <1>3. Counting'
    BY DEF Typed, Control, Counting, Picking
  <1>4. Picking'
    BY DEF Control, Picking
  <1>5. ASSUME Saved PROVE Saved'
    BY <1>5 DEF Saved
  <1>6. ASSUME Saved, Traced PROVE Traced'
    BY <1>6 DEF Typed, Control, Counting, Saved, Traced
  <1>7. ASSUME Saved, Verdict PROVE Verdict'
    BY <1>7 DEF Typed, Control, Counting, Saved, Verdict
  <1>8. QED BY <1>1, <1>2, <1>3, <1>4, <1>5, <1>6, <1>7 DEF Kept

LEMMA InitIsFine == Init => IInv
  <1> SUFFICES ASSUME Init PROVE IInv
    OBVIOUS
  <1> USE DEF Init, NoReview
  <1>1. Typed({})
    BY DEF Typed
  <1>2. Control /\ Counting /\ Picking /\ Saved /\ Traced /\ Verdict
    BY DEF Control, Counting, Picking, Saved, Traced, Verdict
  <1>3. QED BY <1>1, <1>2 DEF IInv, Course

LEMMA StepKeepsCourse ==
  ASSUME NEW es, Course(es), StartRun \/ PipelineStep \/ Abort PROVE Kept(es)
  <1>1. CASE StartRun BY <1>1, StartRunKeepsCourse
  <1>2. CASE Round
    BY <1>2, WriteDocumentKeepsCourse, RefuseRevisionKeepsCourse, ReviseKeepsCourse,
       EndRoundsKeepsCourse DEF Round
  <1>3. CASE Write
    BY <1>3, SaveAuthorKeepsCourse, SaveIRKeepsCourse, ClearStaleKeepsCourse,
       WriteFeatureKeepsCourse DEF Write
  <1>4. CASE Close
    BY <1>4, PickRoundKeepsCourse, ShipKeepsCourse, RestoreJudgeKeepsCourse,
       SuggestCoverageKeepsCourse, WriteTraceKeepsCourse, EraseOutputKeepsCourse,
       OpenReviewKeepsCourse DEF Close
  <1>5. CASE Abort BY <1>5, AbortKeepsCourse
  <1>6. QED BY <1>1, <1>2, <1>3, <1>4, <1>5 DEF PipelineStep

\* The course of a run when it does not take a step, whoever changes its files.
LEMMA CourseStays ==
  ASSUME NEW es, Course(es), UNCHANGED <<localVars, drafts, runs>>, Typed(es)'
  PROVE  Course(es)'
  BY DEF Course, Control, Counting, Picking, Dominates, Passes, Proved, Gate

LEMMA NextKeepsIInv == IInv /\ [PipelineNext]_pipelineVars => IInv'
  <1> SUFFICES ASSUME IInv, [PipelineNext]_pipelineVars PROVE IInv'
    OBVIOUS
  <1>1. CASE PipelineNext
    <2>1. Kept({})
      BY <1>1, StepKeepsCourse DEF IInv, PipelineNext
    <2>2. QED BY <2>1 DEF IInv, Kept
  <1>2. CASE UNCHANGED pipelineVars
    <2> USE <1>2 DEF pipelineVars, IInv
    <2>1. Typed({})'
      BY DEF Course, Typed, Rounds, Documents
    <2>2. Course({})'
      BY <2>1, CourseStays
    <2>3. Saved' /\ Traced' /\ Verdict'
      BY DEF Saved, Name, Gate, Traced, Verdict
    <2>4. QED BY <2>2, <2>3
  <1>3. QED BY <1>1, <1>2

\* The invariant holds of every run, whatever the options and the bounds.
THEOREM RunInvariant == PipelineSpec => []IInv
  BY InitIsFine, NextKeepsIInv, PTL DEF PipelineSpec

\* The variables of a run keep their types.
THEOREM RunTypeCorrect == PipelineSpec => []TypeOK
  <1>1. IInv => TypeOK BY DEF IInv, Course, TypeOK
  <1>2. QED BY <1>1, RunInvariant, PTL

\* A run that has ended well leaves the files of the round it shipped and no
\* others, whatever an earlier or an aborted run left there.
THEOREM FilesAreOfOneRound == PipelineSpec => []FilesOfOneRound
  <1>1. IInv => FilesOfOneRound
    BY DEF IInv, Course, Typed, Control, Counting, Saved, Traced, FilesOfOneRound
  <1>2. QED BY <1>1, RunInvariant, PTL

\* A run that has ended well leaves no feature file of a document that failed hard.
THEOREM NoFeatureAfterHardFailure == PipelineSpec => []HardFailureLeavesNoFeature
  <1>1. IInv => HardFailureLeavesNoFeature
    BY DEF IInv, Course, Typed, Saved, HardFailureLeavesNoFeature
  <1>2. QED BY <1>1, RunInvariant, PTL

---------------------------------------------------------------------------

(***************************************************************************)
(* The inductive invariant.                                                *)
(***************************************************************************)

\* What a request has loaded, by how far it is.
Requested ==
    /\ \A q \in Requests :
           /\ req[q] \in Closed => held[q] = Nothing /\ ~calm[q]
           /\ req[q] \notin Closed => held[q].draft # 0
           /\ req[q] \in Saving => kind[q] # "export" /\ seen[q].kept
    /\ ~review.kept => review.edits = {}

\* Before the first run there is nothing to ask for.
Unopened ==
    at = "idle" =>
        /\ ir = Nothing /\ files = [n \in Names |-> Nothing] /\ trace.draft = 0 /\ ~review.kept
        /\ ~crossed /\ ~touched /\ exported = {}
        /\ \A q \in Requests : req[q] \in Closed

\* As long as nothing was saved, the files are the run's, and nobody is about to
\* write more than the IR.
Untouched ==
    ~touched => /\ Saved /\ Traced
                /\ \A q \in Requests : req[q] \notin {"saved", "recorded"}

\* In a first run, an edit that was not loaded during the run is one of the document
\* the run has left, and so is a calm export.
Over == at \in {"done", "failed"}
FirstRun ==
    runs <= 1 =>
        /\ ~crossed =>
               /\ Verdict /\ (at \notin Resting => ~touched)
               /\ \A q \in Editing : Over /\ held[q].draft = ir.draft
        /\ \A q \in Requests : calm[q] => ~crossed /\ Over /\ held[q].draft = ir.draft

\* A feature file of this document, and no other.
Shown(doc) ==
    \A n \in Names : /\ files[n] \in {Nothing, doc}
                     /\ n # Name(doc.draft) => files[n] = Nothing

\* How far the edit q has changed the directory.
Progress(q) ==
    /\ req[q] \in {"loaded", "applied"} =>
           held[q] = ir /\ review.edits = ir.edits /\ Shown(ir)
    /\ req[q] = "applied" => seen[q].edits = ir.edits
    /\ req[q] \in {"saved", "recorded"} => ir = Edited(q) /\ Shown(held[q])
    /\ req[q] = "saved" => seen[q].edits = held[q].edits
    /\ req[q] = "recorded" => review.edits = ir.edits

\* Edits that do not meet anybody come one at a time, after a run that ended well.
OneAtATime ==
    ~disturbed =>
        /\ at # "failed" /\ (at \notin Resting => ~touched /\ Editing = {})
        /\ \A q, r \in Editing : q = r
        /\ \A q \in Editing : Progress(q)
        /\ at = "done" /\ Editing = {} => review.edits = ir.edits /\ Shown(ir)

DeskInv ==
    /\ DeskTypeOK /\ Course(Requests)
    /\ Requested /\ Unopened /\ Untouched /\ FirstRun /\ OneAtATime /\ CalmExportsAreCleared

-----------------------------------------------------------------------------
(***************************************************************************)
(* What a step of a request leaves alone.                                  *)
(***************************************************************************)
USE DEF localVars, dirVars, Closed, Saving, Kinds, Over

\* The requests but q are where they were.
Others(q) ==
    \A r \in Requests \ {q} :
        /\ req'[r] = req[r] /\ kind'[r] = kind[r]
        /\ held'[r] = held[r] /\ seen'[r] = seen[r] /\ calm'[r] = calm[r]

\* The pipeline takes a step only in a run.
LEMMA StepIsAtWork == ASSUME PipelineStep PROVE at \notin Resting
  <1>1. Round => at \in {"author", "judge"}
    BY DEF Round, WriteDocument, RefuseRevision, Revise, EndRounds, CompleteRound
  <1>2. Write => at \in {"author.json", "ir.json", "clear", "feature"}
    BY DEF Write, SaveAuthor, SaveIR, ClearStale, WriteFeature
  <1>3. Close => at \in {"pick", "judge.json", "coverage", "trace", "erase", "review"}
    BY DEF Close, PickRound, Ship, RestoreJudge, SuggestCoverage, WriteTrace, EraseOutput,
           OpenReview
  <1>4. QED BY <1>1, <1>2, <1>3 DEF PipelineStep, Resting

\* A step that leaves the directory alone.
LEMMA DirectoryStays ==
  ASSUME UNCHANGED pipelineVars
  PROVE  /\ UNCHANGED <<at, runs, drafts, ir, files, trace, review>>
         /\ Course(Requests) => Course(Requests)'
         /\ Saved => Saved'
         /\ Traced => Traced'
         /\ Verdict => Verdict'
         /\ \A d : Gate(d)' = Gate(d)
         /\ \A d : Shown(d) => Shown(d)'
  <1> USE DEF pipelineVars
  <1>1. UNCHANGED <<at, runs, drafts, ir, files, trace, review>>
    OBVIOUS
  <1>2. Typed(Requests) => Typed(Requests)'
    BY DEF Typed, Rounds, Documents
  <1>3. Course(Requests) => Course(Requests)'
    BY <1>2, CourseStays DEF Course
  <1>4. Saved => Saved'
    BY DEF Saved, Name, Gate
  <1>5. (Traced => Traced') /\ (Verdict => Verdict')
    BY DEF Traced, Verdict
  <1>6. (\A d : Gate(d)' = Gate(d)) /\ (\A d : Shown(d) => Shown(d)')
    BY <1>1 DEF Gate, Shown, Name
  <1>7. QED BY <1>1, <1>3, <1>4, <1>5, <1>6

LEMMA OthersStay ==
  ASSUME NEW q \in Requests, UNCHANGED pipelineVars, Others(q)
  PROVE  \A r \in Requests \ {q} :
            /\ r \in Editing' <=> r \in Editing
            /\ Progress(r) => Progress(r)'
  <1> SUFFICES ASSUME NEW r \in Requests \ {q}
               PROVE  (r \in Editing' <=> r \in Editing) /\ (Progress(r) => Progress(r)')
    OBVIOUS
  <1>1. r \in Editing' <=> r \in Editing
    BY DEF Others, Editing
  <1>2. Edited(r)' = Edited(r)
    BY DEF Others, Edited
  <1>3. UNCHANGED <<ir, review, files>> /\ \A d : Shown(d) => Shown(d)'
    BY DirectoryStays
  <1>4. UNCHANGED <<req[r], held[r], seen[r]>>
    BY DEF Others
  <1>5. Progress(r) => Progress(r)'
    BY <1>2, <1>3, <1>4 DEF Progress
  <1>6. QED BY <1>1, <1>5

\* A step of the request q that leaves the directory alone keeps the invariant when
\* it does for q.
LEMMA RequestMoves ==
  ASSUME DeskInv, NEW q \in Requests, UNCHANGED pipelineVars, Others(q), touched' = touched,
         DeskTypeOK', CalmExportsAreCleared',
         req'[q] \in Closed => held'[q] = Nothing /\ ~calm'[q],
         req'[q] \notin Closed => held'[q].draft # 0 /\ at # "idle",
         req'[q] \in Saving => kind'[q] # "export" /\ seen'[q].kept,
         req'[q] \notin {"saved", "recorded"},
         at = "idle" => exported' = {},
         crossed => crossed', crossed' => crossed \/ at \notin Resting,
         runs <= 1 /\ ((q \in Editing' /\ ~crossed') \/ calm'[q]) =>
             ~crossed' /\ Over /\ held'[q].draft = ir.draft,
         disturbed => disturbed',
         ~disturbed' /\ q \in Editing' => Editing \subseteq {q} /\ at = "done" /\ Progress(q)',
         ~disturbed' /\ q \notin Editing' /\ q \in Editing /\ at = "done" =>
             review.edits = ir.edits /\ Shown(ir)
  PROVE  DeskInv'
  <1> USE DEF DeskInv
  <1>1. /\ UNCHANGED <<at, runs, drafts, ir, files, trace, review>>
        /\ Course(Requests)'
        /\ Saved => Saved'
        /\ Traced => Traced'
        /\ Verdict => Verdict'
        /\ \A d : Shown(d) => Shown(d)'
    BY DirectoryStays
  <1>2. \A r \in Requests \ {q} : /\ r \in Editing' <=> r \in Editing
                                  /\ Progress(r) => Progress(r)'
    BY OthersStay
  <1>3. \A r \in Requests \ {q} :
           /\ req'[r] = req[r] /\ kind'[r] = kind[r]
           /\ held'[r] = held[r] /\ seen'[r] = seen[r] /\ calm'[r] = calm[r]
    BY DEF Others
  <1>4. Editing \subseteq Requests /\ Editing' \subseteq Requests
    BY DEF Editing
  <1>5. Requested'
    BY <1>1, <1>3 DEF Requested
  <1>6. Unopened'
    BY <1>1, <1>3 DEF Unopened, Resting
  <1>7. Untouched'
    BY <1>1, <1>3 DEF Untouched
  <1>8. FirstRun'
    <2>1. ASSUME runs <= 1, ~crossed'
          PROVE  Verdict' /\ (at' \notin Resting => ~touched')
      <3>1. Verdict /\ (at \notin Resting => ~touched)
        BY <2>1 DEF FirstRun
      <3>2. QED BY <1>1, <3>1
    <2>2. ASSUME runs <= 1, ~crossed', NEW r \in Editing'
          PROVE  Over' /\ held'[r].draft = ir'.draft
      BY <1>1, <1>2, <1>3, <1>4, <2>2 DEF FirstRun
    <2>3. ASSUME runs <= 1, NEW r \in Requests, calm'[r]
          PROVE  ~crossed' /\ Over' /\ held'[r].draft = ir'.draft
      BY <1>1, <1>3, <2>3 DEF FirstRun, Resting
    <2>4. QED BY <1>1, <2>1, <2>2, <2>3 DEF FirstRun
  <1>9. OneAtATime'
    <2> SUFFICES ASSUME ~disturbed' PROVE OneAtATime'
      BY DEF OneAtATime
    <2>1. ~disturbed
      OBVIOUS
    <2>2. at' # "failed" /\ (at' \notin Resting => ~touched' /\ Editing' = {})
      BY <1>1, <1>2, <1>4, <2>1 DEF OneAtATime, Resting
    <2>3. \A r, t \in Editing' : r = t
      BY <1>2, <1>4, <2>1 DEF OneAtATime
    <2>4. \A r \in Editing' : Progress(r)'
      BY <1>2, <1>4, <2>1 DEF OneAtATime
    <2>5. at' = "done" /\ Editing' = {} => review'.edits = ir'.edits /\ Shown(ir)'
      <3>1. SUFFICES ASSUME at = "done", Editing' = {} PROVE review.edits = ir.edits /\ Shown(ir)
        BY <1>1
      <3>2. Editing \subseteq {q}
        BY <1>2, <1>4, <3>1
      <3>3. CASE Editing = {}
        BY <2>1, <3>1, <3>3 DEF OneAtATime
      <3>4. CASE q \in Editing
        BY <3>1, <3>4
      <3>5. QED BY <3>2, <3>3, <3>4
    <2>6. QED BY <2>2, <2>3, <2>4, <2>5 DEF OneAtATime
  <1>10. QED BY <1>1, <1>5, <1>6, <1>7, <1>8, <1>9

\* A request that ends.
LEMMA RequestEnds ==
  ASSUME DeskTypeOK, NEW q \in Requests, NEW how \in {"done", "over"}, EndRequest(q, how),
         UNCHANGED drafts
  PROVE  /\ Others(q) /\ req'[q] = how /\ held'[q] = Nothing /\ ~calm'[q]
         /\ req' \in [Requests -> Closed \cup Saving \cup {"loaded"}]
         /\ kind' \in [Requests -> Kinds]
         /\ held' \in [Requests -> [draft : 0..Len(drafts'), edits : SUBSET Requests]]
         /\ seen' \in [Requests -> [edits : SUBSET Requests, approved : BOOLEAN,
                                    kept : BOOLEAN]]
         /\ calm' \in [Requests -> BOOLEAN]
         /\ q \notin Editing'
  <1> USE DEF DeskTypeOK, EndRequest
  <1>1. Others(q)
    BY DEF Others
  <1>2. req'[q] = how /\ held'[q] = Nothing /\ ~calm'[q] /\ q \notin Editing'
    BY DEF Editing
  <1>3. Nothing \in [draft : 0..Len(drafts), edits : SUBSET Requests]
    <2>1. Len(drafts) \in Nat
      BY DEF Typed
    <2>2. QED BY <2>1 DEF Nothing, Plain
  <1>4. NoReview \in [edits : SUBSET Requests, approved : BOOLEAN, kept : BOOLEAN]
    BY DEF NoReview
  <1>5. req' \in [Requests -> Closed \cup Saving \cup {"loaded"}] /\ kind' \in [Requests -> Kinds]
        /\ calm' \in [Requests -> BOOLEAN]
    OBVIOUS
  <1>6. held' \in [Requests -> [draft : 0..Len(drafts'), edits : SUBSET Requests]]
    BY <1>3
  <1>7. seen' \in [Requests -> [edits : SUBSET Requests, approved : BOOLEAN, kept : BOOLEAN]]
    BY <1>4
  <1>8. QED BY <1>1, <1>2, <1>5, <1>6, <1>7

LEMMA TypedStays == ASSUME DeskTypeOK, UNCHANGED pipelineVars PROVE Typed(Requests)'
  BY DEF DeskTypeOK, Typed, pipelineVars, Rounds, Documents

\* ir.json is loaded: what an edit begins with is the document as the last run left
\* it, if no run is going on.
LEMMA LoadIRKeepsDeskInv == ASSUME DeskInv, NEW q \in Requests, LoadIR(q) PROVE DeskInv'
  <1> USE DEF LoadIR
  <1>1. DeskTypeOK /\ UNCHANGED pipelineVars
    BY DEF DeskInv
  <1>2. PICK k \in Kinds :
           /\ kind' = [kind EXCEPT ![q] = k]
           /\ crossed' = (crossed \/ (k # "export" /\ at \notin Resting))
           /\ disturbed' = (disturbed \/ (k # "export" /\ (Editing # {} \/ at \notin Resting)))
    OBVIOUS
  <1>3. ir \in [draft : 0..Len(drafts), edits : SUBSET Requests] /\ UNCHANGED drafts
    BY <1>1 DEF DeskTypeOK, Typed, pipelineVars
  <1>4. DeskTypeOK'
    <2> USE <1>1, <1>2, <1>3 DEF DeskTypeOK
    <2>1. Typed(Requests)'
      BY TypedStays
    <2>2. req' \in [Requests -> Closed \cup Saving \cup {"loaded"}] /\ kind' \in [Requests -> Kinds]
          /\ calm' \in [Requests -> BOOLEAN]
      OBVIOUS
    <2>3. held' \in [Requests -> [draft : 0..Len(drafts'), edits : SUBSET Requests]]
      OBVIOUS
    <2>4. UNCHANGED <<seen, exported, touched>> /\ crossed' \in BOOLEAN /\ disturbed' \in BOOLEAN
      OBVIOUS
    <2>5. QED BY <2>1, <2>2, <2>3, <2>4
  <1>5. Others(q)
    BY <1>1, <1>2 DEF DeskTypeOK, Others
  <1>6. /\ req[q] = "none" /\ req'[q] = "loaded" /\ kind'[q] = k /\ held'[q] = ir
        /\ calm'[q] = (at \in Resting /\ ~crossed) /\ ir.draft # 0
        /\ UNCHANGED <<touched, exported>>
    BY <1>1, <1>2 DEF DeskTypeOK
  <1>7. at # "idle"
    BY <1>6 DEF DeskInv, Unopened, Nothing, Plain
  <1>8. CalmExportsAreCleared'
    BY <1>1, <1>6, DirectoryStays DEF DeskInv, CalmExportsAreCleared
  <1>9. runs <= 1 /\ ((q \in Editing' /\ ~crossed') \/ calm'[q]) =>
             ~crossed' /\ Over /\ held'[q].draft = ir.draft
    BY <1>2, <1>6, <1>7 DEF Editing, Resting
  <1>10. q \in Editing' <=> k # "export"
    BY <1>6 DEF Editing
  <1>11. q \notin Editing
    BY <1>6 DEF Editing
  <1>12. ~disturbed' /\ q \in Editing' => Editing \subseteq {q} /\ at = "done" /\ Progress(q)'
    <2> SUFFICES ASSUME ~disturbed', q \in Editing'
                 PROVE  Editing \subseteq {q} /\ at = "done" /\ Progress(q)'
      OBVIOUS
    <2>1. ~disturbed /\ Editing = {} /\ at \in Resting
      BY <1>2, <1>10
    <2>2. at = "done"
      BY <1>7, <2>1 DEF DeskInv, OneAtATime, Resting
    <2>3. review.edits = ir.edits /\ Shown(ir)
      BY <2>1, <2>2 DEF DeskInv, OneAtATime
    <2>4. review' = review /\ ir' = ir /\ Shown(ir)'
      BY <1>1, <2>3, DirectoryStays
    <2>5. QED BY <1>6, <2>1, <2>2, <2>3, <2>4 DEF Progress
  <1>13. (crossed => crossed') /\ (crossed' => crossed \/ at \notin Resting) /\ (disturbed => disturbed')
    BY <1>2
  <1> HIDE DEF LoadIR
  <1>14. QED BY <1>1, <1>4, <1>5, <1>6, <1>7, <1>8, <1>9, <1>11, <1>12, <1>13, RequestMoves

LEMMA LoadReviewKeepsDeskInv == ASSUME DeskInv, NEW q \in Requests, LoadReview(q) PROVE DeskInv'
  <1> USE DEF LoadReview
  <1> DEFINE found == IF review.kept THEN review ELSE NewReview
  <1>1. DeskTypeOK /\ UNCHANGED pipelineVars
    BY DEF DeskInv
  <1>2. found \in [edits : SUBSET Requests, approved : BOOLEAN, kept : BOOLEAN] /\ found.kept
        /\ found.edits = review.edits
    <2>1. review \in [edits : SUBSET Requests, approved : BOOLEAN, kept : BOOLEAN]
      BY <1>1 DEF DeskTypeOK, Typed
    <2>2. /\ NewReview \in [edits : SUBSET Requests, approved : BOOLEAN, kept : BOOLEAN]
          /\ NewReview.kept /\ NewReview.edits = {}
      BY DEF NewReview, NoReview
    <2>3. ~review.kept => review.edits = {}
      BY DEF DeskInv, Requested
    <2>4. CASE review.kept
      BY <2>1, <2>4
    <2>5. CASE ~review.kept
      <3>1. found = NewReview /\ review.edits = {}
        BY <2>3, <2>5
      <3>2. QED BY <2>2, <3>1
    <2>6. QED BY <2>4, <2>5
  <1>3. seen' = [seen EXCEPT ![q] = found] /\ req' = [req EXCEPT ![q] = "applied"]
        /\ UNCHANGED <<kind, held, calm, exported, touched, crossed, disturbed>>
        /\ req[q] = "loaded" /\ kind[q] # "export"
    BY DEF deskHistory
  <1> HIDE DEF LoadReview, found
  <1>4. DeskTypeOK'
    <2> USE <1>1, <1>2, <1>3 DEF DeskTypeOK
    <2>1. Typed(Requests)'
      BY TypedStays
    <2>2. req' \in [Requests -> Closed \cup Saving \cup {"loaded"}]
      OBVIOUS
    <2>3. seen' \in [Requests -> [edits : SUBSET Requests, approved : BOOLEAN, kept : BOOLEAN]]
      OBVIOUS
    <2>4. drafts' = drafts
      BY DEF pipelineVars
    <2>5. QED BY <2>1, <2>2, <2>3, <2>4
  <1>5. Others(q) /\ req'[q] = "applied" /\ seen'[q] = found
    BY <1>1, <1>3 DEF DeskTypeOK, Others
  <1>6. CalmExportsAreCleared'
    BY <1>1, <1>3, DirectoryStays DEF DeskInv, CalmExportsAreCleared
  <1>7. held[q].draft # 0 /\ at # "idle" /\ q \in Editing /\ q \in Editing'
    BY <1>3, <1>5 DEF DeskInv, Requested, Unopened, Editing
  <1>8. runs <= 1 /\ (~crossed \/ calm[q]) => ~crossed /\ Over /\ held[q].draft = ir.draft
    BY <1>7 DEF DeskInv, FirstRun
  <1>9. ~disturbed => Editing \subseteq {q} /\ at = "done" /\ Progress(q)'
    <2> SUFFICES ASSUME ~disturbed PROVE Editing \subseteq {q} /\ at = "done" /\ Progress(q)'
      OBVIOUS
    <2>1. Editing \subseteq {q} /\ at = "done" /\ Progress(q)
      BY <1>7 DEF DeskInv, OneAtATime, Resting
    <2>2. held[q] = ir /\ review.edits = ir.edits /\ Shown(ir)
      BY <1>3, <2>1 DEF Progress
    <2>3. review' = review /\ ir' = ir /\ Shown(ir)'
      BY <1>1, <2>2, DirectoryStays
    <2>4. QED BY <1>2, <1>3, <1>5, <2>1, <2>2, <2>3 DEF Progress
  <1>10. at = "idle" => exported' = {}
    BY <1>7
  <1>11. QED BY <1>1, <1>2, <1>3, <1>4, <1>5, <1>6, <1>7, <1>8, <1>9, RequestMoves

\* A request that is refused, or fails half way.
LEMMA RefuseEditKeepsDeskInv == ASSUME DeskInv, NEW q \in Requests, RefuseEdit(q) PROVE DeskInv'
  <1>1. /\ DeskTypeOK /\ UNCHANGED pipelineVars /\ UNCHANGED drafts
        /\ EndRequest(q, "over") /\ UNCHANGED <<exported, touched, crossed, disturbed>>
        /\ req[q] = "loaded" /\ kind[q] = "edit"
    BY DEF DeskInv, RefuseEdit, deskHistory, pipelineVars
  <1>2. /\ Others(q) /\ req'[q] = "over" /\ held'[q] = Nothing /\ ~calm'[q]
        /\ q \notin Editing'
    BY <1>1, RequestEnds
  <1>3. DeskTypeOK'
    <2>1. Typed(Requests)'
      BY <1>1, TypedStays
    <2>2. QED BY <1>1, <2>1, RequestEnds DEF DeskTypeOK
  <1>4. CalmExportsAreCleared'
    BY <1>1, DirectoryStays DEF DeskInv, CalmExportsAreCleared
  <1>5. q \in Editing
    BY <1>1 DEF Editing
  <1>6. ~disturbed /\ at = "done" => review.edits = ir.edits /\ Shown(ir)
    BY <1>1, <1>5 DEF DeskInv, OneAtATime, Progress
  <1>7. at = "idle" => exported' = {}
    BY <1>1, <1>2 DEF DeskInv, Unopened
  <1>8. QED BY <1>1, <1>2, <1>3, <1>4, <1>5, <1>6, <1>7, RequestMoves

LEMMA RefuseExportKeepsDeskInv == ASSUME DeskInv, NEW q \in Requests, RefuseExport(q) PROVE DeskInv'
  <1>1. /\ DeskTypeOK /\ UNCHANGED pipelineVars /\ UNCHANGED drafts
        /\ EndRequest(q, "over") /\ UNCHANGED <<exported, touched, crossed, disturbed>>
        /\ kind[q] = "export"
    BY DEF DeskInv, RefuseExport, deskHistory, pipelineVars
  <1>2. /\ Others(q) /\ req'[q] = "over" /\ held'[q] = Nothing /\ ~calm'[q]
        /\ q \notin Editing'
    BY <1>1, RequestEnds
  <1>3. DeskTypeOK'
    <2>1. Typed(Requests)'
      BY <1>1, TypedStays
    <2>2. QED BY <1>1, <2>1, RequestEnds DEF DeskTypeOK
  <1>4. CalmExportsAreCleared'
    BY <1>1, DirectoryStays DEF DeskInv, CalmExportsAreCleared
  <1>5. q \notin Editing
    BY <1>1 DEF Editing
  <1>6. at = "idle" => exported' = {}
    BY <1>1, <1>2 DEF DeskInv, Unopened
  <1>7. QED BY <1>1, <1>2, <1>3, <1>4, <1>5, <1>6, RequestMoves

LEMMA FailRequestKeepsDeskInv == ASSUME DeskInv, NEW q \in Requests, FailRequest(q) PROVE DeskInv'
  <1>1. /\ DeskTypeOK /\ UNCHANGED pipelineVars /\ UNCHANGED drafts
        /\ EndRequest(q, "over") /\ UNCHANGED <<exported, touched, crossed>>
        /\ disturbed' = TRUE
    BY DEF DeskInv, FailRequest, deskHistory, pipelineVars
  <1>2. /\ Others(q) /\ req'[q] = "over" /\ held'[q] = Nothing /\ ~calm'[q]
        /\ q \notin Editing'
    BY <1>1, RequestEnds
  <1>3. DeskTypeOK'
    <2>1. Typed(Requests)'
      BY <1>1, TypedStays
    <2>2. QED BY <1>1, <2>1, RequestEnds DEF DeskTypeOK
  <1>4. CalmExportsAreCleared'
    BY <1>1, DirectoryStays DEF DeskInv, CalmExportsAreCleared
  <1>5. at = "idle" => exported' = {}
    BY <1>1, <1>2 DEF DeskInv, Unopened
  <1>6. QED BY <1>1, <1>2, <1>3, <1>4, <1>5, RequestMoves

\* An export that was calm is of the document the trace has a verdict on.
LEMMA ExportKeepsDeskInv == ASSUME DeskInv, NEW q \in Requests, Export(q) PROVE DeskInv'
  <1>1. /\ DeskTypeOK /\ UNCHANGED pipelineVars /\ UNCHANGED drafts
        /\ EndRequest(q, "done") /\ UNCHANGED <<touched, crossed, disturbed>>
        /\ req[q] = "loaded" /\ kind[q] = "export" /\ ~HardFailed
        /\ exported' = exported \cup {[draft |-> held[q].draft, calm |-> calm[q], runs |-> runs]}
    BY DEF DeskInv, Export, deskHistory, pipelineVars
  <1>2. /\ Others(q) /\ req'[q] = "done" /\ held'[q] = Nothing /\ ~calm'[q]
        /\ q \notin Editing'
    BY <1>1, RequestEnds
  <1>3. DeskTypeOK'
    <2>1. Typed(Requests)'
      BY <1>1, TypedStays
    <2>2. held[q].draft \in 1..Len(drafts)
      <3>1. held[q].draft # 0
        BY <1>1 DEF DeskInv, Requested
      <3>2. held[q] \in [draft : 0..Len(drafts), edits : SUBSET Requests]
        BY <1>1 DEF DeskTypeOK
      <3>3. Len(drafts) \in Nat
        BY <1>1 DEF DeskTypeOK, Typed
      <3>4. QED BY <3>1, <3>2, <3>3
    <2>3. calm[q] \in BOOLEAN /\ runs \in 0..MaxRuns
      <3>1. calm \in [Requests -> BOOLEAN]
        BY <1>1 DEF DeskTypeOK
      <3>2. runs \in 0..MaxRuns
        BY <1>1 DEF DeskTypeOK, Typed
      <3>3. QED BY <3>1, <3>2
    <2>4. [draft |-> held[q].draft, calm |-> calm[q], runs |-> runs]
              \in [draft : 1..Len(drafts'), calm : BOOLEAN, runs : 0..MaxRuns]
      BY <1>1, <2>2, <2>3
    <2>5. exported' \subseteq [draft : 1..Len(drafts'), calm : BOOLEAN, runs : 0..MaxRuns]
      BY <1>1, <2>4 DEF DeskTypeOK
    <2>6. QED BY <1>1, <2>1, <2>5, RequestEnds DEF DeskTypeOK
  <1>4. CalmExportsAreCleared'
    <2>1. trace.draft # 0 /\ Gate(trace.draft) # "hard"
      BY <1>1 DEF HardFailed
    <2>2. ASSUME calm[q], runs <= 1 PROVE Gate(held[q].draft) # "hard"
      <3>1. ~crossed /\ held[q].draft = ir.draft
        BY <2>2 DEF DeskInv, FirstRun
      <3>2. Verdict
        BY <2>2, <3>1 DEF DeskInv, FirstRun
      <3>3. QED BY <2>1, <2>2, <3>1, <3>2 DEF Verdict
    <2>3. \A e \in exported : e.calm /\ e.runs <= 1 => Gate(e.draft) # "hard"
      BY DEF DeskInv, CalmExportsAreCleared
    <2>4. \A d : Gate(d)' = Gate(d)
      BY <1>1, DirectoryStays
    <2>5. QED BY <1>1, <2>2, <2>3, <2>4 DEF CalmExportsAreCleared
  <1>5. q \notin Editing
    BY <1>1 DEF Editing
  <1>6. at = "idle" => exported' = {}
    BY <1>1, <1>2 DEF DeskInv, Unopened
  <1>7. QED BY <1>1, <1>2, <1>3, <1>4, <1>5, <1>6, RequestMoves

\* The document an edit makes of the one it has loaded, and its record.
LEMMA EditedDocument ==
  ASSUME DeskInv, NEW q \in Requests
  PROVE  /\ held[q] \in [draft : 0..Len(drafts), edits : SUBSET Requests]
         /\ Edited(q) \in [draft : 0..Len(drafts), edits : SUBSET Requests]
         /\ Recorded(q) \in [edits : SUBSET Requests, approved : BOOLEAN, kept : BOOLEAN]
         /\ Edited(q).draft = held[q].draft /\ Recorded(q).kept = seen[q].kept
         /\ seen[q].edits = held[q].edits => Recorded(q).edits = Edited(q).edits
  <1>1. /\ held[q] \in [draft : 0..Len(drafts), edits : SUBSET Requests]
        /\ seen[q] \in [edits : SUBSET Requests, approved : BOOLEAN, kept : BOOLEAN]
    BY DEF DeskInv, DeskTypeOK
  <1>2. CASE kind[q] = "edit"
    BY <1>1, <1>2 DEF Edited, Recorded
  <1>3. CASE kind[q] # "edit"
    BY <1>1, <1>3 DEF Edited, Recorded
  <1>4. QED BY <1>2, <1>3

\* The IR is on disk and nothing else yet.
LEMMA SaveEditedIRKeepsDeskInv == ASSUME DeskInv, NEW q \in Requests, SaveEditedIR(q) PROVE DeskInv'
  <1>1. /\ req[q] = "applied" /\ req' = [req EXCEPT ![q] = "saved"] /\ ir' = Edited(q)
        /\ touched' = TRUE
        /\ UNCHANGED <<localVars, drafts, runs>>
        /\ UNCHANGED <<at, author, files, judge, trace, review>>
        /\ UNCHANGED <<kind, held, seen, calm, exported, disturbed, crossed>>
    BY DEF SaveEditedIR
  <1>2. /\ Edited(q) \in [draft : 0..Len(drafts), edits : SUBSET Requests]
        /\ ir'.draft = held[q].draft
    BY <1>1, EditedDocument
  <1>3. Typed(Requests)'
    BY <1>1, <1>2 DEF DeskInv, DeskTypeOK, Typed, Rounds, Documents
  <1>4. Course(Requests)'
    BY <1>1, <1>3, CourseStays DEF DeskInv
  <1>5. DeskTypeOK'
    <2> USE <1>1 DEF DeskInv, DeskTypeOK
    <2>1. req' \in [Requests -> Closed \cup Saving \cup {"loaded"}]
      OBVIOUS
    <2>2. QED BY <1>3, <2>1
  <1>6. /\ req'[q] = "saved"
        /\ \A r \in Requests \ {q} : req'[r] = req[r]
        /\ Editing' = Editing /\ q \in Editing /\ at # "idle"
    BY <1>1 DEF DeskInv, DeskTypeOK, Requested, Unopened, Editing
  <1>7. Requested' /\ Unopened' /\ Untouched' /\ CalmExportsAreCleared'
    BY <1>1, <1>6 DEF DeskInv, Requested, Unopened, Untouched, CalmExportsAreCleared, Gate
  <1>8. FirstRun'
    <2>1. runs <= 1 /\ ~crossed => Over /\ ir'.draft = ir.draft
      BY <1>2, <1>6 DEF DeskInv, FirstRun
    <2>2. \A r \in Requests : runs <= 1 /\ calm[r] => ~crossed /\ Over /\ held[r].draft = ir.draft
      BY DEF DeskInv, FirstRun
    <2>3. runs <= 1 /\ ~crossed => /\ Verdict
                                   /\ \A r \in Editing : held[r].draft = ir.draft
      BY DEF DeskInv, FirstRun
    <2>4. QED BY <1>1, <1>6, <2>1, <2>2, <2>3 DEF FirstRun, Verdict, Resting
  <1>9. OneAtATime'
    <2> SUFFICES ASSUME ~disturbed PROVE OneAtATime'
      BY <1>1 DEF OneAtATime
    <2>1. Editing = {q} /\ at = "done" /\ Progress(q)
      BY <1>6 DEF DeskInv, OneAtATime, Resting
    <2>2. held[q] = ir /\ Shown(ir) /\ seen[q].edits = ir.edits
      BY <1>1, <2>1 DEF Progress
    <2>3. Shown(held[q])' /\ Edited(q)' = Edited(q)
      BY <1>1, <2>2 DEF Shown, Edited, Name
    <2>4. Progress(q)'
      BY <1>1, <1>6, <2>2, <2>3 DEF Progress
    <2>5. QED BY <1>1, <1>6, <2>1, <2>4 DEF OneAtATime, Resting
  <1>10. QED BY <1>4, <1>5, <1>7, <1>8, <1>9 DEF DeskInv

\* The record follows.
LEMMA SaveReviewKeepsDeskInv == ASSUME DeskInv, NEW q \in Requests, SaveReview(q) PROVE DeskInv'
  <1>1. /\ req[q] = "saved" /\ req' = [req EXCEPT ![q] = "recorded"] /\ review' = Recorded(q)
        /\ UNCHANGED <<localVars, drafts, runs>>
        /\ UNCHANGED <<at, author, ir, files, judge, trace>>
        /\ UNCHANGED <<kind, held, seen, calm, exported, touched, disturbed, crossed>>
    BY DEF SaveReview, deskHistory
  <1>2. /\ Recorded(q) \in [edits : SUBSET Requests, approved : BOOLEAN, kept : BOOLEAN]
        /\ review'.kept = seen[q].kept
    BY <1>1, EditedDocument
  <1>3. Typed(Requests)'
    BY <1>1, <1>2 DEF DeskInv, DeskTypeOK, Typed, Rounds, Documents
  <1>4. Course(Requests)'
    BY <1>1, <1>3, CourseStays DEF DeskInv
  <1>5. DeskTypeOK'
    <2> USE <1>1 DEF DeskInv, DeskTypeOK
    <2>1. req' \in [Requests -> Closed \cup Saving \cup {"loaded"}]
      OBVIOUS
    <2>2. QED BY <1>3, <2>1
  <1>6. /\ req'[q] = "recorded" /\ seen[q].kept /\ touched
        /\ \A r \in Requests \ {q} : req'[r] = req[r]
        /\ Editing' = Editing /\ q \in Editing /\ at # "idle"
    BY <1>1 DEF DeskInv, DeskTypeOK, Requested, Unopened, Untouched, Editing
  <1>7. Requested' /\ Unopened' /\ Untouched' /\ CalmExportsAreCleared'
    BY <1>1, <1>2, <1>6 DEF DeskInv, Requested, Unopened, Untouched, CalmExportsAreCleared, Gate
  <1>8. FirstRun'
    BY <1>1, <1>6 DEF DeskInv, FirstRun, Verdict
  <1>9. OneAtATime'
    <2> SUFFICES ASSUME ~disturbed PROVE OneAtATime'
      BY <1>1 DEF OneAtATime
    <2>1. Editing = {q} /\ at = "done" /\ Progress(q)
      BY <1>6 DEF DeskInv, OneAtATime, Resting
    <2>2. ir = Edited(q) /\ Shown(held[q]) /\ seen[q].edits = held[q].edits
      BY <1>1, <2>1 DEF Progress
    <2>3. review'.edits = ir.edits
      BY <1>1, <2>2, EditedDocument
    <2>4. Shown(held[q])' /\ Edited(q)' = Edited(q)
      BY <1>1, <2>2 DEF Shown, Edited, Name
    <2>5. Progress(q)'
      BY <1>1, <1>6, <2>2, <2>3, <2>4 DEF Progress
    <2>6. QED BY <1>1, <1>6, <2>1, <2>5 DEF OneAtATime, Resting
  <1>10. QED BY <1>4, <1>5, <1>7, <1>8, <1>9 DEF DeskInv

\* The feature file is last.
LEMMA RerenderKeepsDeskInv == ASSUME DeskInv, NEW q \in Requests, Rerender(q) PROVE DeskInv'
  <1>1. /\ req[q] = "recorded" /\ EndRequest(q, "done")
        /\ files' = [files EXCEPT ![Name(held[q].draft)] = Edited(q)]
        /\ UNCHANGED <<localVars, drafts, runs>>
        /\ UNCHANGED <<at, author, ir, judge, trace, review, drafts>>
        /\ UNCHANGED <<exported, touched, disturbed, crossed>>
    BY DEF Rerender, deskHistory
  <1>2. /\ Others(q) /\ req'[q] = "done" /\ held'[q] = Nothing /\ ~calm'[q]
        /\ q \notin Editing'
    BY <1>1, RequestEnds DEF DeskInv
  <1>3. Edited(q) \in [draft : 0..Len(drafts), edits : SUBSET Requests]
    BY EditedDocument
  <1>4. files' \in [Names -> [draft : 0..Len(drafts'), edits : SUBSET Requests]]
    BY <1>1, <1>3 DEF DeskInv, DeskTypeOK, Typed
  <1>5. Typed(Requests)'
    BY <1>1, <1>4 DEF DeskInv, DeskTypeOK, Typed, Rounds, Documents
  <1>6. Course(Requests)'
    BY <1>1, <1>5, CourseStays DEF DeskInv
  <1>7. DeskTypeOK'
    BY <1>1, <1>5, RequestEnds DEF DeskInv, DeskTypeOK
  <1>8. /\ touched /\ q \in Editing /\ at # "idle"
        /\ \A r \in Requests \ {q} : r \in Editing' <=> r \in Editing
    BY <1>1, <1>2 DEF DeskInv, Requested, Unopened, Untouched, Editing, Others
  <1>9. Requested' /\ Unopened' /\ Untouched' /\ CalmExportsAreCleared'
    BY <1>1, <1>2, <1>8 DEF DeskInv, Requested, Unopened, Untouched, CalmExportsAreCleared, Gate,
       Others
  <1>10. FirstRun'
    <2>1. Editing' \subseteq Editing \ {q}
      BY <1>2, <1>8 DEF Editing
    <2>2. \A r \in Requests \ {q} : held'[r] = held[r] /\ calm'[r] = calm[r]
      BY <1>2 DEF Others
    <2>3. Editing \subseteq Requests
      BY DEF Editing
    <2>4. QED BY <1>1, <1>2, <2>1, <2>2, <2>3 DEF DeskInv, FirstRun, Verdict
  <1>11. OneAtATime'
    <2> SUFFICES ASSUME ~disturbed PROVE OneAtATime'
      BY <1>1 DEF OneAtATime
    <2>1. Editing = {q} /\ at = "done" /\ Progress(q)
      BY <1>8 DEF DeskInv, OneAtATime, Resting
    <2>2. ir = Edited(q) /\ Shown(held[q]) /\ review.edits = ir.edits
      BY <1>1, <2>1 DEF Progress
    <2>3. Editing' = {}
      BY <1>2, <1>8, <2>1 DEF Editing
    <2>4. Name(ir.draft) = Name(held[q].draft)
      BY <2>2, EditedDocument
    <2>5. files \in [Names -> [draft : 0..Len(drafts), edits : SUBSET Requests]]
      BY DEF DeskInv, DeskTypeOK, Typed
    <2>6. \A n \in Names : files'[n] = IF n = Name(held[q].draft) THEN ir ELSE files[n]
      BY <1>1, <2>2, <2>5
    <2>7. ir' = ir /\ \A d : Name(d)' = Name(d)
      BY <1>1 DEF Name
    <2>8. Shown(ir)'
      <3>1. \A n \in Names : n # Name(ir.draft) => files'[n] = Nothing
        BY <2>2, <2>4, <2>6 DEF Shown
      <3>2. \A n \in Names : files'[n] \in {Nothing, ir}
        BY <2>4, <2>6, <3>1
      <3>3. QED BY <2>7, <3>1, <3>2 DEF Shown
    <2>9. QED BY <1>1, <2>1, <2>2, <2>3, <2>8 DEF OneAtATime, Resting
  <1>12. QED BY <1>6, <1>7, <1>9, <1>10, <1>11 DEF DeskInv

-----------------------------------------------------------------------------
(***************************************************************************)
(* Steps of the pipeline.                                                  *)
(***************************************************************************)

\* Documents are added to, never changed; a review is opened at the end only.
LEMMA StepGrows ==
  ASSUME drafts \in Seq(Documents), attempt > 0 => document \in 1..Len(drafts), PipelineStep
  PROVE  /\ drafts' \in Seq(Documents) /\ Len(drafts') >= Len(drafts)
         /\ \A d \in 1..Len(drafts) : Gate(d)' = Gate(d)
         /\ runs' = runs /\ at' \notin {"idle", "failed"}
         /\ review' = (IF at' = "done" THEN NewReview ELSE review)
  <1>1. CASE WriteDocument
    <2>1. PICK d \in Documents : drafts' = Append(drafts, d)
      BY <1>1 DEF WriteDocument
    <2>2. \A i \in 1..Len(drafts) : drafts'[i] = drafts[i]
      BY <2>1
    <2>3. drafts' \in Seq(Documents) /\ Len(drafts') >= Len(drafts)
      BY <2>1
    <2>4. runs' = runs /\ at' = "author.json" /\ review' = review
      BY <1>1 DEF WriteDocument
    <2>5. QED BY <2>2, <2>3, <2>4 DEF Gate
  <1>2. CASE RefuseRevision
    <2>1. \A i \in 1..Len(drafts) : drafts'[i] = drafts[i]
      BY <1>2 DEF RefuseRevision
    <2>2. drafts' \in Seq(Documents) /\ Len(drafts') >= Len(drafts)
      BY <1>2 DEF RefuseRevision
    <2>3. runs' = runs /\ at' = "author.json" /\ review' = review
      BY <1>2 DEF RefuseRevision
    <2>4. QED BY <2>1, <2>2, <2>3 DEF Gate
  <1>3. CASE ~WriteDocument /\ ~RefuseRevision
    <2>1. drafts' = drafts /\ runs' = runs /\ at' \notin {"idle", "failed"}
          /\ review' = (IF at' = "done" THEN NewReview ELSE review)
      <3>1. CASE Round
        BY <1>3, <3>1 DEF Round, Revise, EndRounds, CompleteRound
      <3>2. CASE Write
        BY <3>2 DEF Write, SaveAuthor, SaveIR, ClearStale, WriteFeature
      <3>3. CASE Close
        BY <3>3 DEF Close, PickRound, Ship, RestoreJudge, SuggestCoverage, WriteTrace,
           EraseOutput, OpenReview, AfterChoice
      <3>4. QED BY <3>1, <3>2, <3>3 DEF PipelineStep
    <2>2. QED BY <2>1 DEF Gate
  <1>4. QED BY <1>1, <1>2, <1>3

\* What requests hold stays well typed.
LEMMA DeskTypesGrow ==
  ASSUME DeskTypeOK, Typed(Requests)', Len(drafts') >= Len(drafts), UNCHANGED deskVars,
         touched' \in BOOLEAN, disturbed' \in BOOLEAN, crossed' \in BOOLEAN
  PROVE  DeskTypeOK'
  <1> USE DEF DeskTypeOK, deskVars
  <1>1. Len(drafts) \in Nat /\ Len(drafts') \in Nat
    <2>1. drafts \in Seq(Documents)
      BY DEF Typed
    <2>2. drafts' \in Seq(Documents)
      BY DEF Typed, Documents
    <2>3. QED BY <2>1, <2>2
  <1>2. [draft : 0..Len(drafts), edits : SUBSET Requests]
            \subseteq [draft : 0..Len(drafts'), edits : SUBSET Requests]
    BY <1>1
  <1>3. [draft : 1..Len(drafts), calm : BOOLEAN, runs : 0..MaxRuns]
            \subseteq [draft : 1..Len(drafts'), calm : BOOLEAN, runs : 0..MaxRuns]
    BY <1>1
  <1>4. held' \in [Requests -> [draft : 0..Len(drafts'), edits : SUBSET Requests]]
    BY <1>2
  <1>5. exported' \subseteq [draft : 1..Len(drafts'), calm : BOOLEAN, runs : 0..MaxRuns]
    BY <1>3
  <1>6. QED BY <1>4, <1>5

\* The next run: who was editing when it began is known to have disturbed it.
LEMMA RerunKeepsDeskInv == ASSUME DeskInv, Rerun PROVE DeskInv'
  <1>1. /\ StartRun /\ UNCHANGED deskVars
        /\ UNCHANGED <<req, kind, held, seen, calm, exported, drafts, ir, trace, review>>
        /\ touched' = (Editing # {}) /\ disturbed' = (Editing # {}) /\ crossed' = FALSE
        /\ at' = "author" /\ part' = "round" /\ runs' = runs + 1
    BY DEF Rerun, StartRun, FreshLocals, deskVars
  <1>2. Course(Requests)'
    BY <1>1, StepKeepsCourse DEF DeskInv, Kept
  <1>3. DeskTypeOK'
    <2>1. Len(drafts') >= Len(drafts)
      BY <1>1 DEF DeskInv, DeskTypeOK, Typed
    <2>2. QED BY <1>1, <1>2, <2>1, DeskTypesGrow DEF DeskInv, Course
  <1>4. Editing' = Editing
    BY <1>1 DEF Editing
  <1>5. Requested' /\ Unopened' /\ CalmExportsAreCleared'
    BY <1>1 DEF DeskInv, Requested, Unopened, CalmExportsAreCleared, Gate
  <1>6. Untouched'
    <2>1. Saved' /\ Traced'
      BY <1>1 DEF Saved, Traced, Settled
    <2>2. Editing = {} => \A q \in Requests : req[q] \notin {"saved", "recorded"}
      BY DEF DeskInv, Requested, Editing
    <2>3. QED BY <1>1, <2>1, <2>2 DEF Untouched
  <1>7. FirstRun'
    <2> SUFFICES ASSUME runs' <= 1 PROVE FirstRun'
      BY DEF FirstRun
    <2>1. runs = 0
      BY <1>1 DEF DeskInv, DeskTypeOK, Typed
    <2>2. at = "idle"
      BY <2>1 DEF DeskInv, Course, Control
    <2>3. trace.draft = 0 /\ Editing = {} /\ \A q \in Requests : ~calm[q]
      BY <2>2 DEF DeskInv, Unopened, Requested, Editing
    <2>4. Verdict'
      BY <1>1, <2>3 DEF Verdict
    <2>5. QED BY <1>1, <1>4, <2>3, <2>4 DEF FirstRun
  <1>8. OneAtATime'
    BY <1>1, <1>4 DEF OneAtATime, Resting
  <1>9. QED BY <1>2, <1>3, <1>5, <1>6, <1>7, <1>8 DEF DeskInv

\* A step of a run that nobody has touched leaves the run's own files.
LEMMA PipelineStepKeepsDeskInv ==
  ASSUME DeskInv, PipelineStep, UNCHANGED <<deskVars, deskHistory>> PROVE DeskInv'
  <1>1. UNCHANGED <<req, kind, held, seen, calm, exported, touched, disturbed, crossed>>
    BY DEF deskVars, deskHistory
  <1>2. Kept(Requests)
    BY StepKeepsCourse DEF DeskInv
  <1>3. /\ drafts' \in Seq(Documents) /\ Len(drafts') >= Len(drafts)
        /\ \A d \in 1..Len(drafts) : Gate(d)' = Gate(d)
        /\ runs' = runs /\ at' \notin {"idle", "failed"}
        /\ review' = (IF at' = "done" THEN NewReview ELSE review)
    <2>1. drafts \in Seq(Documents) /\ document \in 0..Len(drafts)
          /\ (attempt > 0 => document > 0)
      BY DEF DeskInv, Course, Typed, Counting
    <2>2. attempt > 0 => document \in 1..Len(drafts)
      BY <2>1
    <2>3. QED BY <2>1, <2>2, StepGrows
  <1>4. at \notin {"idle", "done", "failed"}
    BY StepIsAtWork DEF Resting
  <1>5. Editing' = Editing
    BY <1>1 DEF Editing
  <1>6. DeskTypeOK'
    BY <1>1, <1>2, <1>3, DeskTypesGrow DEF DeskInv, DeskTypeOK, Kept, Course
  <1>7. NewReview.kept /\ NewReview.edits = {}
    BY DEF NewReview, NoReview
  <1>8. Requested' /\ Unopened' /\ Untouched'
    BY <1>1, <1>2, <1>3, <1>7 DEF DeskInv, Requested, Unopened, Untouched, Kept
  <1>9. CalmExportsAreCleared'
    <2>1. \A e \in exported : e.draft \in 1..Len(drafts)
      BY DEF DeskInv, DeskTypeOK
    <2>2. QED BY <1>1, <1>3, <2>1 DEF DeskInv, CalmExportsAreCleared
  <1>10. FirstRun'
    <2>1. ASSUME runs <= 1, ~crossed PROVE Verdict' /\ ~touched /\ Editing = {}
      <3>1. Verdict /\ ~touched /\ Editing = {}
        BY <1>4, <2>1 DEF DeskInv, FirstRun, Resting
      <3>2. QED BY <1>2, <3>1 DEF DeskInv, Untouched, Kept
    <2>2. ASSUME runs <= 1 PROVE \A q \in Requests : ~calm[q]
      BY <1>4, <2>2 DEF DeskInv, FirstRun
    <2>3. QED BY <1>1, <1>3, <1>5, <2>1, <2>2 DEF FirstRun
  <1>11. OneAtATime'
    <2> SUFFICES ASSUME ~disturbed PROVE OneAtATime'
      BY <1>1 DEF OneAtATime
    <2>1. ~touched /\ Editing = {}
      BY <1>4 DEF DeskInv, OneAtATime, Resting
    <2>2. Saved'
      BY <1>2, <2>1 DEF DeskInv, Untouched, Kept
    <2>3. ASSUME at' = "done" PROVE review'.edits = ir'.edits /\ Shown(ir)'
      <3>1. /\ ir' = Plain(document')
            /\ \A n \in Names : files'[n] = IF n = Name(document)' /\ Gate(document)' # "hard"
                                          THEN Plain(document') ELSE Nothing
        BY <2>2, <2>3 DEF Saved, Settled
      <3>2. Name(ir.draft)' = Name(document)'
        BY <3>1 DEF Name, Plain
      <3>3. \A n \in Names : /\ files'[n] \in {Nothing, ir'}
                             /\ n # Name(ir.draft)' => files'[n] = Nothing
        BY <3>1, <3>2
      <3>4. ir'.edits = {} /\ review'.edits = {}
        BY <1>3, <1>7, <2>3, <3>1 DEF Plain
      <3>5. QED BY <3>3, <3>4 DEF Shown, Nothing, Plain
    <2>4. QED BY <1>1, <1>3, <1>5, <2>1, <2>3 DEF OneAtATime
  <1>12. QED BY <1>2, <1>6, <1>8, <1>9, <1>10, <1>11 DEF DeskInv, Kept

\* A run that fails leaves what it had written.
LEMMA AbortKeepsDeskInv ==
  ASSUME DeskInv, Abort, disturbed' = TRUE, UNCHANGED <<deskVars, touched, crossed>> PROVE DeskInv'
  <1>1. /\ UNCHANGED <<req, kind, held, seen, calm, exported, touched, crossed>>
        /\ UNCHANGED <<drafts, runs, ir, trace, review>>
        /\ at \notin {"idle", "done", "failed"} /\ at' = "failed"
    BY DEF deskVars, Abort, Resting
  <1>2. Kept(Requests)
    BY StepKeepsCourse DEF DeskInv
  <1>3. DeskTypeOK'
    <2>1. Len(drafts') >= Len(drafts)
      BY <1>1 DEF DeskInv, DeskTypeOK, Typed
    <2>2. QED BY <1>1, <1>2, <2>1, DeskTypesGrow DEF DeskInv, DeskTypeOK, Kept, Course
  <1>4. Requested' /\ Unopened' /\ Untouched' /\ CalmExportsAreCleared' /\ OneAtATime'
    BY <1>1, <1>2 DEF DeskInv, Requested, Unopened, Untouched, CalmExportsAreCleared, Gate,
       OneAtATime, Kept
  <1>5. FirstRun'
    <2>1. ASSUME runs <= 1, ~crossed PROVE Verdict' /\ Editing = {}
      <3>1. Verdict /\ ~touched /\ Editing = {}
        BY <1>1, <2>1 DEF DeskInv, FirstRun, Resting
      <3>2. QED BY <1>2, <3>1 DEF DeskInv, Untouched, Kept
    <2>2. ASSUME runs <= 1 PROVE \A q \in Requests : ~calm[q]
      BY <1>1, <2>2 DEF DeskInv, FirstRun
    <2>3. Editing' = Editing
      BY <1>1 DEF Editing
    <2>4. QED BY <1>1, <2>1, <2>2, <2>3 DEF FirstRun, Resting
  <1>6. QED BY <1>2, <1>3, <1>4, <1>5 DEF DeskInv, Kept

\* A new directory has nothing in it.
LEMMA InitGivesDeskInv == DeskInit => DeskInv
  <1> SUFFICES ASSUME DeskInit PROVE DeskInv
    OBVIOUS
  <1> USE DEF DeskInit
  <1>1. Init /\ at = "idle" /\ runs = 0 /\ ir = Nothing /\ drafts = <<>> /\ trace.draft = 0
        /\ files = [n \in Names |-> Nothing] /\ review = NoReview /\ Len(drafts) = 0
    BY DEF Init
  <1>2. Typed({}) /\ Control /\ Counting /\ Picking /\ Saved /\ Traced /\ Verdict
    BY <1>1, InitIsFine DEF IInv, Course
  <1>3. Typed(Requests)
    <2>1. ir \in [draft : 0..Len(drafts), edits : SUBSET Requests]
      BY <1>1 DEF Nothing, Plain
    <2>2. files \in [Names -> [draft : 0..Len(drafts), edits : SUBSET Requests]]
      BY <1>1 DEF Nothing, Plain
    <2>3. review \in [edits : SUBSET Requests, approved : BOOLEAN, kept : BOOLEAN]
      BY <1>1 DEF NoReview
    <2>4. QED BY <1>2, <2>1, <2>2, <2>3 DEF Typed
  <1>4. DeskTypeOK
    <2>1. Nothing \in [draft : 0..Len(drafts), edits : SUBSET Requests]
      BY <1>1 DEF Nothing, Plain
    <2>2. NoReview \in [edits : SUBSET Requests, approved : BOOLEAN, kept : BOOLEAN]
      BY DEF NoReview
    <2>3. QED BY <1>3, <2>1, <2>2 DEF DeskTypeOK
  <1>5. Requested /\ Unopened
    BY <1>1 DEF Requested, Unopened, NoReview
  <1>6. Editing = {}
    BY DEF Editing
  <1>7. Untouched /\ FirstRun /\ OneAtATime /\ CalmExportsAreCleared
    <2>1. Untouched
      BY <1>1, <1>2 DEF Untouched
    <2>2. FirstRun
      BY <1>1, <1>2, <1>6 DEF FirstRun, Resting
    <2>3. OneAtATime
      BY <1>1, <1>6 DEF OneAtATime, Resting
    <2>4. CalmExportsAreCleared
      BY DEF CalmExportsAreCleared
    <2>5. QED BY <2>1, <2>2, <2>3, <2>4
  <1>8. QED BY <1>2, <1>3, <1>4, <1>5, <1>7 DEF DeskInv, Course

\* Whatever requests and runs do, and in whatever order, the invariant stays.
LEMMA NextKeepsDeskInv == DeskInv /\ [DeskNext]_vars => DeskInv'
  <1> SUFFICES ASSUME DeskInv, [DeskNext]_vars PROVE DeskInv'
    OBVIOUS
  <1>1. CASE DeskStep
    <2>1. PICK q \in Requests : \/ LoadIR(q) \/ LoadReview(q) \/ RefuseEdit(q)
                                \/ SaveEditedIR(q) \/ SaveReview(q) \/ Rerender(q)
                                \/ Export(q) \/ RefuseExport(q) \/ FailRequest(q)
      BY <1>1 DEF DeskStep
    <2>2. QED
      BY <2>1, LoadIRKeepsDeskInv, LoadReviewKeepsDeskInv, RefuseEditKeepsDeskInv,
         SaveEditedIRKeepsDeskInv, SaveReviewKeepsDeskInv, RerenderKeepsDeskInv,
         ExportKeepsDeskInv, RefuseExportKeepsDeskInv, FailRequestKeepsDeskInv
  <1>2. CASE Rerun BY <1>2, RerunKeepsDeskInv
  <1>3. CASE PipelineStep /\ UNCHANGED <<deskVars, deskHistory>>
    BY <1>3, PipelineStepKeepsDeskInv
  <1>4. CASE MayFail /\ Abort /\ disturbed' = TRUE /\ UNCHANGED <<deskVars, touched, crossed>>
    BY <1>4, AbortKeepsDeskInv
  <1>5. CASE UNCHANGED vars
    <2>1. /\ UNCHANGED pipelineVars
          /\ UNCHANGED <<req, kind, held, seen, calm, exported, touched, disturbed, crossed>>
      BY <1>5 DEF vars, deskVars, deskHistory
    <2>2. /\ UNCHANGED <<at, runs, drafts, ir, files, trace, review>>
          /\ Course(Requests)' /\ \A d : Gate(d)' = Gate(d)
          /\ (Saved => Saved') /\ (Traced => Traced') /\ (Verdict => Verdict')
          /\ \A d : Shown(d) => Shown(d)'
      BY <2>1, DirectoryStays DEF DeskInv
    <2>3. DeskTypeOK'
      BY <2>1, <2>2 DEF DeskInv, DeskTypeOK, Course
    <2>4. Requested' /\ Unopened' /\ Untouched' /\ CalmExportsAreCleared'
      BY <2>1, <2>2 DEF DeskInv, Requested, Unopened, Untouched, CalmExportsAreCleared
    <2>5. Editing' = Editing
      BY <2>1 DEF Editing
    <2>6. FirstRun'
      BY <2>1, <2>2, <2>5 DEF DeskInv, FirstRun
    <2>7. \A q \in Requests : Progress(q) => Progress(q)'
      BY <2>1, <2>2 DEF Progress, Edited
    <2>8. OneAtATime'
      <3>1. Editing \subseteq Requests
        BY DEF Editing
      <3>2. QED BY <2>1, <2>2, <2>5, <2>7, <3>1 DEF DeskInv, OneAtATime
    <2>9. QED BY <2>2, <2>3, <2>4, <2>6, <2>8 DEF DeskInv
  <1>6. QED BY <1>1, <1>2, <1>3, <1>4, <1>5 DEF DeskNext

-----------------------------------------------------------------------------
\* The invariant holds at every desk, for any number of requests, rounds and runs.
THEOREM DeskInvariant == DeskSpec => []DeskInv
  BY InitGivesDeskInv, NextKeepsDeskInv, PTL DEF DeskSpec

\* Requests and what they leave behind keep their types.
THEOREM DeskTypeCorrect == DeskSpec => []DeskTypeOK
  <1>1. DeskInv => DeskTypeOK BY DEF DeskInv
  <1>2. QED BY <1>1, DeskInvariant, PTL

\* _pick_round keeps a round that none dominates, and an earlier one only when it
\* dominates the last, for any number of rounds, whoever is at the desk meanwhile
\* (run.py:274-328).
THEOREM BestOfAnyRounds == DeskSpec => []BestRoundShips
  <1>1. DeskInv => BestRoundShips
    <2> SUFFICES ASSUME DeskInv, Chosen
                 PROVE  /\ \A i \in DOMAIN rounds : ~Dominates(rounds[i], rounds[shipped])
                        /\ shipped # Len(rounds) => Dominates(rounds[shipped], rounds[Len(rounds)])
      BY DEF BestRoundShips
    <2>1. /\ rounds \in Seq(Rounds) /\ drafts \in Seq(Documents) /\ part # "round"
          /\ shipped \in DOMAIN rounds /\ cursor = Len(rounds)
          /\ \A i \in 1..(cursor - 1) : ~Dominates(rounds[i], rounds[shipped])
          /\ shipped # Len(rounds) => Dominates(rounds[shipped], rounds[Len(rounds)])
      BY DEF DeskInv, Course, Typed, Picking
    <2>2. ~Dominates(rounds[Len(rounds)], rounds[shipped])
      BY <2>1, DominatesIsAnOrder
    <2>3. QED BY <2>1, <2>2
  <1>2. QED BY <1>1, DeskInvariant, PTL

\* A run that ends well has overwritten all that reviewers and earlier runs left,
\* as long as nobody has saved anything since it began (run.py:1401-1423).
THEOREM OwnFilesOfAnyRun == DeskSpec => []UntouchedRunIsWhole
  <1>1. DeskInv => UntouchedRunIsWhole
    <2> SUFFICES ASSUME DeskInv, ~touched, at = "done" PROVE FilesOfOneRound
      BY DEF UntouchedRunIsWhole, FilesOfOneRound
    <2>1. Typed(Requests) /\ Control /\ Counting /\ Picking /\ Saved /\ Traced
      BY DEF DeskInv, Course, Untouched
    <2>2. QED
      BY <2>1 DEF Typed, Control, Counting, Saved, Traced, FilesOfOneRound, Settled, Chosen, Plain
  <1>2. QED BY <1>1, DeskInvariant, PTL

\* Edits that come one at a time leave the record of the review and the feature file
\* true of the document, for any number of them (app.py:1120-1125).
THEOREM RecordIsTrue == DeskSpec => []RecordMatchesDocument
  <1>1. DeskInv => RecordMatchesDocument
    <2> SUFFICES ASSUME DeskInv, Quiet
                 PROVE  review.edits = ir.edits /\ \A n \in Names : files[n] \in {Nothing, ir}
      BY DEF RecordMatchesDocument
    <2>1. at # "failed" /\ ~disturbed /\ Editing = {}
      BY DEF Quiet, DeskInv, OneAtATime
    <2>2. CASE at = "done"
      BY <2>1, <2>2 DEF DeskInv, OneAtATime, Shown
    <2>3. CASE at = "idle"
      <3>1. ir = Nothing /\ files = [n \in Names |-> Nothing]
        BY <2>3 DEF DeskInv, Unopened
      <3>2. review.edits = {}
        BY <2>3 DEF DeskInv, Unopened, Requested
      <3>3. ir.edits = {}
        BY <3>1 DEF Nothing, Plain
      <3>4. QED BY <3>1, <3>2, <3>3
    <2>4. QED BY <2>1, <2>2, <2>3 DEF Quiet, Resting
  <1>2. QED BY <1>1, DeskInvariant, PTL

\* In a first run the verdict on disk is about the IR on disk, at every moment and
\* whatever requests do after it, unless an edit was loaded during the run.
THEOREM VerdictIsOfTheDraft == DeskSpec => []VerdictCoversTheDraft
  <1>1. DeskInv => VerdictCoversTheDraft
    BY DEF DeskInv, FirstRun, Verdict, VerdictCoversTheDraft
  <1>2. QED BY <1>1, DeskInvariant, PTL

\* In a first run no export that was loaded at rest is one of a document that failed
\* hard, unless an edit was loaded during the run (app.py:1101-1114).
THEOREM NoUnclearedExport == DeskSpec => []CalmExportsAreCleared
  <1>1. DeskInv => CalmExportsAreCleared BY DEF DeskInv
  <1>2. QED BY <1>1, DeskInvariant, PTL
================================================================================
