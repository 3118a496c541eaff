---------------------------- MODULE ModelClients ----------------------------
(***************************************************************************)
(* The stack of clients between a job and the provider (server/llm, wired  *)
(* by server/cli.py: build_model), outermost first: the budget guard, the  *)
(* cassettes, the pacer, the chain, the retries.                           *)
(*                                                                         *)
(* Every job builds a stack of its own; the directory of the cassettes and *)
(* the file with the count of the day are shared, and neither is written   *)
(* at once.  Times are kept as what is left of a wait and as the age of a  *)
(* call, of which Minute stands for any that is as old or older.  What a   *)
(* request and an answer say is left out, but for what makes two requests  *)
(* the same; so are the other days in the file.                            *)
(***************************************************************************)
EXTENDS Naturals, Sequences, FiniteSets

CONSTANTS
    Jobs, Keys,
    Calls,         \* how often a job asks the model
    Attempts,      \* of one call                           (chain.py:151)
    Rpm,           \* calls of one client in a minute       (chain.py:215)
    Minute,        \* in ticks
    Delays,        \* what the provider asks to wait for
    MaxWait,       \* what is waited for                    (chain.py:153)
    Limit,         \* calls of a day                        (chain.py:87)
    Torn,          \* no count: the file while it is written
    MaxCrashes     \* bound

ASSUME ClientsAssumption ==
    /\ IsFiniteSet(Jobs) /\ Keys # {}
    /\ {Attempts, Rpm, Minute} \subseteq Nat \ {0}
    /\ {Calls, MaxWait, Limit, MaxCrashes} \subseteq Nat /\ Delays \subseteq Nat
    /\ Torn \notin Nat

VARIABLES
    pc,            \* where the call of a job is
    key,           \* what it asks
    left,          \* how often it will ask
    attempt,       \* of the current call
    wait,          \* what is left of its sleep
    recent,        \* ages of its calls, the oldest first   (RateLimiter._recent)
    loaded,        \* the count it has read
    warned,        \* was it told that the budget is nearly spent?
    cassette,      \* of each key: "none", "torn", "whole"
    count,         \* in the file
    crashes,
    spent,         \* answers the provider has given, ever
    calm           \* has no count been read while another job was counting?

clientVars ==
    <<pc, key, left, attempt, wait, recent, loaded, warned, cassette, count, crashes, spent, calm>>

\* The answers that are not counted yet.
Uncounted == {j \in Jobs : pc[j] \in {"record", "recording", "load", "open", "save"}}

Init ==
    /\ pc = [j \in Jobs |-> "idle"]
    /\ key = [j \in Jobs |-> CHOOSE k \in Keys : TRUE]
    /\ left = [j \in Jobs |-> Calls]
    /\ attempt = [j \in Jobs |-> 0]
    /\ wait = [j \in Jobs |-> 0]
    /\ recent = [j \in Jobs |-> <<>>]
    /\ loaded = [j \in Jobs |-> 0]
    /\ warned = [j \in Jobs |-> FALSE]
    /\ cassette = [k \in Keys |-> "none"]
    /\ count = 0 /\ crashes = 0 /\ spent = 0 /\ calm = TRUE

Goes(j, place) == pc' = [pc EXCEPT ![j] = place]

---------------------------------------------------------------------------
(* The cassettes. *)

\* A recording of the request answers it; one that is not whole cannot be read,
\* and the call fails, as does one without a recording if only those are asked
\* for.  Nothing is counted then.
Lookup(j) ==
    /\ pc[j] = "idle" /\ left[j] > 0
    /\ left' = [left EXCEPT ![j] = @ - 1]
    /\ \E k \in Keys, offline \in BOOLEAN :
         /\ key' = [key EXCEPT ![j] = k]
         /\ Goes(j, IF cassette[k] # "none" \/ offline THEN "idle" ELSE "pace")
    /\ attempt' = [attempt EXCEPT ![j] = 1]
    /\ UNCHANGED <<wait, recent, loaded, warned, cassette, count, crashes, spent, calm>>

\* write_text: the file is there and empty before it has its content.
OpenCassette(j) ==
    /\ pc[j] = "record"
    /\ cassette' = [cassette EXCEPT ![key[j]] = "torn"]
    /\ Goes(j, "recording")
    /\ UNCHANGED <<key, left, attempt, wait, recent, loaded, warned, count, crashes, spent, calm>>

CloseCassette(j) ==
    /\ pc[j] = "recording"
    /\ cassette' = [cassette EXCEPT ![key[j]] = "whole"]
    /\ Goes(j, "load")
    /\ UNCHANGED <<key, left, attempt, wait, recent, loaded, warned, count, crashes, spent, calm>>

---------------------------------------------------------------------------
(* The pacer. *)

\* Those that are not a minute old: the last ones.
Old(ages)   == {i \in DOMAIN ages : ages[i] >= Minute}
Young(ages) == SubSeq(ages, Cardinality(Old(ages)) + 1, Len(ages))

\* Mutant of Slots: one more than there are.
OneMoreSlot(ages) == Len(Young(ages)) <= Rpm

Slots(ages) == Len(Young(ages)) < Rpm

\* _wait_for_slot: until the oldest call of the last minute is that old.
WaitForSlot(j) ==
    /\ pc[j] = "pace"
    /\ recent' = [recent EXCEPT ![j] = Young(@)]
    /\ wait' = [wait EXCEPT ![j] = IF Slots(recent[j]) THEN 0 ELSE Minute - recent'[j][1]]
    /\ Goes(j, "ask")
    /\ UNCHANGED <<key, left, attempt, loaded, warned, cassette, count, crashes, spent, calm>>

---------------------------------------------------------------------------
(* The provider, the retries and the chain. *)
Asking(j) == pc[j] = "ask" /\ wait[j] = 0

\* The call counts for the pacer when it has come back, and not if it failed.
Answered(j) ==
    /\ Asking(j)
    /\ recent' = [recent EXCEPT ![j] = Append(Young(@), 0)]
    /\ spent' = spent + 1
    /\ Goes(j, "record")
    /\ UNCHANGED <<key, left, attempt, wait, loaded, warned, cassette, count, crashes, calm>>

\* The last attempt fails the call, of whichever error: the chain has no other
\* client, and the cassettes and the guard let it pass.
GiveUp(j) ==
    /\ Goes(j, "idle")
    /\ UNCHANGED <<attempt, wait>>

\* Mutant of NextAttempt: the attempts are not counted.
SameAttempt(j) == attempt[j]

NextAttempt(j) == attempt[j] + 1

LastAttempt(j) == attempt[j] = Attempts

\* What the provider asked for, and a second.
WaitOnLimit(j, delay) == delay + 1

\* Too many requests: waited for, if the provider says how long and it is not
\* long.
RateLimited(j) ==
    /\ Asking(j)
    /\ \E delay \in Delays :
         IF delay > MaxWait \/ LastAttempt(j) THEN GiveUp(j)
         ELSE /\ wait' = [wait EXCEPT ![j] = WaitOnLimit(j, delay)]
              /\ attempt' = [attempt EXCEPT ![j] = NextAttempt(j)]
              /\ UNCHANGED pc
    /\ UNCHANGED <<key, left, recent, loaded, warned, cassette, count, crashes, spent, calm>>

\* Any other error, twice as long as the time before.
Errs(j) ==
    /\ Asking(j)
    /\ IF LastAttempt(j) THEN GiveUp(j)
       ELSE /\ wait' = [wait EXCEPT ![j] = 2 ^ (attempt[j] - 1)]
            /\ attempt' = [attempt EXCEPT ![j] = NextAttempt(j)]
            /\ UNCHANGED pc
    /\ UNCHANGED <<key, left, recent, loaded, warned, cassette, count, crashes, spent, calm>>

---------------------------------------------------------------------------
(* The budget guard. *)

\* Mutant of Read: what cannot be read counts as the limit.
ReadAsFull == IF count = Torn THEN Limit ELSE count

\* A file that cannot be read counts as none.
Read == IF count = Torn THEN 0 ELSE count

Load(j) ==
    /\ pc[j] = "load"
    /\ loaded' = [loaded EXCEPT ![j] = Read]
    /\ calm' = (calm /\ count # Torn /\ \A other \in Jobs \ {j} : pc[other] \notin {"open", "save"})
    /\ Goes(j, "open")
    /\ UNCHANGED <<key, left, attempt, wait, recent, warned, cassette, count, crashes, spent>>

Open(j) ==
    /\ pc[j] = "open"
    /\ count' = Torn
    /\ Goes(j, "save")
    /\ UNCHANGED <<key, left, attempt, wait, recent, loaded, warned, cassette, crashes, spent, calm>>

Save(j) ==
    /\ pc[j] = "save"
    /\ count' = loaded[j] + 1
    /\ warned' = [warned EXCEPT ![j] = @ \/ loaded[j] + 1 >= Limit]
    /\ Goes(j, "idle")
    /\ UNCHANGED <<key, left, attempt, wait, recent, loaded, cassette, crashes, spent, calm>>

---------------------------------------------------------------------------
(* The process of a job ends in the middle of it, and another one begins. *)
Crash(j) ==
    /\ crashes < MaxCrashes /\ pc[j] # "idle"
    /\ crashes' = crashes + 1
    /\ Goes(j, "idle")
    /\ wait' = [wait EXCEPT ![j] = 0]
    /\ recent' = [recent EXCEPT ![j] = <<>>]
    /\ warned' = [warned EXCEPT ![j] = FALSE]
    /\ UNCHANGED <<key, left, attempt, loaded, cassette, count, spent, calm>>

Older(age) == IF age < Minute THEN age + 1 ELSE Minute
Less(time) == IF time > 0 THEN time - 1 ELSE 0

\* Time passes.
Tick ==
    /\ recent' = [j \in Jobs |-> [i \in DOMAIN recent[j] |-> Older(recent[j][i])]]
    /\ wait' = [j \in Jobs |-> Less(wait[j])]
    /\ UNCHANGED <<pc, key, left, attempt, loaded, warned, cassette, count, crashes, spent, calm>>

Step(j) ==
    \/ Lookup(j) \/ WaitForSlot(j)
    \/ Answered(j) \/ RateLimited(j) \/ Errs(j)
    \/ OpenCassette(j) \/ CloseCassette(j)
    \/ Load(j) \/ Open(j) \/ Save(j)

Next == Tick \/ \E j \in Jobs : Step(j) \/ Crash(j)

\* A thread goes on when it can, and time passes.
Spec ==
    /\ Init /\ [][Next]_clientVars
    /\ WF_clientVars(Tick)
    /\ \A j \in Jobs : WF_clientVars(Step(j))

---------------------------------------------------------------------------
(* Correctness. *)

Ages == Seq(0..Minute)
TypeOK ==
    /\ pc \in [Jobs -> {"idle", "pace", "ask", "record", "recording", "load", "open", "save"}]
    /\ key \in [Jobs -> Keys]
    /\ left \in [Jobs -> 0..Calls]
    /\ attempt \in [Jobs -> 0..Attempts] /\ wait \in [Jobs -> Nat]
    /\ recent \in [Jobs -> Ages]
    /\ loaded \in [Jobs -> Nat] /\ warned \in [Jobs -> BOOLEAN]
    /\ cassette \in [Keys -> {"none", "torn", "whole"}]
    /\ count \in Nat \cup {Torn}
    /\ crashes \in 0..MaxCrashes /\ spent \in Nat /\ calm \in BOOLEAN

\* The count of the day never says more than the provider was asked, replays
\* included, and when nobody counted at the same time and nothing died it says
\* exactly that.  Two jobs at once lose a call, and a torn file the whole day.
CountIsTrue ==
    count # Torn =>
        /\ count <= spent
        /\ calm /\ crashes = 0 => count + Cardinality(Uncounted) = spent

\* One client has no more answers within a minute than the pacer allows, however
\* long each of them took and however often it was retried.
PacedWithinAMinute == \A j \in Jobs : Len(Young(recent[j])) <= Rpm

\* Every call of a job comes back, with an answer or an error.
CallsSettle == \A j \in Jobs : (pc[j] # "idle") ~> (pc[j] = "idle")
=============================================================================
