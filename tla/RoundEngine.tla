---------------------------- MODULE RoundEngine ----------------------------
(***************************************************************************)
(* The red-versus-blue scoring loop of the engine (engine/engine.go), the  *)
(* runners that execute its checks (runner/runner.go), the two Redis lists *)
(* between them and the rounds table, with the crashes of each process.    *)
(*                                                                         *)
(* One loop iteration opens a round: it enqueues one task per eligible     *)
(* (team, service) pair, counts them in `runners', collects that many      *)
(* results of the current round and saves them in one transaction; if the  *)
(* round's deadline comes first it drops everything it collected.  Runners *)
(* pop a task, run it in a goroutine and push its result at any later      *)
(* time, possibly rounds later.                                            *)
(*                                                                         *)
(* Abstractions: time is the flag `expired' (NextRoundStartTime has        *)
(* passed); the payload of a result is its verdict; the reasons for not    *)
(* enqueueing a pair (inactive team, service disabled or outside its time  *)
(* window, no credentials, a failed lookup) are one choice, SkipPair.      *)
(* `start' numbers the loop's round starts: the code tells two starts of   *)
(* one round number apart only by the task's Deadline, and its results     *)
(* carry nothing at all, so no guard below reads it.                       *)
(***************************************************************************)
EXTENDS Integers, Sequences, FiniteSets

CONSTANTS
  Team,         \* the teams of the database
  Service,      \* the service checks of the configuration
  Runner,       \* the runner processes
  Verdict,      \* what a check can say: TRUE, FALSE, or both
  MaxRounds,    \* bound: the last round number the model opens
  MaxRestarts,  \* bound: crashes of the server process
  MaxFaults     \* bound: lost pushes, runner crashes, database errors

ASSUME BoundsAssumption ==
  /\ MaxRounds \in Nat
  /\ MaxRestarts \in Nat
  /\ MaxFaults \in Nat

ASSUME VerdictAssumption == Verdict \subseteq BOOLEAN

ASSUME FiniteAssumption == IsFiniteSet(Team) /\ IsFiniteSet(Service)

VARIABLES
  \* the server process: lost when it crashes
  pc,           \* where the loop is: "idle" (its top), "rvb", "sleep", "dead"
  CurrentRound,
  expired,      \* NextRoundStartTime has passed
  todo,         \* pairs the enqueue loop has still to look at
  runners,      \* how many results this round waits for
  collected,    \* `results' of rvb(): the results of this round so far
  \* Redis: outlives every process
  tasks,
  results,
  \* the runner processes
  working,      \* the tasks each runner's goroutines are executing
  \* the database
  rounds,       \* the checks saved with each saved round
  \* history, read by no guard but the bounds'
  start, asked, opened, reopened, restarts, faults

serverVars  == <<pc, CurrentRound, expired, todo, runners, collected>>
redisVars   == <<tasks, results>>
historyVars == <<start, asked, opened, reopened>>
boundVars   == <<restarts, faults>>

vars == <<serverVars, redisVars, working, rounds, historyVars, boundVars>>

-----------------------------------------------------------------------------

Pair == Team \X Service

\* engine.Task: the pair to check, the round it is checked for, and the start
\* of that round that fixed its Deadline.
Task == [round : Nat, pair : Pair, start : Nat]

\* checks.Result: handleTask copies the identity of the task into it.
Result == [task : Task, ok : Verdict]

Fault == faults < MaxFaults /\ faults' = faults + 1

\* GetLastRound: the highest saved id, or 0 when no round is saved.
IsLastRound(last) ==
  /\ last \in DOMAIN rounds \cup {0}
  /\ \A r \in DOMAIN rounds : r <= last

\* Next to the three decisions of the loop that follow stand the wrong
\* decisions (RepeatLast, BelongsAlways, ...) the checks tell them from.

\* Start(): the round after the last saved one.
RepeatLast(last) == last
NumberAfter(last) == last + 1

\* The filter of the collecting loop on the round number of a result.
BelongsAlways(result) == TRUE
BelongsIfPassed(result) == result.task.round = CurrentRound /\ result.ok
Belongs(result) == result.task.round = CurrentRound

\* The collecting loop has every result it counted on, or is short of some.
EnoughAtDeadline == Len(collected) = runners \/ (expired /\ collected # <<>>)
Enough == Len(collected) = runners
Collecting == pc = "rvb" /\ todo = {} /\ Len(collected) < runners

\* The blocking pop gives up: at the deadline, however much it has.
TimedOutEmpty == expired /\ collected = <<>>
TimedOut == expired

-----------------------------------------------------------------------------
(* The server: the engine loop *)

Init ==
  /\ pc = "idle" /\ CurrentRound = 1 /\ expired = FALSE
  /\ todo = {} /\ runners = 0 /\ collected = <<>>
  /\ tasks = <<>> /\ results = <<>>
  /\ working = [r \in Runner |-> {}]
  /\ rounds = [r \in {} |-> <<>>]
  /\ start = 0 /\ asked = {} /\ opened = {} /\ reopened = {}
  /\ restarts = 0 /\ faults = 0

\* The top of the loop and rvb() up to its enqueue loop: a new deadline, the
\* stale tasks deleted. The results list is not touched.
StartRound ==
  /\ pc = "idle" /\ CurrentRound <= MaxRounds
  /\ pc' = "rvb" /\ expired' = FALSE
  /\ todo' = Pair /\ runners' = 0 /\ collected' = <<>>
  /\ tasks' = <<>>
  /\ start' = start + 1 /\ asked' = {}
  /\ opened' = opened \cup {CurrentRound}
  /\ reopened' = IF CurrentRound \in opened THEN reopened \cup {CurrentRound} ELSE reopened
  /\ UNCHANGED <<CurrentRound, results, working, rounds, boundVars>>

\* db.GetTeams fails: rvb() returns the error and the loop goroutine returns.
LoopReturns ==
  /\ pc = "idle" /\ CurrentRound <= MaxRounds
  /\ Fault
  /\ pc' = "dead"
  /\ UNCHANGED <<CurrentRound, expired, todo, runners, collected, redisVars, working,
                 rounds, historyVars, restarts>>

SkipPair(p) ==
  /\ pc = "rvb" /\ p \in todo
  /\ todo' = todo \ {p}
  /\ UNCHANGED <<pc, CurrentRound, expired, runners, collected, redisVars, working,
                 rounds, historyVars, boundVars>>

\* The pair is counted whatever becomes of its RPush.
CountPair(p) ==
  /\ pc = "rvb" /\ p \in todo
  /\ todo' = todo \ {p}
  /\ runners' = runners + 1
  /\ asked' = asked \cup {p}
  /\ UNCHANGED <<pc, CurrentRound, expired, collected, results, working, rounds,
                 start, opened, reopened, restarts>>

Enqueue(p) ==
  /\ CountPair(p)
  /\ ~expired
  /\ tasks' = Append(tasks, [round |-> CurrentRound, pair |-> p, start |-> start])
  /\ UNCHANGED faults

\* RPush fails, always once its context has expired, and its error is not read.
EnqueueLost(p) ==
  /\ CountPair(p)
  /\ IF expired THEN UNCHANGED faults ELSE Fault
  /\ UNCHANGED tasks

\* BLPop returns a result: kept if it bears the current round's number.
Collect ==
  /\ Collecting /\ results # <<>>
  /\ results' = Tail(results)
  /\ collected' = IF Belongs(Head(results))
                    THEN Append(collected, Head(results))
                    ELSE collected
  /\ UNCHANGED <<pc, CurrentRound, expired, todo, runners, tasks, working, rounds,
                 historyVars, boundVars>>

\* The end of an iteration, whatever was saved: CurrentRound++ and sleep.
NextRound ==
  /\ CurrentRound' = CurrentRound + 1
  /\ pc' = "sleep"
  /\ collected' = <<>> /\ runners' = 0 /\ asked' = {}
  /\ UNCHANGED <<expired, todo, redisVars, working, start, opened, reopened, restarts>>

\* The deadline comes before the last result: the partial results are dropped
\* and processCollectedResults, given none, saves nothing.
Discard ==
  /\ Collecting /\ TimedOut
  /\ NextRound
  /\ UNCHANGED <<rounds, faults>>

\* processCollectedResults saves the round and its checks in one transaction,
\* which the primary key refuses if the round exists.
SaveRound ==
  /\ pc = "rvb" /\ todo = {} /\ Enough
  /\ rounds' = IF collected = <<>> \/ CurrentRound \in DOMAIN rounds
                 THEN rounds
                 ELSE [r \in DOMAIN rounds \cup {CurrentRound} |->
                         IF r = CurrentRound THEN collected ELSE rounds[r]]
  /\ NextRound
  /\ UNCHANGED faults

\* db.CreateRound fails: the results are gone, the round number is used up.
SaveRoundFails ==
  /\ pc = "rvb" /\ todo = {} /\ Enough /\ collected # <<>>
  /\ Fault
  /\ NextRound
  /\ UNCHANGED rounds

\* time.Sleep(time.Until(NextRoundStartTime)) returns.
Wake ==
  /\ pc = "sleep" /\ expired
  /\ pc' = "idle"
  /\ UNCHANGED <<CurrentRound, expired, todo, runners, collected, redisVars, working,
                 rounds, historyVars, boundVars>>

\* Time reaches NextRoundStartTime.
Deadline ==
  /\ pc \in {"rvb", "sleep"} /\ ~expired
  /\ expired' = TRUE
  /\ UNCHANGED <<pc, CurrentRound, todo, runners, collected, redisVars, working,
                 rounds, historyVars, boundVars>>

\* The server dies and is started again: Start() goes on after the last round
\* in the database and leaves both Redis lists as they are.
Restart ==
  /\ restarts < MaxRestarts /\ restarts' = restarts + 1
  /\ pc' = "idle" /\ expired' = FALSE
  /\ \E last \in DOMAIN rounds \cup {0} : IsLastRound(last) /\ CurrentRound' = NumberAfter(last)
  /\ todo' = {} /\ runners' = 0 /\ collected' = <<>> /\ asked' = {}
  /\ UNCHANGED <<redisVars, working, rounds, start, opened, reopened, faults>>

-----------------------------------------------------------------------------
(* The runners *)

\* getNextTask and createRunner, and a goroutine for handleTask.
TakeTask(r) ==
  /\ tasks # <<>>
  /\ tasks' = Tail(tasks)
  /\ working' = [working EXCEPT ![r] = @ \cup {Head(tasks)}]
  /\ UNCHANGED <<serverVars, results, rounds, historyVars, boundVars>>

\* handleTask ends, by a verdict of the check or by the task's deadline, and
\* pushes the result.
PushResult(r, t, ok) ==
  /\ t \in working[r]
  /\ working' = [working EXCEPT ![r] = @ \ {t}]
  /\ results' = Append(results, [task |-> t, ok |-> ok])
  /\ UNCHANGED <<serverVars, tasks, rounds, historyVars, boundVars>>

\* The push fails: the error is logged and the result is gone.
PushLost(r, t) ==
  /\ t \in working[r]
  /\ Fault
  /\ working' = [working EXCEPT ![r] = @ \ {t}]
  /\ UNCHANGED <<serverVars, redisVars, rounds, historyVars, restarts>>

\* A runner process dies with its goroutines and is started again.
RunnerCrash(r) ==
  /\ working[r] # {}
  /\ Fault
  /\ working' = [working EXCEPT ![r] = {}]
  /\ UNCHANGED <<serverVars, redisVars, rounds, historyVars, restarts>>

-----------------------------------------------------------------------------

Next ==
  \/ StartRound
  \/ LoopReturns
  \/ \E p \in Pair : SkipPair(p)
  \/ \E p \in Pair : Enqueue(p)
  \/ \E p \in Pair : EnqueueLost(p)
  \/ Collect
  \/ Discard
  \/ SaveRound
  \/ SaveRoundFails
  \/ Wake
  \/ Deadline
  \/ Restart
  \/ \E r \in Runner : TakeTask(r)
  \/ \E r \in Runner : \E t \in working[r] : \E ok \in Verdict : PushResult(r, t, ok)
  \/ \E r \in Runner : \E t \in working[r] : PushLost(r, t)
  \/ \E r \in Runner : RunnerCrash(r)

Spec == Init /\ [][Next]_vars

\* The loop's own steps and the clock. Nothing is assumed of the runners.
EngineStep ==
  \/ StartRound
  \/ \E p \in Pair : SkipPair(p) \/ Enqueue(p) \/ EnqueueLost(p)
  \/ Collect \/ Discard \/ SaveRound \/ Wake

\* Safety needs none of this.
FairSpec == Spec /\ WF_vars(EngineStep) /\ WF_vars(Deadline)

-----------------------------------------------------------------------------
(* Properties *)

TypeOK ==
  /\ pc \in {"idle", "rvb", "sleep", "dead"}
  /\ CurrentRound \in Nat \ {0}
  /\ expired \in BOOLEAN
  /\ todo \in SUBSET Pair
  /\ runners \in Nat
  /\ collected \in Seq(Result)
  /\ tasks \in Seq(Task)
  /\ results \in Seq(Result)
  /\ working \in [Runner -> SUBSET Task]
  /\ DOMAIN rounds \subseteq Nat \ {0}
  /\ \A r \in DOMAIN rounds : rounds[r] \in Seq(Result)
  /\ start \in Nat
  /\ asked \in SUBSET Pair
  /\ opened \in SUBSET Nat
  /\ reopened \in SUBSET Nat
  /\ restarts \in Nat
  /\ faults \in Nat

\* No two of a sequence of results are for the same pair.
OnePerPair(s) ==
  \A i, j \in DOMAIN s : s[i].task.pair = s[j].task.pair => i = j

PairsOf(s) == {s[i].task.pair : i \in DOMAIN s}

\* A round whose number was opened once is saved with at most one result per
\* (team, service), whatever late results of discarded rounds are still on
\* their way: the round filter and the count of rvb() (engine.go:473-518).
OneResultPerPair ==
  \A r \in DOMAIN rounds \ reopened : OnePerPair(rounds[r])

\* The loop is never at a round number that is already saved, whatever was
\* discarded, failed or restarted before: CreateRound's primary key and
\* Start() agree (engine.go:79-83, engine.go:160, engine.go:569).
RoundNumberIsNew ==
  \A r \in DOMAIN rounds : r < CurrentRound

\* Until the deadline a pair the loop waits for is somewhere: queued, being
\* checked, in the results list or collected. With no fault, only slowness
\* can cost a round.
NothingVanishes ==
  (pc = "rvb" /\ faults = 0 /\ ~expired) =>
    \A p \in asked :
      LET t == [round |-> CurrentRound, pair |-> p, start |-> start] IN
        \/ \E i \in DOMAIN tasks : tasks[i] = t
        \/ \E r \in Runner : t \in working[r]
        \/ \E i \in DOMAIN results : results[i].task = t
        \/ \E i \in DOMAIN collected : collected[i].task = t

\* A round is saved with as many results as it asked for; opened once, it has
\* a result of every pair it asked for and every one was measured for this
\* start of the round. A partial round is never saved (engine.go:485-494).
SavedRoundIsComplete ==
  [][\A r \in DOMAIN rounds' \ DOMAIN rounds :
       /\ Len(rounds'[r]) = Cardinality(asked)
       /\ r \notin reopened =>
            /\ PairsOf(rounds'[r]) = asked
            /\ \A i \in DOMAIN rounds'[r] : rounds'[r][i].task.start = start]_vars

\* Whatever tasks and results are lost, an open round closes and the loop comes
\* back to its top: the deadline frees it (engine.go:484-494, engine.go:164).
RoundCloses == (pc = "rvb") ~> (pc = "idle")

\* The comment on the loop around Start (main.go:55): "start engine, restart if
\* it stops". The loop does return, on an error of GetTeams (engine.go:154-157),
\* but Start goes on waiting for a reset and nothing starts the loop again.
StoppedEngineRestarts == (pc = "dead") ~> (pc # "dead")

\* The comment on GetServiceAllChecksByTeam (db/servicechecks.go:129): "all
\* checks for a service, which is one per round".
ChecksAreOnePerRound ==
  \A r \in DOMAIN rounds : OnePerPair(rounds[r])

-----------------------------------------------------------------------------
(* The loop implements the abstract log *)

CONSTANT Garbled

VerdictsOf(s) ==
  [p \in PairsOf(s) |-> \E i \in DOMAIN s : s[i].task.pair = p /\ s[i].ok]

Log == INSTANCE RoundLog WITH
         log   <- [r \in DOMAIN rounds |->
                     IF OnePerPair(rounds[r]) THEN VerdictsOf(rounds[r]) ELSE Garbled],
         next  <- CurrentRound,
         used  <- opened,
         again <- reopened

\* Every step of the loop, the runners and the crashes is a step of the log or
\* none: rounds are recorded once, in order, and never change.
ImplementsRoundLog == Log!Spec

=============================================================================
