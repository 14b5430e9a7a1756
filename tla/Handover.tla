------------------------------ MODULE Handover ------------------------------
(***************************************************************************)
(* ResetScores beside rounds: the lists of Redis, the one CurrentRound,    *)
(* and the two loop goroutines that share them (engine.go, runner.go).     *)
(*                                                                         *)
(* A reset truncates the tables, deletes both lists, tells everybody and   *)
(* sets the number to 1, each in a step of its own.  The loop goroutine it *)
(* ends may be inside a round: it looks at its messages only between two   *)
(* blocking pops, and Redis serves the client that has waited longest,     *)
(* whoever put the task in.  Runner processes exit on the message, after   *)
(* some time; what they push till then stays in the new list.  A result    *)
(* is taken for a round by its number alone, and the numbers begin again.  *)
(*                                                                         *)
(* Rounds, faults and crashes of one loop are RoundEngine's subject, pause *)
(* and the delivery of messages EngineControl's.  Here no call fails, the  *)
(* server does not crash, every pair is enqueued, and a result is the task *)
(* it answers.  `open' in a task numbers the opening of its round: it is   *)
(* history, and no guard reads it.                                         *)
(***************************************************************************)
EXTENDS Integers, Sequences, FiniteSets

CONSTANTS
  Pair,       \* the (team, service) pairs of a round
  Runner,     \* the runner processes
  MaxStarts,  \* bound: calls of Start, and so loop goroutines
  MaxResets,  \* bound: calls of ResetScores
  MaxOpens    \* bound: rounds opened

ASSUME HandoverBoundsAssumption == MaxStarts \in Nat \ {0} /\ {MaxResets, MaxOpens} \subseteq Nat

ASSUME PairAssumption == IsFiniteSet(Pair)

VARIABLES
  \* fields of ScoringEngine that every loop uses
  CurrentRound,
  \* Start in the main goroutine, and ResetScores
  main, gen, reset,
  \* each loop goroutine: where it is, its subscription, and in rvb() the
  \* round's subscription, the deadline, the pairs to enqueue, how many
  \* results it counts on, those it has, and the one BLPop just returned
  loop, inbox, roundInbox, expired, todo, runners, collected, popped,
  \* Redis: the lists, and the clients blocked on `results' in their order
  tasks, results, waiters,
  \* the runner processes: tasks in hand, and whether the reset is on its way
  working, signalled,
  \* the database
  rounds,
  \* history, and counters that only the bounds read
  opening, after, crossed, late, resets, opens,
  \* and of the latest loop's round: the tasks older loops took, those that
  \* runners exited with, and whether it met what else can cost it a task
  stolen, killed, disturbed

mainVars    == <<main, gen, reset, resets>>
roundVars   == <<roundInbox, expired, todo, runners, collected, popped>>
redisVars   == <<tasks, results, waiters>>
runnerVars  == <<working, signalled>>
historyVars == <<opening, after, crossed, late>>
lossVars    == <<stolen, killed, disturbed>>

vars == <<CurrentRound, mainVars, loop, inbox, roundVars, redisVars, runnerVars,
          rounds, historyVars, lossVars, opens>>

-----------------------------------------------------------------------------

Gen == 1 .. MaxStarts

Task == [pair : Pair, round : Nat, open : Nat]

Delivery == {"none", "sent", "told"}

\* A loop inside rvb().
InRound(g) == loop[g] \in {"clear", "enqueue", "collect", "blocked", "popped"}

Short(g) == Len(collected[g]) < runners[g]

\* Beside decisions of the code stand the wrong ones (AcceptsAll, ...) that
\* the checks tell them from.

\* The filter on the round number of a result.
AcceptsAll(task) == TRUE
AcceptsPrevious(task) == task.round + 1 = CurrentRound
Accepts(task) == task.round = CurrentRound

\* Does a loop look at its messages before the next pop?
NeverReads(delivery) == FALSE
Reads(delivery) == delivery = "told"

\* The message that ends a loop between two rounds.
NeverEnds(delivery) == FALSE
Ends(delivery) == delivery = "told"

\* What a reset leaves of the list `results'.
KeptResults(list) == list
ResultsAfterReset(list) == <<>>

\* The number a reset leaves.
NoNumber == 0
FirstNumber == 1

Init ==
  /\ CurrentRound = 1 /\ main = "waiting" /\ gen = 1 /\ reset = "idle"
  /\ loop = [g \in Gen |-> IF g = 1 THEN "top" ELSE "none"]
  /\ inbox = [g \in Gen |-> "none"] /\ roundInbox = [g \in Gen |-> "none"]
  /\ expired = [g \in Gen |-> FALSE] /\ todo = [g \in Gen |-> {}]
  /\ runners = [g \in Gen |-> 0] /\ collected = [g \in Gen |-> <<>>]
  /\ popped = [g \in Gen |-> {}]
  /\ tasks = <<>> /\ results = <<>> /\ waiters = <<>>
  /\ working = [r \in Runner |-> {}] /\ signalled = [r \in Runner |-> FALSE]
  /\ rounds = [n \in {} |-> <<>>]
  /\ opening = [g \in Gen |-> 0] /\ after = [g \in Gen |-> 0]
  /\ crossed = FALSE /\ late = FALSE /\ resets = 0 /\ opens = 0
  /\ stolen = [g \in Gen |-> {}] /\ killed = {} /\ disturbed = FALSE

-----------------------------------------------------------------------------
(* ResetScores, and Start after it *)

\* A step that sets the number disturbs the round if it changes it.
Renumbers == disturbed' = (disturbed \/ CurrentRound' # CurrentRound) /\ UNCHANGED <<stolen, killed>>

Disturbs == disturbed' = TRUE /\ UNCHANGED <<stolen, killed>>

Truncate ==
  /\ reset = "idle" /\ resets < MaxResets
  /\ reset' = "truncated" /\ resets' = resets + 1
  /\ rounds' = [n \in {} |-> <<>>]
  /\ crossed' = (crossed \/ \E g \in Gen : InRound(g) \/ loop[g] = "saved")
  /\ UNCHANGED <<CurrentRound, main, gen, loop, inbox, roundVars, redisVars, runnerVars,
                 opening, after, late, lossVars, opens>>

DeleteTasks ==
  /\ reset = "truncated"
  /\ reset' = "tasksGone" /\ tasks' = <<>> /\ Disturbs
  /\ UNCHANGED <<CurrentRound, main, gen, resets, loop, inbox, roundVars, results, waiters,
                 runnerVars, rounds, historyVars, opens>>

DeleteResults ==
  /\ reset = "tasksGone"
  /\ reset' = "resultsGone" /\ results' = ResultsAfterReset(results) /\ Disturbs
  /\ UNCHANGED <<CurrentRound, main, gen, resets, loop, inbox, roundVars, tasks, waiters,
                 runnerVars, rounds, historyVars, opens>>

\* A reset that was delivered is not taken back by a second one.
AfterPublish(delivery) == IF delivery = "told" THEN "told" ELSE "sent"

\* Who is subscribed gets the message some time later: the loops, the rounds
\* they are in, the runners, and waitForReset while Start is in it.
PublishReset ==
  /\ reset = "resultsGone"
  /\ reset' = "published" /\ main' = IF main = "waiting" THEN "heard" ELSE main
  /\ inbox' = [g \in Gen |-> IF loop[g] \in {"none", "gone"} THEN inbox[g] ELSE AfterPublish(inbox[g])]
  /\ roundInbox' = [g \in Gen |-> IF InRound(g) THEN AfterPublish(roundInbox[g]) ELSE roundInbox[g]]
  /\ signalled' = [r \in Runner |-> TRUE]
  /\ UNCHANGED <<CurrentRound, gen, resets, loop, expired, todo, runners, collected, popped,
                 redisVars, working, rounds, historyVars, lossVars, opens>>

ResetNumber ==
  /\ reset = "published"
  /\ reset' = "idle" /\ CurrentRound' = FirstNumber /\ Renumbers
  /\ UNCHANGED <<main, gen, resets, loop, inbox, roundVars, redisVars, runnerVars, rounds,
                 historyVars, opens>>

\* Start again: the number from the database, then the next loop goroutine.
StartLoads ==
  /\ main = "heard" /\ gen < MaxStarts
  /\ main' = "starting"
  /\ \E last \in DOMAIN rounds \cup {0} :
       (\A n \in DOMAIN rounds : n <= last) /\ CurrentRound' = last + 1
  /\ Renumbers
  /\ UNCHANGED <<gen, reset, resets, loop, inbox, roundVars, redisVars, runnerVars, rounds,
                 historyVars, opens>>

StartSpawns ==
  /\ main = "starting"
  /\ main' = "waiting" /\ gen' = gen + 1
  /\ loop' = [loop EXCEPT ![gen + 1] = "top"]
  /\ UNCHANGED <<CurrentRound, reset, resets, inbox, roundVars, redisVars, runnerVars,
                 rounds, historyVars, lossVars, opens>>

\* The client library hands a message over.
Deliver(g) ==
  /\ \/ /\ inbox[g] = "sent" /\ inbox' = [inbox EXCEPT ![g] = "told"]
        /\ UNCHANGED roundInbox
     \/ /\ roundInbox[g] = "sent" /\ roundInbox' = [roundInbox EXCEPT ![g] = "told"]
        /\ UNCHANGED inbox
  /\ UNCHANGED <<CurrentRound, mainVars, loop, expired, todo, runners, collected, popped,
                 redisVars, runnerVars, rounds, historyVars, lossVars, opens>>

-----------------------------------------------------------------------------
(* A loop goroutine and its rvb() *)

\* The locals of rvb() go with it.
EndRound(g) ==
  /\ roundInbox' = [roundInbox EXCEPT ![g] = "none"]
  /\ expired' = [expired EXCEPT ![g] = FALSE] /\ todo' = [todo EXCEPT ![g] = {}]
  /\ runners' = [runners EXCEPT ![g] = 0] /\ collected' = [collected EXCEPT ![g] = <<>>]

\* Between two rounds the reset ends the loop.
ReadAtTop(g) ==
  /\ loop[g] = "top" /\ Ends(inbox[g])
  /\ loop' = [loop EXCEPT ![g] = "gone"] /\ inbox' = [inbox EXCEPT ![g] = "none"]
  /\ UNCHANGED <<CurrentRound, mainVars, roundVars, redisVars, runnerVars, rounds,
                 historyVars, lossVars, opens>>

\* A round opens. It has the length of the list: what is in it is stale,
\* whoever put it there.
Open(g) ==
  /\ loop[g] = "top" /\ ~Ends(inbox[g]) /\ opens < MaxOpens
  /\ loop' = [loop EXCEPT ![g] = IF tasks = <<>> THEN "enqueue" ELSE "clear"]
  /\ todo' = [todo EXCEPT ![g] = Pair]
  /\ opens' = opens + 1 /\ opening' = [opening EXCEPT ![g] = opens + 1]
  /\ after' = [after EXCEPT ![g] = 0]
  /\ crossed' = (crossed \/ reset # "idle" \/ inbox[g] = "sent")
  /\ IF g = gen
       THEN stolen' = [h \in Gen |-> {}] /\ killed' = {} /\ disturbed' = FALSE
       ELSE Disturbs
  /\ UNCHANGED <<CurrentRound, mainVars, inbox, roundInbox, expired, runners, collected,
                 popped, redisVars, runnerVars, rounds, late>>

\* The list is deleted, with what has come into it since its length was read;
\* after the deadline it is not.
Clear(g) ==
  /\ loop[g] = "clear"
  /\ loop' = [loop EXCEPT ![g] = "enqueue"]
  /\ tasks' = IF expired[g] THEN tasks ELSE <<>>
  /\ IF g = gen THEN UNCHANGED lossVars ELSE Disturbs
  /\ UNCHANGED <<CurrentRound, mainVars, inbox, roundVars, results, waiters, runnerVars,
                 rounds, historyVars, opens>>

\* The task bears the number the field has now. Its push fails once the
\* deadline has passed; the pair is counted all the same.
Enqueue(g, p) ==
  /\ loop[g] = "enqueue" /\ p \in todo[g]
  /\ todo' = [todo EXCEPT ![g] = @ \ {p}]
  /\ runners' = [runners EXCEPT ![g] = @ + 1]
  /\ tasks' = IF expired[g] THEN tasks
              ELSE Append(tasks, [pair |-> p, round |-> CurrentRound, open |-> opening[g]])
  /\ loop' = [loop EXCEPT ![g] = IF todo[g] = {p} THEN "collect" ELSE "enqueue"]
  /\ UNCHANGED <<CurrentRound, mainVars, inbox, roundInbox, expired, collected, popped,
                 results, waiters, runnerVars, rounds, historyVars, lossVars, opens>>

\* The reset is found between two pops, and the round's error ends the loop.
QuitRound(g) ==
  /\ loop[g] = "collect" /\ Short(g) /\ Reads(roundInbox[g])
  /\ loop' = [loop EXCEPT ![g] = "gone"] /\ inbox' = [inbox EXCEPT ![g] = "none"]
  /\ EndRound(g)
  /\ UNCHANGED <<CurrentRound, mainVars, popped, redisVars, runnerVars, rounds, historyVars,
                 lossVars, opens>>

\* A result goes to a loop, which may have the message already, and may be an
\* older one than that of the result's round.
Taken(g, task) ==
  LET foreign == g # gen /\ task.open = opening[gen] IN
  /\ popped' = [popped EXCEPT ![g] = {task}]
  /\ loop' = [loop EXCEPT ![g] = "popped"]
  /\ after' = [after EXCEPT ![g] = IF roundInbox[g] = "told" THEN @ + 1 ELSE @]
  /\ stolen' = [stolen EXCEPT ![g] = IF foreign THEN @ \cup {task} ELSE @]
  /\ disturbed' = (disturbed \/ (foreign /\ roundInbox[g] # "told"))
  /\ UNCHANGED killed

\* BLPop: the head of the list at once, or a place among those who wait.
Pop(g) ==
  /\ loop[g] = "collect" /\ Short(g) /\ ~Reads(roundInbox[g]) /\ ~expired[g]
  /\ IF results # <<>>
       THEN Taken(g, Head(results)) /\ results' = Tail(results) /\ UNCHANGED waiters
       ELSE /\ waiters' = Append(waiters, g) /\ UNCHANGED <<popped, results, after, lossVars>>
            /\ loop' = [loop EXCEPT ![g] = "blocked"]
  /\ UNCHANGED <<CurrentRound, mainVars, inbox, roundInbox, expired, todo, runners, collected,
                 tasks, runnerVars, rounds, opening, crossed, late, opens>>

\* The result is kept if it bears the number the field has now.
Accept(g) ==
  /\ loop[g] = "popped"
  /\ collected' = [collected EXCEPT ![g] =
                     IF \A task \in popped[g] : Accepts(task)
                       THEN @ \o <<CHOOSE task \in popped[g] : TRUE>> ELSE @]
  /\ popped' = [popped EXCEPT ![g] = {}]
  /\ loop' = [loop EXCEPT ![g] = "collect"]
  /\ UNCHANGED <<CurrentRound, mainVars, inbox, roundInbox, expired, todo, runners, redisVars,
                 runnerVars, rounds, historyVars, lossVars, opens>>

\* A client whose time is up leaves the queue from wherever it stands.
LeaveQueue(g) ==
  \E k \in DOMAIN waiters :
    /\ waiters[k] = g
    /\ waiters' = SubSeq(waiters, 1, k - 1) \o SubSeq(waiters, k + 1, Len(waiters))

\* The deadline before the last result: nothing is saved.
Discard(g) ==
  /\ loop[g] \in {"collect", "blocked"} /\ Short(g) /\ expired[g]
  /\ loop[g] = "collect" => ~Reads(roundInbox[g])
  /\ IF loop[g] = "blocked" THEN LeaveQueue(g) ELSE UNCHANGED waiters
  /\ loop' = [loop EXCEPT ![g] = "saved"]
  /\ EndRound(g)
  /\ UNCHANGED <<CurrentRound, mainVars, inbox, popped, tasks, results, runnerVars, rounds,
                 historyVars, lossVars, opens>>

\* Everything counted on is there: saved under the number the field has now,
\* unless the table has it.
Save(g) ==
  /\ loop[g] = "collect" /\ ~Short(g)
  /\ rounds' = IF CurrentRound \in DOMAIN rounds THEN rounds
               ELSE [n \in DOMAIN rounds \cup {CurrentRound} |->
                       IF n = CurrentRound
                         THEN [open |-> opening[g], results |-> collected[g]]
                         ELSE rounds[n]]
  /\ loop' = [loop EXCEPT ![g] = "saved"]
  /\ EndRound(g)
  /\ UNCHANGED <<CurrentRound, mainVars, inbox, popped, redisVars, runnerVars, historyVars,
                 lossVars, opens>>

\* CurrentRound++, and the sleep till some time after.
Count(g) ==
  /\ loop[g] = "saved"
  /\ CurrentRound' = CurrentRound + 1 /\ Renumbers
  /\ loop' = [loop EXCEPT ![g] = "sleep"]
  /\ UNCHANGED <<mainVars, inbox, roundVars, redisVars, runnerVars, rounds, historyVars,
                 opens>>

Wake(g) ==
  /\ loop[g] = "sleep"
  /\ loop' = [loop EXCEPT ![g] = "top"]
  /\ UNCHANGED <<CurrentRound, mainVars, inbox, roundVars, redisVars, runnerVars, rounds,
                 historyVars, lossVars, opens>>

Deadline(g) ==
  /\ InRound(g) /\ ~expired[g]
  /\ expired' = [expired EXCEPT ![g] = TRUE]
  /\ UNCHANGED <<CurrentRound, mainVars, loop, inbox, roundInbox, todo, runners, collected,
                 popped, redisVars, runnerVars, rounds, historyVars, lossVars, opens>>

-----------------------------------------------------------------------------
(* The runner processes *)

Take(r) ==
  /\ tasks # <<>>
  /\ working' = [working EXCEPT ![r] = @ \cup {Head(tasks)}]
  /\ tasks' = Tail(tasks)
  /\ UNCHANGED <<CurrentRound, mainVars, loop, inbox, roundVars, results, waiters, signalled,
                 rounds, historyVars, lossVars, opens>>

\* RPush: the client that has waited longest gets it, or the list.
Push(r, task) ==
  /\ task \in working[r]
  /\ working' = [working EXCEPT ![r] = @ \ {task}]
  /\ IF waiters = <<>>
       THEN results' = Append(results, task) /\ UNCHANGED <<waiters, popped, loop, after, lossVars>>
       ELSE Taken(Head(waiters), task) /\ waiters' = Tail(waiters) /\ UNCHANGED results
  /\ late' = (late \/ signalled[r] \/ reset = "resultsGone")
  /\ UNCHANGED <<CurrentRound, mainVars, inbox, roundInbox, expired, todo, runners, collected,
                 tasks, signalled, rounds, opening, crossed, opens>>

\* The reset reaches a runner: the process exits and is started anew.
Exit(r) ==
  /\ signalled[r]
  /\ signalled' = [signalled EXCEPT ![r] = FALSE]
  /\ working' = [working EXCEPT ![r] = {}]
  /\ killed' = killed \cup {task \in working[r] : task.open = opening[gen]}
  /\ UNCHANGED <<CurrentRound, mainVars, loop, inbox, roundVars, redisVars, rounds, historyVars,
                 stolen, disturbed, opens>>

-----------------------------------------------------------------------------

ResetStep == DeleteTasks \/ DeleteResults \/ PublishReset \/ ResetNumber

StartStep == StartLoads \/ StartSpawns

LoopStep(g) ==
  \/ ReadAtTop(g) \/ Open(g) \/ Clear(g) \/ (\E p \in Pair : Enqueue(g, p)) \/ QuitRound(g)
  \/ Pop(g) \/ Accept(g) \/ Discard(g) \/ Save(g) \/ Count(g) \/ Wake(g)

RunnerStep(r) == Take(r) \/ (\E task \in working[r] : Push(r, task)) \/ Exit(r)

Next ==
  \/ Truncate \/ ResetStep \/ StartStep
  \/ \E g \in Gen : LoopStep(g) \/ Deliver(g) \/ Deadline(g)
  \/ \E r \in Runner : RunnerStep(r)

Spec == Init /\ [][Next]_vars

-----------------------------------------------------------------------------
(* Properties *)

LoopStates ==
  {"none", "top", "clear", "enqueue", "collect", "blocked", "popped", "saved", "sleep", "gone"}

TypeOK ==
  /\ CurrentRound \in Nat \ {0} /\ gen \in Gen
  /\ main \in {"waiting", "heard", "starting"}
  /\ reset \in {"idle", "truncated", "tasksGone", "resultsGone", "published"}
  /\ loop \in [Gen -> LoopStates]
  /\ inbox \in [Gen -> Delivery] /\ roundInbox \in [Gen -> Delivery]
  /\ expired \in [Gen -> BOOLEAN] /\ todo \in [Gen -> SUBSET Pair]
  /\ runners \in [Gen -> Nat] /\ collected \in [Gen -> Seq(Task)]
  /\ popped \in [Gen -> SUBSET Task]
  /\ tasks \in Seq(Task) /\ results \in Seq(Task) /\ waiters \in Seq(Gen)
  /\ working \in [Runner -> SUBSET Task] /\ signalled \in [Runner -> BOOLEAN]
  /\ DOMAIN rounds \subseteq Nat \ {0}
  /\ \A n \in DOMAIN rounds : rounds[n] \in [open : Nat, results : Seq(Task)]
  /\ opening \in [Gen -> Nat] /\ after \in [Gen -> Nat]
  /\ crossed \in BOOLEAN /\ late \in BOOLEAN
  /\ stolen \in [Gen -> SUBSET Task] /\ killed \in SUBSET Task /\ disturbed \in BOOLEAN
  /\ resets \in Nat /\ opens \in Nat

Elements(s) == {s[i] : i \in 1 .. Len(s)}

FreshRound(n) ==
  /\ Len(rounds[n].results) = Cardinality(Pair)
  /\ {task.pair : task \in Elements(rounds[n].results)} = Pair
  /\ \A task \in Elements(rounds[n].results) : task.open = rounds[n].open

\* Every saved round, before and after a reset, holds one result of each pair,
\* all of its own opening, although the numbers begin again: unless the reset
\* met a round, or a runner pushed between the deletion of the list and its
\* own exit (engine.go:302-333, 506-517; runner.go:57-67).
FreshAfterReset == ~crossed /\ ~late => \A n \in DOMAIN rounds : FreshRound(n)

\* Where the tasks of a loop's round can be.
Places(g) ==
  Elements(tasks) \cup Elements(results) \cup Elements(collected[g])
  \cup popped[g] \cup UNION {working[r] : r \in Runner}

\* Whatever the reset met, the round of the latest loop loses no task without
\* a cause.  Before its deadline each pair it has enqueued is queued, with a
\* runner, in the list or collected, or a runner exited with it, or an older
\* loop took it; and of the older loops each took one at most, the one it was
\* blocked for when the reset told it.  Excepted is a round that was disturbed:
\* a list deleted or the number changed under it, an older loop that opened a
\* round beside it or took from it before the message was there
\* (engine.go:130-137, 391-405, 473-517; runner.go:57-67).
LossesAccountedFor ==
  InRound(gen) /\ ~expired[gen] /\ ~disturbed =>
    /\ \A p \in Pair \ todo[gen] :
         \E task \in Places(gen) \cup killed \cup UNION {stolen[g] : g \in Gen} :
           task.pair = p /\ task.open = opening[gen]
    /\ \A g \in Gen : Cardinality(stolen[g]) <= 1

\* Whatever the reset met, a round that has the message takes one more result
\* at most, the one it was blocked for (engine.go:473-486).
OneMoreAtMost == \A g \in Gen : after[g] <= 1

\* A round saved otherwise than whole is of no opening.
SeasonRounds == [n \in DOMAIN rounds |-> IF FreshRound(n) THEN rounds[n].open ELSE 0]

\* Between Save and Count the field still has the number of the round saved.
SeasonNumber == IF loop[gen] = "saved" THEN CurrentRound + 1 ELSE CurrentRound

SeasonOpening == IF InRound(gen) THEN opening[gen] ELSE 0

Season == INSTANCE SeasonLog WITH
  log <- SeasonRounds, next <- SeasonNumber, open <- SeasonOpening, opened <- opens,
  spoilt <- crossed \/ late

\* The seasons between two resets: rounds opened one at a time under rising
\* numbers from 1, each saved whole or left out, the season wiped and the
\* numbers set back only between two rounds, unless the reset met a round or a
\* runner pushed behind it (engine.go:85-151, 302-333).
ImplementsSeasonLog == Season!Spec

=============================================================================
