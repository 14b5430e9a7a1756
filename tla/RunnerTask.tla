----------------------------- MODULE RunnerTask -----------------------------
(***************************************************************************)
(* One runner process: handleTask and the goroutines it starts             *)
(* (runner/runner.go, Service.Run in engine/checks/checks.go).             *)
(*                                                                         *)
(* Every task gets a goroutine.  It shows "running" under the task's key   *)
(* in Redis, then makes up to Attempts attempts, each a goroutine Run of   *)
(* its own that reports through one channel with room for one result.  It  *)
(* waits for the report or the task's deadline, and goes on while there    *)
(* was neither a pass nor the deadline.  At the end it pushes the last     *)
(* result and then shows it under the key.  The process exits at a reset   *)
(* or dies, with everything it has in hand.                                *)
(*                                                                         *)
(* The tasks here are deliveries of one check of one round, so they share  *)
(* the key.  Each has its own deadline: a server that crashed enqueues the *)
(* check again, with a new one.  What a check does on the network is a Run *)
(* that reports either verdict, or nothing before the deadline; its own    *)
(* timeout reports a failure.                                              *)
(***************************************************************************)
EXTENDS Integers, FiniteSets

CONSTANTS
  Delivery,  \* the tasks
  Attempts,  \* Service.Attempts, 1 unless configured
  MaxFaults  \* bound: malformed tasks, failing Redis calls, exits

ASSUME AttemptsAssumption == Attempts \in Nat \ {0}

ASSUME RunnerBoundsAssumption == MaxFaults \in Nat

VARIABLES
  phase,     \* where the goroutine of each task is
  attempt,   \* the number of the attempt it makes
  running,   \* the Run goroutines that have not reported, by attempt
  channel,   \* resultsChan: the reports in it
  result,    \* the verdict it goes on with
  pushed,    \* the result list: the verdict of each task that has one
  key,       \* the task:* key: what it shows, by whom, when Redis drops it
  expired,   \* the tasks whose deadline has passed
  verdicts,  \* history: what the attempts reported, by task and attempt
  faults

taskVars  == <<phase, attempt, running, channel, result>>
redisVars == <<pushed, key>>

vars == <<taskVars, redisVars, expired, verdicts, faults>>

-----------------------------------------------------------------------------

Attempt == 1 .. Attempts

Busy == {"begin", "attempt", "select", "decide", "push", "final"}

NoKey == [shows |-> "none", by |-> {}, drops |-> "never"]

Fault == faults < MaxFaults /\ faults' = faults + 1

\* Beside decisions of the code stand the wrong ones that the checks tell
\* them from.

\* The time to live of the status "running": till the deadline. One that is
\* not positive is none, and the key stays.
KeepsRunning(passed) == "never"
RunningDrops(passed) == IF passed THEN "never" ELSE "deadline"

\* The wait for a report ends with the deadline.
WaitsOn(passed) == FALSE
GivesUp(passed) == passed

\* The attempts end: with a pass, with the deadline, or with the last one.
LastAttempt(ok, passed, n) == ok \/ n = Attempts
OneAttemptMore(ok, passed, n) == ok \/ passed \/ n > Attempts
NoMoreAttempts(ok, passed, n) == ok \/ passed \/ n = Attempts

\* The push failed: the goroutine returns, and the key stays as it is.
ShowsAnyway == "final"
AfterFailedPush == "done"

\* The attempts that count: the last one alone.
FirstVerdict(old, new, n) == IF n = 1 THEN new ELSE old
LastVerdict(old, new, n) == new

\* A task in hand when the process exits.
Requeued == "queued"
AfterExit == "done"

Shows(ok) == IF ok THEN "success" ELSE "failed"

Init ==
  /\ phase = [t \in Delivery |-> "queued"]
  /\ attempt = [t \in Delivery |-> 0]
  /\ running = [t \in Delivery |-> {}] /\ channel = [t \in Delivery |-> {}]
  /\ result = [t \in Delivery |-> FALSE]
  /\ pushed = [t \in {} |-> FALSE] /\ key = NoKey
  /\ expired = {}
  /\ verdicts = [t \in Delivery |-> {}]
  /\ faults = 0

GoTo(t, where) == phase' = [phase EXCEPT ![t] = where]

-----------------------------------------------------------------------------
(* The goroutine of a task *)

\* getNextTask pops it, createRunner makes the check.
TakeTask(t) ==
  /\ phase[t] = "queued"
  /\ GoTo(t, "begin")
  /\ UNCHANGED <<attempt, running, channel, result, redisVars, expired, verdicts, faults>>

\* It cannot be read or its type is unknown: the error is logged, the task gone.
DropTask(t) ==
  /\ phase[t] = "begin" /\ Fault
  /\ GoTo(t, "done")
  /\ UNCHANGED <<attempt, running, channel, result, redisVars, expired, verdicts>>

Begin(t) ==
  /\ phase[t] = "begin"
  /\ GoTo(t, "attempt")
  /\ key' = [shows |-> "running", by |-> {t}, drops |-> RunningDrops(t \in expired)]
  /\ UNCHANGED <<attempt, running, channel, result, pushed, expired, verdicts, faults>>

\* The error of a Set is ignored: the key stays as it is.
BeginUnshown(t) ==
  /\ phase[t] = "begin" /\ Fault
  /\ GoTo(t, "attempt")
  /\ UNCHANGED <<attempt, running, channel, result, redisVars, expired, verdicts>>

StartAttempt(t) ==
  /\ phase[t] = "attempt"
  /\ GoTo(t, "select")
  /\ attempt' = [attempt EXCEPT ![t] = @ + 1]
  /\ running' = [running EXCEPT ![t] = @ \cup {attempt'[t]}]
  /\ UNCHANGED <<channel, result, redisVars, expired, verdicts, faults>>

\* A Run reports, if the channel has room. Later nobody may be listening.
Report(t, n, ok) ==
  /\ n \in running[t] /\ channel[t] = {}
  /\ running' = [running EXCEPT ![t] = @ \ {n}]
  /\ channel' = [channel EXCEPT ![t] = {[attempt |-> n, ok |-> ok]}]
  /\ verdicts' = [verdicts EXCEPT ![t] = @ \cup {[attempt |-> n, ok |-> ok]}]
  /\ UNCHANGED <<phase, attempt, result, redisVars, expired, faults>>

Receive(t) ==
  /\ phase[t] = "select"
  /\ \E report \in channel[t] :
       result' = [result EXCEPT ![t] = LastVerdict(@, report.ok, attempt[t])]
  /\ channel' = [channel EXCEPT ![t] = {}]
  /\ GoTo(t, "decide")
  /\ UNCHANGED <<attempt, running, redisVars, expired, verdicts, faults>>

\* checkCtx is done. If a report is there too, select picks either.
GiveUp(t) ==
  /\ phase[t] = "select" /\ GivesUp(t \in expired)
  /\ result' = [result EXCEPT ![t] = FALSE]
  /\ GoTo(t, "decide")
  /\ UNCHANGED <<attempt, running, channel, redisVars, expired, verdicts, faults>>

Decide(t) ==
  /\ phase[t] = "decide"
  /\ GoTo(t, IF NoMoreAttempts(result[t], t \in expired, attempt[t]) THEN "push" ELSE "attempt")
  /\ UNCHANGED <<attempt, running, channel, result, redisVars, expired, verdicts, faults>>

Push(t) ==
  /\ phase[t] = "push"
  /\ pushed' = [u \in DOMAIN pushed \cup {t} |-> IF u = t THEN result[t] ELSE pushed[u]]
  /\ GoTo(t, "final")
  /\ UNCHANGED <<attempt, running, channel, result, key, expired, verdicts, faults>>

PushFails(t) ==
  /\ phase[t] = "push" /\ Fault
  /\ GoTo(t, AfterFailedPush)
  /\ UNCHANGED <<attempt, running, channel, result, redisVars, expired, verdicts>>

\* The outcome is shown for three minutes more.
ShowResult(t) ==
  /\ phase[t] = "final"
  /\ key' = [shows |-> Shows(result[t]), by |-> {t}, drops |-> "later"]
  /\ GoTo(t, "done")
  /\ UNCHANGED <<attempt, running, channel, result, pushed, expired, verdicts, faults>>

ShowFails(t) ==
  /\ phase[t] = "final" /\ Fault
  /\ GoTo(t, "done")
  /\ UNCHANGED <<attempt, running, channel, result, redisVars, expired, verdicts>>

-----------------------------------------------------------------------------
(* Time, and the process *)

Deadline(t) ==
  /\ t \notin expired /\ expired' = expired \cup {t}
  /\ UNCHANGED <<taskVars, redisVars, verdicts, faults>>

\* Redis drops the key.
Expire ==
  /\ key.drops = "later" \/ (key.drops = "deadline" /\ key.by \subseteq expired)
  /\ key' = NoKey
  /\ UNCHANGED <<taskVars, pushed, expired, verdicts, faults>>

\* The process exits, at a reset or otherwise, and is started again.
Exit ==
  /\ Fault
  /\ phase' = [t \in Delivery |-> IF phase[t] \in Busy THEN AfterExit ELSE phase[t]]
  /\ running' = [t \in Delivery |-> {}] /\ channel' = [t \in Delivery |-> {}]
  /\ UNCHANGED <<attempt, result, redisVars, expired, verdicts>>

-----------------------------------------------------------------------------

TaskStep(t) ==
  \/ Begin(t) \/ StartAttempt(t) \/ Receive(t) \/ GiveUp(t) \/ Decide(t)
  \/ Push(t) \/ ShowResult(t)

FailedCall(t) == DropTask(t) \/ BeginUnshown(t) \/ PushFails(t) \/ ShowFails(t)

Next ==
  \/ \E t \in Delivery : TakeTask(t) \/ TaskStep(t) \/ FailedCall(t) \/ Deadline(t)
  \/ \E t \in Delivery, n \in Attempt, ok \in BOOLEAN : Report(t, n, ok)
  \/ Expire \/ Exit

Spec == Init /\ [][Next]_vars

\* A goroutine that can go on does, time passes, and Redis drops keys. A Run
\* need not report, nobody has to take a task.
FairSpec ==
  /\ Spec
  /\ \A t \in Delivery : WF_vars(TaskStep(t)) /\ WF_vars(Deadline(t))
  /\ WF_vars(Expire)

-----------------------------------------------------------------------------
(* Properties *)

TypeOK ==
  /\ phase \in [Delivery -> Busy \cup {"queued", "done"}]
  /\ attempt \in [Delivery -> 0 .. Attempts]
  /\ running \in [Delivery -> SUBSET Attempt]
  /\ channel \in [Delivery -> SUBSET [attempt : Attempt, ok : BOOLEAN]]
  /\ verdicts \in [Delivery -> SUBSET [attempt : Attempt, ok : BOOLEAN]]
  /\ result \in [Delivery -> BOOLEAN]
  /\ DOMAIN pushed \subseteq Delivery /\ \A t \in DOMAIN pushed : pushed[t] \in BOOLEAN
  /\ key \in [shows : {"none", "running", "success", "failed"}, by : SUBSET Delivery,
              drops : {"never", "deadline", "later"}]
  /\ expired \in SUBSET Delivery /\ faults \in Nat

\* The one channel never mixes attempts: whatever is still to be reported or
\* received is of the attempt that is being made, and none is outstanding when
\* the next begins. So a Run never waits for room either
\* (runner.go:181-236).
AttemptsApart ==
  \A t \in Delivery :
    /\ running[t] \cup {report.attempt : report \in channel[t]} \subseteq {attempt[t]}
    /\ running[t] = {} \/ channel[t] = {}
    /\ phase[t] = "attempt" => running[t] = {} /\ channel[t] = {}

\* A pass is pushed only if an attempt passed; a failure only if every attempt
\* failed, or the task's own deadline came (runner.go:200-241).
VerdictIsEarned ==
  \A t \in DOMAIN pushed :
    IF pushed[t]
      THEN [attempt |-> attempt[t], ok |-> TRUE] \in verdicts[t]
      ELSE t \in expired \/ verdicts[t] = [attempt : Attempt, ok : {FALSE}]

\* The key shows an outcome only after the task that shows it has it in the
\* results list, where the engine finds it (runner.go:244-257).
ShownIsPushed ==
  key.shows \in {"success", "failed"} =>
    \E t \in key.by \cap DOMAIN pushed : Shows(pushed[t]) = key.shows

Fate == INSTANCE TaskFate
          WITH queued   <- {t \in Delivery : phase[t] = "queued"},
               inHand   <- {t \in Delivery : phase[t] \in Busy \ {"final"}},
               answered <- pushed

\* handleTask keeps what RoundEngine takes a runner for: every task is taken
\* once, and then answered once or lost (runner.go:70-147, 160-257).
ImplementsTaskFate == Fate!Spec

\* A task that was taken is settled, though its Run may never report
\* (runner.go:212-227).
TakenIsSettled == \A t \in Delivery : phase[t] = "begin" ~> phase[t] = "done"

\* A check that a task shows as running before its deadline stops being shown
\* so, even if its runner died, unless a delivery of it is begun after its own
\* deadline (runner.go:176-178).
RunningEnds ==
  key.shows = "running" /\ key.by \cap expired = {} ~>
    key.shows # "running" \/ \E t \in expired : phase[t] \in {"queued", "begin"}

=============================================================================
