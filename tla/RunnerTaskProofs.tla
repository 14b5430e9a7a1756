-------------------------- MODULE RunnerTaskProofs --------------------------
(***************************************************************************)
(* Proofs about RunnerTask, for any set of deliveries, any number of       *)
(* attempts and any number of faults.                                      *)
(*                                                                         *)
(* One channel serves all attempts of a task, and a Run that was given up  *)
(* may still report.  The invariant is therefore a record of what a task   *)
(* has heard at each place it can be: till the deadline every attempt      *)
(* before the present one has failed (Failed), the present one is running, *)
(* or its report is in the channel, or is the result (Heard).  After the   *)
(* deadline only a pass must still be backed by a report (Backed).         *)
(***************************************************************************)
EXTENDS RunnerTask, TLAPS

\* The reports of n attempts that all failed.
Failed(n) == [attempt : 1 .. n, ok : {FALSE}]

\* The report the task goes on with.
Own(t) == [attempt |-> attempt[t], ok |-> result[t]]

Fresh == \A t \in Delivery :
  phase[t] \in {"queued", "begin"} =>
    attempt[t] = 0 /\ running[t] = {} /\ channel[t] = {} /\ verdicts[t] = {}

\* An attempt is made only if one is left.
AttemptLeft == \A t \in Delivery :
  /\ phase[t] = "attempt" => attempt[t] < Attempts
  /\ phase[t] \in {"select", "decide", "push"} => attempt[t] # 0

\* Nothing of an attempt is outstanding once its report was received in time.
Quiet == \A t \in Delivery :
  (phase[t] \in {"decide", "push", "final", "done"} /\ t \notin expired) =>
    running[t] = {} /\ channel[t] = {}

\* The channel has room for one.
OneReport == \A t \in Delivery : \A a, b \in channel[t] : a = b

\* What was reported in time, by the place of the task.
HeardBy(t) == t \notin expired =>
  /\ phase[t] = "attempt" => verdicts[t] = Failed(attempt[t])
  /\ phase[t] = "select" => verdicts[t] = Failed(attempt[t] - 1) \cup channel[t]
  /\ phase[t] = "select" => running[t] # {} \/ channel[t] # {}
  /\ phase[t] \in {"decide", "push"} =>
       verdicts[t] = Failed(attempt[t] - 1) \cup {Own(t)}
  /\ phase[t] = "push" => result[t] \/ attempt[t] = Attempts

Heard == \A t \in Delivery : HeardBy(t)

\* A pass was reported by the attempt it is taken for.
BackedBy(t) ==
  /\ channel[t] \subseteq verdicts[t]
  /\ phase[t] \in {"decide", "push"} /\ result[t] => Own(t) \in verdicts[t]

Backed == \A t \in Delivery : BackedBy(t)

\* A task has its place in the results list from its push on.
PushedLast ==
  /\ \A t \in DOMAIN pushed : phase[t] \in {"final", "done"}
  /\ \A t \in Delivery : phase[t] = "final" => t \in DOMAIN pushed /\ pushed[t] = result[t]

IInv ==
  /\ TypeOK /\ Fresh /\ AttemptLeft /\ Quiet /\ AttemptsApart /\ OneReport
  /\ Heard /\ Backed /\ PushedLast /\ VerdictIsEarned /\ ShownIsPushed

-----------------------------------------------------------------------------

\* One failed attempt more.
LEMMA FailedNext ==
  ASSUME NEW n \in Nat \ {0}
  PROVE  Failed(n - 1) \cup {[attempt |-> n, ok |-> FALSE]} = Failed(n)
<1>1. ASSUME NEW r \in Failed(n) PROVE r \in Failed(n - 1) \cup {[attempt |-> n, ok |-> FALSE]}
  <2>1. r = [attempt |-> r.attempt, ok |-> r.ok] /\ r.attempt \in 1 .. n /\ r.ok = FALSE
    BY <1>1 DEF Failed
  <2>2. CASE r.attempt = n
    BY <2>1, <2>2
  <2>3. CASE r.attempt \in 1 .. n - 1
    BY <2>1, <2>3 DEF Failed
  <2>4. QED
    BY <2>1, <2>2, <2>3
<1>2. [attempt |-> n, ok |-> FALSE] \in Failed(n)
  BY DEF Failed
<1>3. ASSUME NEW r \in Failed(n - 1) PROVE r \in Failed(n)
  <2>1. r = [attempt |-> r.attempt, ok |-> r.ok] /\ r.attempt \in 1 .. n - 1 /\ r.ok = FALSE
    BY <1>3 DEF Failed
  <2>2. r.attempt \in 1 .. n
    BY <2>1
  <2>3. QED
    BY <2>1, <2>2 DEF Failed
<1>4. QED
  BY <1>1, <1>2, <1>3

LEMMA FailedNone == Failed(0) = {}
BY DEF Failed

\* No task has been taken.
LEMMA InitInv == Init => IInv
<1> SUFFICES ASSUME Init PROVE IInv
  OBVIOUS
<1> USE AttemptsAssumption, RunnerBoundsAssumption DEF Init, Busy, NoKey
<1>1. TypeOK
  <2>1. /\ phase \in [Delivery -> Busy \cup {"queued", "done"}]
        /\ attempt \in [Delivery -> 0 .. Attempts]
        /\ result \in [Delivery -> BOOLEAN]
    OBVIOUS
  <2>2. /\ running \in [Delivery -> SUBSET Attempt]
        /\ channel \in [Delivery -> SUBSET [attempt : Attempt, ok : BOOLEAN]]
        /\ verdicts \in [Delivery -> SUBSET [attempt : Attempt, ok : BOOLEAN]]
    OBVIOUS
  <2>3. DOMAIN pushed = {}
    OBVIOUS
  <2>4. key \in [shows : {"none", "running", "success", "failed"}, by : SUBSET Delivery,
                drops : {"never", "deadline", "later"}]
    OBVIOUS
  <2>5. QED
    BY <2>1, <2>2, <2>3, <2>4 DEF TypeOK
<1>2. Fresh /\ AttemptLeft /\ Quiet /\ AttemptsApart /\ OneReport
  BY DEF Fresh, AttemptLeft, Quiet, AttemptsApart, OneReport
<1>3. Heard /\ Backed
  BY DEF Heard, HeardBy, Backed, BackedBy
<1>4. PushedLast /\ VerdictIsEarned /\ ShownIsPushed
  BY DEF PushedLast, VerdictIsEarned, ShownIsPushed
<1>5. QED
  BY <1>1, <1>2, <1>3, <1>4 DEF IInv

\* Every step keeps the types; the attempts stay within Attempts.
LEMMA TypeStep == TypeOK /\ AttemptLeft /\ [Next]_vars => TypeOK'
<1> SUFFICES ASSUME TypeOK, AttemptLeft, [Next]_vars PROVE TypeOK'
  OBVIOUS
<1> USE AttemptsAssumption, RunnerBoundsAssumption DEF taskVars, redisVars, Attempt, Busy, GoTo
<1>1. ASSUME NEW t \in Delivery, TakeTask(t) PROVE TypeOK'
  BY <1>1 DEF TakeTask, TypeOK, AttemptLeft
<1>2. ASSUME NEW t \in Delivery, DropTask(t) PROVE TypeOK'
  BY <1>2 DEF DropTask, Fault, TypeOK, AttemptLeft
<1>3. ASSUME NEW t \in Delivery, Begin(t) PROVE TypeOK'
  BY <1>3 DEF Begin, RunningDrops, TypeOK, AttemptLeft
<1>4. ASSUME NEW t \in Delivery, StartAttempt(t) PROVE TypeOK'
  BY <1>4 DEF StartAttempt, TypeOK, AttemptLeft
<1>5. ASSUME NEW t \in Delivery, Receive(t) PROVE TypeOK'
  BY <1>5 DEF Receive, LastVerdict, TypeOK, AttemptLeft
<1>6. ASSUME NEW t \in Delivery, GiveUp(t) PROVE TypeOK'
  BY <1>6 DEF GiveUp, GivesUp, TypeOK, AttemptLeft
<1>7. ASSUME NEW t \in Delivery, Decide(t) PROVE TypeOK'
  BY <1>7 DEF Decide, NoMoreAttempts, TypeOK, AttemptLeft
<1>8. ASSUME NEW t \in Delivery, Push(t) PROVE TypeOK'
  BY <1>8 DEF Push, TypeOK, AttemptLeft
<1>9. ASSUME NEW t \in Delivery, ShowResult(t) PROVE TypeOK'
  BY <1>9 DEF ShowResult, Shows, TypeOK, AttemptLeft
<1>10. ASSUME NEW t \in Delivery, PushFails(t) PROVE TypeOK'
  BY <1>10 DEF PushFails, AfterFailedPush, Fault, TypeOK, AttemptLeft
<1>11. ASSUME NEW t \in Delivery, NEW n \in Attempt, NEW ok \in BOOLEAN, Report(t, n, ok)
      PROVE  TypeOK'
  BY <1>11 DEF Report, TypeOK, AttemptLeft
<1>12. ASSUME NEW t \in Delivery, Deadline(t) PROVE TypeOK'
  BY <1>12 DEF Deadline, TypeOK, AttemptLeft
<1>13. CASE Expire
  BY <1>13 DEF Expire, NoKey, TypeOK, AttemptLeft
<1>14. CASE Exit
  BY <1>14 DEF Exit, AfterExit, Fault, TypeOK, AttemptLeft
<1>15. CASE UNCHANGED vars
  BY <1>15 DEF vars, TypeOK, AttemptLeft
<1>16. ASSUME NEW t \in Delivery, BeginUnshown(t) PROVE TypeOK'
  BY <1>16 DEF BeginUnshown, Fault, TypeOK, AttemptLeft
<1>17. ASSUME NEW t \in Delivery, ShowFails(t) PROVE TypeOK'
  BY <1>17 DEF ShowFails, Fault, TypeOK, AttemptLeft
<1>18. QED
  BY <1>1, <1>2, <1>3, <1>4, <1>5, <1>6, <1>7, <1>8, <1>9, <1>10, <1>11, <1>12, <1>13, <1>14, <1>15,
     <1>16, <1>17 DEF Next, TaskStep, FailedCall

\* Attempts follow one another, and none begins before the last was heard or
\* the deadline came.
LEMMA ApartStep == TypeOK /\ Fresh /\ AttemptLeft /\ Quiet /\ AttemptsApart /\ [Next]_vars => (Fresh /\ AttemptLeft /\ Quiet /\ AttemptsApart)'
<1> SUFFICES ASSUME TypeOK, Fresh, AttemptLeft, Quiet, AttemptsApart, [Next]_vars PROVE (Fresh /\ AttemptLeft /\ Quiet /\ AttemptsApart)'
  OBVIOUS
<1> USE AttemptsAssumption, RunnerBoundsAssumption DEF taskVars, redisVars, Attempt, Busy, GoTo
<1>1. ASSUME NEW t \in Delivery, TakeTask(t) PROVE (Fresh /\ AttemptLeft /\ Quiet /\ AttemptsApart)'
  BY <1>1 DEF TakeTask, TypeOK, Fresh, AttemptLeft, Quiet, AttemptsApart
<1>2. ASSUME NEW t \in Delivery, DropTask(t) PROVE (Fresh /\ AttemptLeft /\ Quiet /\ AttemptsApart)'
  BY <1>2 DEF DropTask, Fault, TypeOK, Fresh, AttemptLeft, Quiet, AttemptsApart
<1>3. ASSUME NEW t \in Delivery, Begin(t) PROVE (Fresh /\ AttemptLeft /\ Quiet /\ AttemptsApart)'
  <2>1. Fresh'
    BY <1>3 DEF Begin, RunningDrops, TypeOK, Fresh
  <2>2. AttemptLeft'
    BY <1>3 DEF Begin, RunningDrops, TypeOK, AttemptLeft, Fresh
  <2>3. Quiet'
    BY <1>3 DEF Begin, RunningDrops, TypeOK, Quiet, AttemptsApart, Fresh
  <2>4. AttemptsApart'
    BY <1>3 DEF Begin, RunningDrops, TypeOK, AttemptsApart, Quiet, Fresh, AttemptLeft
  <2>5. QED
    BY <2>1, <2>2, <2>3, <2>4
<1>4. ASSUME NEW t \in Delivery, StartAttempt(t) PROVE (Fresh /\ AttemptLeft /\ Quiet /\ AttemptsApart)'
  <2>1. Fresh'
    BY <1>4 DEF StartAttempt, TypeOK, Fresh
  <2>2. AttemptLeft'
    BY <1>4 DEF StartAttempt, TypeOK, AttemptLeft, Fresh
  <2>3. Quiet'
    BY <1>4 DEF StartAttempt, TypeOK, Quiet, AttemptsApart, Fresh
  <2>4. AttemptsApart'
    BY <1>4 DEF StartAttempt, TypeOK, AttemptsApart, Quiet, Fresh, AttemptLeft
  <2>5. QED
    BY <2>1, <2>2, <2>3, <2>4
<1>5. ASSUME NEW t \in Delivery, Receive(t) PROVE (Fresh /\ AttemptLeft /\ Quiet /\ AttemptsApart)'
  BY <1>5 DEF Receive, LastVerdict, TypeOK, Fresh, AttemptLeft, Quiet, AttemptsApart
<1>6. ASSUME NEW t \in Delivery, GiveUp(t) PROVE (Fresh /\ AttemptLeft /\ Quiet /\ AttemptsApart)'
  BY <1>6 DEF GiveUp, GivesUp, TypeOK, Fresh, AttemptLeft, Quiet, AttemptsApart
<1>7. ASSUME NEW t \in Delivery, Decide(t) PROVE (Fresh /\ AttemptLeft /\ Quiet /\ AttemptsApart)'
  <2>1. Fresh'
    BY <1>7 DEF Decide, NoMoreAttempts, TypeOK, Fresh
  <2>2. AttemptLeft'
    BY <1>7 DEF Decide, NoMoreAttempts, TypeOK, AttemptLeft, Fresh
  <2>3. Quiet'
    BY <1>7 DEF Decide, NoMoreAttempts, TypeOK, Quiet, AttemptsApart, Fresh
  <2>4. AttemptsApart'
    BY <1>7 DEF Decide, NoMoreAttempts, TypeOK, AttemptsApart, Quiet, Fresh, AttemptLeft
  <2>5. QED
    BY <2>1, <2>2, <2>3, <2>4
<1>8. ASSUME NEW t \in Delivery, Push(t) PROVE (Fresh /\ AttemptLeft /\ Quiet /\ AttemptsApart)'
  <2>1. /\ phase' = [phase EXCEPT ![t] = "final"] /\ phase[t] = "push"
        /\ UNCHANGED <<attempt, running, channel, expired, verdicts>>
    BY <1>8 DEF Push
  <2>2. QED
    BY <2>1 DEF TypeOK, Fresh, AttemptLeft, Quiet, AttemptsApart
<1>9. ASSUME NEW t \in Delivery, ShowResult(t) PROVE (Fresh /\ AttemptLeft /\ Quiet /\ AttemptsApart)'
  BY <1>9 DEF ShowResult, Shows, TypeOK, Fresh, AttemptLeft, Quiet, AttemptsApart
<1>10. ASSUME NEW t \in Delivery, PushFails(t) PROVE (Fresh /\ AttemptLeft /\ Quiet /\ AttemptsApart)'
  BY <1>10 DEF PushFails, AfterFailedPush, Fault, TypeOK, Fresh, AttemptLeft, Quiet, AttemptsApart
<1>11. ASSUME NEW t \in Delivery, NEW n \in Attempt, NEW ok \in BOOLEAN, Report(t, n, ok)
      PROVE  (Fresh /\ AttemptLeft /\ Quiet /\ AttemptsApart)'
  <2>1. Fresh'
    BY <1>11 DEF Report, TypeOK, Fresh
  <2>2. AttemptLeft'
    BY <1>11 DEF Report, TypeOK, AttemptLeft, Fresh
  <2>3. Quiet'
    BY <1>11 DEF Report, TypeOK, Quiet, AttemptsApart, Fresh
  <2>4. AttemptsApart'
    BY <1>11, SMTT(30) DEF Report, TypeOK, AttemptsApart, Quiet, Fresh, AttemptLeft
  <2>5. QED
    BY <2>1, <2>2, <2>3, <2>4
<1>12. ASSUME NEW t \in Delivery, Deadline(t) PROVE (Fresh /\ AttemptLeft /\ Quiet /\ AttemptsApart)'
  <2>1. expired \subseteq expired' /\ UNCHANGED <<phase, attempt, running, channel, verdicts>>
    BY <1>12 DEF Deadline
  <2>2. QED
    BY <2>1 DEF Fresh, AttemptLeft, Quiet, AttemptsApart
<1>13. CASE Expire
  BY <1>13 DEF Expire, NoKey, TypeOK, Fresh, AttemptLeft, Quiet, AttemptsApart
<1>14. CASE Exit
  BY <1>14 DEF Exit, AfterExit, Fault, TypeOK, Fresh, AttemptLeft, Quiet, AttemptsApart
<1>15. CASE UNCHANGED vars
  BY <1>15 DEF vars, TypeOK, Fresh, AttemptLeft, Quiet, AttemptsApart
<1>16. ASSUME NEW t \in Delivery, BeginUnshown(t) PROVE (Fresh /\ AttemptLeft /\ Quiet /\ AttemptsApart)'
  <2>1. Fresh'
    BY <1>16 DEF BeginUnshown, Fault, TypeOK, Fresh
  <2>2. AttemptLeft'
    BY <1>16 DEF BeginUnshown, Fault, TypeOK, AttemptLeft, Fresh
  <2>3. Quiet'
    BY <1>16 DEF BeginUnshown, Fault, TypeOK, Quiet, AttemptsApart, Fresh
  <2>4. AttemptsApart'
    BY <1>16 DEF BeginUnshown, Fault, TypeOK, AttemptsApart, Quiet, Fresh, AttemptLeft
  <2>5. QED
    BY <2>1, <2>2, <2>3, <2>4
<1>17. ASSUME NEW t \in Delivery, ShowFails(t) PROVE (Fresh /\ AttemptLeft /\ Quiet /\ AttemptsApart)'
  BY <1>17 DEF ShowFails, Fault, TypeOK, Fresh, AttemptLeft, Quiet, AttemptsApart
<1>18. QED
  BY <1>1, <1>2, <1>3, <1>4, <1>5, <1>6, <1>7, <1>8, <1>9, <1>10, <1>11, <1>12, <1>13, <1>14, <1>15,
     <1>16, <1>17 DEF Next, TaskStep, FailedCall

\* The channel holds one report at most.
LEMMA OneStep == TypeOK /\ OneReport /\ [Next]_vars => OneReport'
<1> SUFFICES ASSUME TypeOK, OneReport, [Next]_vars PROVE OneReport'
  OBVIOUS
<1>1. ASSUME NEW t \in Delivery, NEW n \in Attempt, NEW ok \in BOOLEAN, Report(t, n, ok)
      PROVE  OneReport'
  BY <1>1 DEF Report, TypeOK, OneReport
<1>2. ASSUME NEW t \in Delivery, Receive(t) PROVE OneReport'
  BY <1>2 DEF Receive, TypeOK, OneReport
<1>3. CASE Exit
  BY <1>3 DEF Exit, OneReport
<1>4. CASE UNCHANGED channel
  BY <1>4 DEF OneReport
<1>5. QED
  BY <1>1, <1>2, <1>3, <1>4 DEF Next, TaskStep, FailedCall, vars, taskVars, TakeTask, DropTask, Begin,
     BeginUnshown, StartAttempt, GiveUp, Decide, Push, ShowResult, ShowFails, PushFails, Deadline, Expire


\* What a task has heard.
LEMMA HeardStep == TypeOK /\ Fresh /\ AttemptLeft /\ Quiet /\ AttemptsApart /\ OneReport /\ Heard /\ Backed /\ [Next]_vars => (Heard /\ Backed)'
<1> SUFFICES ASSUME TypeOK, Fresh, AttemptLeft, Quiet, AttemptsApart, OneReport, Heard, Backed, [Next]_vars PROVE (Heard /\ Backed)'
  OBVIOUS
<1> USE AttemptsAssumption, RunnerBoundsAssumption DEF taskVars, redisVars, Attempt, Busy, GoTo
<1>1. ASSUME NEW t \in Delivery, TakeTask(t) PROVE (Heard /\ Backed)'
  BY <1>1 DEF TakeTask, TypeOK, Fresh, AttemptLeft, Quiet, AttemptsApart, Heard, HeardBy, Backed, BackedBy, Own
<1>2. ASSUME NEW t \in Delivery, DropTask(t) PROVE (Heard /\ Backed)'
  BY <1>2 DEF DropTask, Fault, TypeOK, Fresh, AttemptLeft, Quiet, AttemptsApart, Heard, HeardBy, Backed, BackedBy, Own
<1>3. ASSUME NEW t \in Delivery, Begin(t) PROVE (Heard /\ Backed)'
  <2>1. Heard'
    BY <1>3, FailedNone DEF Begin, RunningDrops, TypeOK, Own, Heard, HeardBy, Fresh
  <2>2. Backed'
    BY <1>3 DEF Begin, RunningDrops, TypeOK, Own, Backed, BackedBy
  <2>3. QED
    BY <2>1, <2>2
<1>4. ASSUME NEW t \in Delivery, StartAttempt(t) PROVE (Heard /\ Backed)'
  BY <1>4 DEF StartAttempt, TypeOK, Fresh, AttemptLeft, Quiet, AttemptsApart, Heard, HeardBy, Backed, BackedBy, Own
<1>5. ASSUME NEW t \in Delivery, Receive(t) PROVE (Heard /\ Backed)'
  <2>1. PICK report \in channel[t] : result' = [result EXCEPT ![t] = report.ok]
    BY <1>5 DEF Receive, LastVerdict
  <2>2. channel[t] = {report} /\ report = [attempt |-> attempt[t], ok |-> report.ok] /\ report.ok \in BOOLEAN
    <3>1. report \in [attempt : Attempt, ok : BOOLEAN]
      BY <2>1 DEF TypeOK
    <3>2. report.attempt = attempt[t]
      BY <2>1 DEF AttemptsApart
    <3>3. channel[t] = {report}
      BY <2>1 DEF OneReport
    <3>4. QED
      BY <3>1, <3>2, <3>3
  <2>3. Own(t)' = report
    BY <1>5, <2>1, <2>2 DEF Receive, Own, TypeOK
  <2>4. ASSUME NEW u \in Delivery, u # t
        PROVE  /\ UNCHANGED <<phase[u], running[u], channel[u], verdicts[u], attempt[u], result[u], expired>>
               /\ Own(u)' = Own(u)
    BY <1>5, <2>1, <2>4 DEF Receive, TypeOK, Own
  <2>5. /\ phase[t] = "select" /\ phase'[t] = "decide" /\ channel'[t] = {}
        /\ UNCHANGED <<verdicts, attempt, expired>>
    BY <1>5 DEF Receive, TypeOK
  <2>6. Heard'
    <3>1. SUFFICES ASSUME NEW u \in Delivery PROVE HeardBy(u)'
      BY DEF Heard
    <3>2. CASE u # t
      BY <2>4, <3>2 DEF Heard, HeardBy
    <3>3. CASE u = t
      BY <2>2, <2>3, <2>5, <3>3 DEF Heard, HeardBy
    <3>4. QED
      BY <3>2, <3>3
  <2>7. Backed'
    <3>1. SUFFICES ASSUME NEW u \in Delivery PROVE BackedBy(u)'
      BY DEF Backed
    <3>2. CASE u # t
      BY <2>4, <2>5, <3>2 DEF Backed, BackedBy
    <3>3. CASE u = t
      BY <2>2, <2>3, <2>5, <3>3 DEF Backed, BackedBy
    <3>4. QED
      BY <3>2, <3>3
  <2>8. QED
    BY <2>6, <2>7
<1>6. ASSUME NEW t \in Delivery, GiveUp(t) PROVE (Heard /\ Backed)'
  <2>1. /\ phase' = [phase EXCEPT ![t] = "decide"] /\ result' = [result EXCEPT ![t] = FALSE]
        /\ t \in expired /\ UNCHANGED <<attempt, running, channel, expired, verdicts>>
    BY <1>6 DEF GiveUp, GivesUp
  <2>2. ASSUME NEW u \in Delivery, u # t PROVE HeardBy(u)' /\ BackedBy(u)'
    <3>1. phase'[u] = phase[u] /\ result'[u] = result[u]
      BY <2>1, <2>2 DEF TypeOK
    <3>2. QED
      BY <2>1, <3>1 DEF Heard, HeardBy, Backed, BackedBy, Own
  <2>3. HeardBy(t)' /\ BackedBy(t)'
    BY <2>1 DEF TypeOK, HeardBy, Backed, BackedBy
  <2>4. QED
    BY <2>2, <2>3 DEF Heard, Backed
<1>7. ASSUME NEW t \in Delivery, Decide(t) PROVE (Heard /\ Backed)'
  <2>1. Heard'
    <3>1. SUFFICES ASSUME NEW u \in Delivery PROVE HeardBy(u)'
      BY DEF Heard
    <3>2. /\ UNCHANGED <<attempt, running, channel, result, expired, verdicts>>
          /\ u # t => phase'[u] = phase[u]
          /\ phase[t] = "decide" /\ phase'[t] \in {"push", "attempt"}
          /\ phase'[t] = "push" => result[t] \/ t \in expired \/ attempt[t] = Attempts
          /\ phase'[t] = "attempt" => ~result[t]
      BY <1>7 DEF Decide, NoMoreAttempts, TypeOK
    <3>3. CASE u = t /\ phase'[t] = "attempt"
      <4>1. Own(t) = [attempt |-> attempt[t], ok |-> FALSE]
        BY <3>2, <3>3 DEF Own, TypeOK
      <4>2. Failed(attempt[t] - 1) \cup {Own(t)} = Failed(attempt[t])
        BY <3>2, <4>1, FailedNext DEF TypeOK, AttemptLeft
      <4>3. QED
        BY <3>2, <3>3, <4>2 DEF Heard, HeardBy
    <3>4. CASE u # t \/ phase'[t] = "push"
      BY <3>2, <3>4 DEF Heard, HeardBy, Own
    <3>5. QED
      BY <3>2, <3>3, <3>4
  <2>2. Backed'
    BY <1>7 DEF Decide, NoMoreAttempts, TypeOK, Own, AttemptsApart, AttemptLeft, Backed, BackedBy
  <2>3. QED
    BY <2>1, <2>2
<1>8. ASSUME NEW t \in Delivery, Push(t) PROVE (Heard /\ Backed)'
  BY <1>8 DEF Push, TypeOK, Fresh, AttemptLeft, Quiet, AttemptsApart, Heard, HeardBy, Backed, BackedBy, Own
<1>9. ASSUME NEW t \in Delivery, ShowResult(t) PROVE (Heard /\ Backed)'
  BY <1>9 DEF ShowResult, Shows, TypeOK, Fresh, AttemptLeft, Quiet, AttemptsApart, Heard, HeardBy, Backed, BackedBy, Own
<1>10. ASSUME NEW t \in Delivery, PushFails(t) PROVE (Heard /\ Backed)'
  BY <1>10 DEF PushFails, AfterFailedPush, Fault, TypeOK, Fresh, AttemptLeft, Quiet, AttemptsApart, Heard, HeardBy, Backed, BackedBy, Own
<1>11. ASSUME NEW t \in Delivery, NEW n \in Attempt, NEW ok \in BOOLEAN, Report(t, n, ok)
      PROVE  (Heard /\ Backed)'
  <2>1. Heard'
    BY <1>11, ZenonT(30) DEF Report, TypeOK, Own, AttemptsApart, Quiet, Heard, HeardBy, Fresh
  <2>2. Backed'
    BY <1>11 DEF Report, TypeOK, Own, AttemptsApart, Quiet, Backed, BackedBy
  <2>3. QED
    BY <2>1, <2>2
<1>12. ASSUME NEW t \in Delivery, Deadline(t) PROVE (Heard /\ Backed)'
  BY <1>12 DEF Deadline, TypeOK, Fresh, AttemptLeft, Quiet, AttemptsApart, Heard, HeardBy, Backed, BackedBy, Own
<1>13. CASE Expire
  BY <1>13 DEF Expire, NoKey, TypeOK, Fresh, AttemptLeft, Quiet, AttemptsApart, Heard, HeardBy, Backed, BackedBy, Own
<1>14. CASE Exit
  BY <1>14 DEF Exit, AfterExit, Fault, TypeOK, Fresh, AttemptLeft, Quiet, AttemptsApart, Heard, HeardBy, Backed, BackedBy, Own
<1>15. CASE UNCHANGED vars
  BY <1>15 DEF vars, TypeOK, Fresh, AttemptLeft, Quiet, AttemptsApart, Heard, HeardBy, Backed, BackedBy, Own
<1>16. ASSUME NEW t \in Delivery, BeginUnshown(t) PROVE (Heard /\ Backed)'
  <2>1. Heard'
    BY <1>16, FailedNone DEF BeginUnshown, Fault, TypeOK, Own, Heard, HeardBy, Fresh
  <2>2. Backed'
    BY <1>16 DEF BeginUnshown, Fault, TypeOK, Own, Backed, BackedBy
  <2>3. QED
    BY <2>1, <2>2
<1>17. ASSUME NEW t \in Delivery, ShowFails(t) PROVE (Heard /\ Backed)'
  BY <1>17 DEF ShowFails, Fault, TypeOK, Fresh, AttemptLeft, Quiet, AttemptsApart, Heard, HeardBy, Backed, BackedBy, Own
<1>18. QED
  BY <1>1, <1>2, <1>3, <1>4, <1>5, <1>6, <1>7, <1>8, <1>9, <1>10, <1>11, <1>12, <1>13, <1>14, <1>15,
     <1>16, <1>17 DEF Next, TaskStep, FailedCall

\* What is pushed and shown.
LEMMA PushedStep == IInv /\ [Next]_vars => (PushedLast /\ VerdictIsEarned /\ ShownIsPushed)'
<1> SUFFICES ASSUME IInv, [Next]_vars PROVE (PushedLast /\ VerdictIsEarned /\ ShownIsPushed)'
  OBVIOUS
<1> USE AttemptsAssumption, RunnerBoundsAssumption DEF taskVars, redisVars, Attempt, Busy, GoTo
<1>1. ASSUME NEW t \in Delivery, TakeTask(t) PROVE (PushedLast /\ VerdictIsEarned /\ ShownIsPushed)'
  BY <1>1 DEF TakeTask, IInv, TypeOK, AttemptLeft, Quiet, Heard, Backed, Own, PushedLast, VerdictIsEarned, ShownIsPushed
<1>2. ASSUME NEW t \in Delivery, DropTask(t) PROVE (PushedLast /\ VerdictIsEarned /\ ShownIsPushed)'
  BY <1>2 DEF DropTask, Fault, IInv, TypeOK, AttemptLeft, Quiet, Heard, Backed, Own, PushedLast, VerdictIsEarned, ShownIsPushed
<1>3. ASSUME NEW t \in Delivery, Begin(t) PROVE (PushedLast /\ VerdictIsEarned /\ ShownIsPushed)'
  BY <1>3 DEF Begin, RunningDrops, IInv, TypeOK, AttemptLeft, Quiet, Heard, Backed, Own, PushedLast, VerdictIsEarned, ShownIsPushed
<1>4. ASSUME NEW t \in Delivery, StartAttempt(t) PROVE (PushedLast /\ VerdictIsEarned /\ ShownIsPushed)'
  BY <1>4 DEF StartAttempt, IInv, TypeOK, AttemptLeft, Quiet, Heard, Backed, Own, PushedLast, VerdictIsEarned, ShownIsPushed
<1>5. ASSUME NEW t \in Delivery, Receive(t) PROVE (PushedLast /\ VerdictIsEarned /\ ShownIsPushed)'
  BY <1>5 DEF Receive, LastVerdict, IInv, TypeOK, AttemptLeft, Quiet, Heard, Backed, Own, PushedLast, VerdictIsEarned, ShownIsPushed
<1>6. ASSUME NEW t \in Delivery, GiveUp(t) PROVE (PushedLast /\ VerdictIsEarned /\ ShownIsPushed)'
  BY <1>6 DEF GiveUp, GivesUp, IInv, TypeOK, AttemptLeft, Quiet, Heard, Backed, Own, PushedLast, VerdictIsEarned, ShownIsPushed
<1>7. ASSUME NEW t \in Delivery, Decide(t) PROVE (PushedLast /\ VerdictIsEarned /\ ShownIsPushed)'
  BY <1>7 DEF Decide, NoMoreAttempts, IInv, TypeOK, AttemptLeft, Quiet, Heard, Backed, Own, PushedLast, VerdictIsEarned, ShownIsPushed
<1>8. ASSUME NEW t \in Delivery, Push(t) PROVE (PushedLast /\ VerdictIsEarned /\ ShownIsPushed)'
  <2>1. PushedLast'
    BY <1>8 DEF Push, TypeOK, PushedLast, IInv, PushedLast
  <2>2. VerdictIsEarned'
    <3>1. SUFFICES ASSUME NEW u \in DOMAIN pushed' 
                 PROVE  IF pushed'[u]
                          THEN [attempt |-> attempt'[u], ok |-> TRUE] \in verdicts'[u]
                          ELSE u \in expired' \/ verdicts'[u] = [attempt : Attempt, ok : {FALSE}]
      BY DEF VerdictIsEarned
    <3>2. /\ UNCHANGED <<attempt, expired, verdicts>>
          /\ phase[t] = "push"
          /\ u # t => u \in DOMAIN pushed /\ pushed'[u] = pushed[u]
          /\ u = t => pushed'[u] = result[t]
      BY <1>8 DEF Push
    <3>3. CASE u # t
      BY <3>2, <3>3 DEF IInv, VerdictIsEarned
    <3>4. CASE u = t /\ result[t]
      BY <3>2, <3>4 DEF IInv, Backed, BackedBy, Own, TypeOK
    <3>5. CASE u = t /\ ~result[t] /\ t \notin expired
      <4>1. attempt[t] = Attempts /\ Own(t) = [attempt |-> Attempts, ok |-> FALSE]
        BY <3>2, <3>5 DEF IInv, Heard, HeardBy, Own, TypeOK
      <4>2. verdicts[t] = Failed(Attempts)
        BY <3>2, <3>5, <4>1, FailedNext DEF IInv, Heard, HeardBy
      <4>3. QED
        BY <3>2, <3>5, <4>2 DEF Failed
    <3>6. CASE u = t /\ t \in expired
      BY <3>2, <3>4, <3>6
    <3>7. QED
      BY <3>3, <3>4, <3>5, <3>6
  <2>3. ShownIsPushed'
    BY <1>8 DEF Push, TypeOK, PushedLast, IInv, ShownIsPushed
  <2>4. QED
    BY <2>1, <2>2, <2>3
<1>9. ASSUME NEW t \in Delivery, ShowResult(t) PROVE (PushedLast /\ VerdictIsEarned /\ ShownIsPushed)'
  BY <1>9 DEF ShowResult, Shows, IInv, TypeOK, AttemptLeft, Quiet, Heard, Backed, Own, PushedLast, VerdictIsEarned, ShownIsPushed
<1>10. ASSUME NEW t \in Delivery, PushFails(t) PROVE (PushedLast /\ VerdictIsEarned /\ ShownIsPushed)'
  BY <1>10 DEF PushFails, AfterFailedPush, Fault, IInv, TypeOK, AttemptLeft, Quiet, Heard, Backed, Own, PushedLast, VerdictIsEarned, ShownIsPushed
<1>11. ASSUME NEW t \in Delivery, NEW n \in Attempt, NEW ok \in BOOLEAN, Report(t, n, ok)
      PROVE  (PushedLast /\ VerdictIsEarned /\ ShownIsPushed)'
  BY <1>11 DEF Report, IInv, TypeOK, AttemptLeft, Quiet, Heard, Backed, Own, PushedLast, VerdictIsEarned, ShownIsPushed
<1>12. ASSUME NEW t \in Delivery, Deadline(t) PROVE (PushedLast /\ VerdictIsEarned /\ ShownIsPushed)'
  BY <1>12 DEF Deadline, IInv, TypeOK, AttemptLeft, Quiet, Heard, Backed, Own, PushedLast, VerdictIsEarned, ShownIsPushed
<1>13. CASE Expire
  BY <1>13 DEF Expire, NoKey, IInv, TypeOK, AttemptLeft, Quiet, Heard, Backed, Own, PushedLast, VerdictIsEarned, ShownIsPushed
<1>14. CASE Exit
  BY <1>14 DEF Exit, AfterExit, Fault, IInv, TypeOK, AttemptLeft, Quiet, Heard, Backed, Own, PushedLast, VerdictIsEarned, ShownIsPushed
<1>15. CASE UNCHANGED vars
  BY <1>15 DEF vars, IInv, TypeOK, AttemptLeft, Quiet, Heard, Backed, Own, PushedLast, VerdictIsEarned, ShownIsPushed
<1>16. ASSUME NEW t \in Delivery, BeginUnshown(t) PROVE (PushedLast /\ VerdictIsEarned /\ ShownIsPushed)'
  BY <1>16 DEF BeginUnshown, Fault, IInv, TypeOK, AttemptLeft, Quiet, Heard, Backed, Own, PushedLast, VerdictIsEarned, ShownIsPushed
<1>17. ASSUME NEW t \in Delivery, ShowFails(t) PROVE (PushedLast /\ VerdictIsEarned /\ ShownIsPushed)'
  BY <1>17 DEF ShowFails, Fault, IInv, TypeOK, AttemptLeft, Quiet, Heard, Backed, Own, PushedLast, VerdictIsEarned, ShownIsPushed
<1>18. QED
  BY <1>1, <1>2, <1>3, <1>4, <1>5, <1>6, <1>7, <1>8, <1>9, <1>10, <1>11, <1>12, <1>13, <1>14, <1>15,
     <1>16, <1>17 DEF Next, TaskStep, FailedCall

-----------------------------------------------------------------------------

\* The strengthened invariant is an invariant of the runner.
LEMMA InductiveInv == Spec => []IInv
<1>1. IInv /\ [Next]_vars => IInv'
  BY TypeStep, ApartStep, OneStep, HeardStep, PushedStep DEF IInv
<1>2. QED
  BY InitInv, <1>1, PTL DEF Spec

\* Every variable of the runner has its type, and no task makes more than
\* Attempts attempts (runner.go:160-257).
THEOREM TypeCorrect == Spec => []TypeOK
<1>1. IInv => TypeOK
  BY DEF IInv
<1>2. QED
  BY InductiveInv, <1>1, PTL

\* The channel that serves all attempts of a task never mixes them
\* (runner.go:181-236).
THEOREM AttemptsStayApart == Spec => []AttemptsApart
<1>1. IInv => AttemptsApart
  BY DEF IInv
<1>2. QED
  BY InductiveInv, <1>1, PTL

\* What a runner pushes is what the attempts reported: a pass that the last of
\* them had, a failure of all of them or of the deadline (runner.go:200-241).
THEOREM VerdictsAreEarned == Spec => []VerdictIsEarned
<1>1. IInv => VerdictIsEarned
  BY DEF IInv
<1>2. QED
  BY InductiveInv, <1>1, PTL

\* The status page never runs ahead of the results list (runner.go:244-257).
THEOREM ShownAfterPush == Spec => []ShownIsPushed
<1>1. IInv => ShownIsPushed
  BY DEF IInv
<1>2. QED
  BY InductiveInv, <1>1, PTL

-----------------------------------------------------------------------------

\* What a task has in hand in the sense of TaskFate.
Queued == {t \in Delivery : phase[t] = "queued"}
InHand == {t \in Delivery : phase[t] \in Busy \ {"final"}}

\* A step of a task between its take and its end changes nothing of its fate.
LEMMA StillInHand ==
  ASSUME NEW t \in Delivery, TypeOK, UNCHANGED pushed,
         phase[t] \in Busy \ {"final"}, phase'[t] \in Busy \ {"final"},
         \A u \in Delivery : u # t => phase'[u] = phase[u]
  PROVE  UNCHANGED Fate!vars
<1>1. UNCHANGED <<Queued, InHand>>
  BY DEF Queued, InHand, Busy
<1>2. QED
  BY <1>1 DEF Fate!vars, Queued, InHand

\* A task that ends without an answer is lost.
LEMMA LostAlone ==
  ASSUME NEW t \in Delivery, TypeOK, UNCHANGED pushed,
         phase[t] \in Busy \ {"final"}, phase'[t] = "done",
         \A u \in Delivery : u # t => phase'[u] = phase[u]
  PROVE  Fate!Next
<1>1. /\ {t} \subseteq InHand /\ InHand' = InHand \ {t} /\ Queued' = Queued
  BY DEF Queued, InHand, Busy
<1>2. Fate!Lose({t})
  BY <1>1 DEF Fate!Lose, Queued, InHand
<1>3. {t} \in SUBSET InHand
  BY <1>1
<1>4. QED
  BY <1>2, <1>3 DEF Fate!Next, InHand

\* Every step of the runner is a step of TaskFate or changes nothing of it.
LEMMA FateStep == TypeOK /\ PushedLast /\ [Next]_vars => [Fate!Next]_Fate!vars
<1> SUFFICES ASSUME TypeOK, PushedLast, [Next]_vars PROVE [Fate!Next]_Fate!vars
  OBVIOUS
<1> USE DEF GoTo, redisVars, taskVars
<1>1. ASSUME NEW t \in Delivery, TakeTask(t) PROVE Fate!Next
  <2>1. t \in Queued /\ Queued' = Queued \ {t} /\ InHand' = InHand \cup {t}
    BY <1>1 DEF TakeTask, TypeOK, Queued, InHand, Busy
  <2>2. Fate!Take(t)
    BY <1>1, <2>1 DEF TakeTask, Fate!Take, Queued, InHand
  <2>3. QED
    BY <2>2 DEF Fate!Next
<1>2. ASSUME NEW t \in Delivery, DropTask(t) \/ PushFails(t) PROVE Fate!Next
  BY <1>2, LostAlone DEF DropTask, PushFails, AfterFailedPush, TypeOK, Busy
<1>3. ASSUME NEW t \in Delivery, Begin(t) \/ BeginUnshown(t) \/ StartAttempt(t) \/ Receive(t) \/ GiveUp(t) \/ Decide(t)
      PROVE  UNCHANGED Fate!vars
  <2>1. /\ UNCHANGED pushed
        /\ phase[t] \in Busy \ {"final"} /\ phase'[t] \in Busy \ {"final"}
        /\ \A u \in Delivery : u # t => phase'[u] = phase[u]
    BY <1>3 DEF Begin, BeginUnshown, StartAttempt, Receive, GiveUp, Decide, TypeOK, Busy
  <2>2. QED
    BY <2>1, StillInHand
<1>4. ASSUME NEW t \in Delivery, Push(t) PROVE Fate!Next
  <2>1. t \in InHand /\ InHand' = InHand \ {t} /\ Queued' = Queued
    BY <1>4 DEF Push, TypeOK, Queued, InHand, Busy
  <2>2. PICK ok \in BOOLEAN : ok = result[t]
    BY DEF TypeOK
  <2>3. Fate!Answer(t, ok)
    BY <1>4, <2>1, <2>2 DEF Push, Fate!Answer, Queued, InHand
  <2>4. QED
    BY <2>3 DEF Fate!Next
<1>5. ASSUME NEW t \in Delivery, ShowResult(t) \/ ShowFails(t) PROVE UNCHANGED Fate!vars
  <2>1. UNCHANGED <<Queued, InHand, pushed>>
    BY <1>5 DEF ShowResult, ShowFails, TypeOK, Queued, InHand, Busy
  <2>2. QED
    BY <2>1 DEF Fate!vars, Queued, InHand
<1>6. ASSUME NEW t \in Delivery, NEW n \in Attempt, NEW ok \in BOOLEAN, Report(t, n, ok)
      PROVE  UNCHANGED Fate!vars
  BY <1>6 DEF Report, Fate!vars
<1>7. CASE (\E t \in Delivery : Deadline(t)) \/ Expire \/ UNCHANGED vars
  BY <1>7 DEF Deadline, Expire, vars, Fate!vars
<1>8. CASE Exit
  <2>1. /\ Queued' = Queued /\ InHand' = InHand \ InHand /\ UNCHANGED pushed
    BY <1>8 DEF Exit, AfterExit, TypeOK, Queued, InHand, Busy
  <2>2. CASE InHand = {}
    BY <2>1, <2>2 DEF Fate!vars, Queued, InHand
  <2>3. CASE InHand # {}
    <3>1. PICK lost \in SUBSET InHand : lost = InHand
      OBVIOUS
    <3>2. Fate!Lose(lost)
      BY <2>1, <2>3, <3>1 DEF Fate!Lose, Queued, InHand
    <3>3. QED
      BY <3>2 DEF Fate!Next, InHand
  <2>4. QED
    BY <2>2, <2>3
<1>9. QED
  BY <1>1, <1>2, <1>3, <1>4, <1>5, <1>6, <1>7, <1>8 DEF Next, TaskStep, FailedCall

\* handleTask keeps what RoundEngine takes a runner for: every task is taken
\* once, and then answered once or lost (runner.go:70-147, 160-257).
THEOREM Implements == Spec => ImplementsTaskFate
<1>1. Init => Fate!Init
  BY DEF Init, Fate!Init, Busy
<1>2. IInv /\ [Next]_vars => [Fate!Next]_Fate!vars
  BY FateStep DEF IInv
<1>3. QED
  BY InductiveInv, <1>1, <1>2, PTL DEF Spec, ImplementsTaskFate, Fate!Spec

=============================================================================
