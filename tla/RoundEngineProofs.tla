------------------------- MODULE RoundEngineProofs -------------------------
(***************************************************************************)
(* Proofs about RoundEngine, for any teams, services, runners and bounds.  *)
(*                                                                         *)
(* A task moves from the tasks list to a runner, to the results list and   *)
(* to the collected results, and is in one of these places at a time: that *)
(* is Apart.  It was enqueued by a start of its round (Known), and while a *)
(* round opened only once is running, what bears its number comes from its *)
(* own start (OwnStart).  Together they make OneResultPerPair inductive.   *)
(***************************************************************************)
EXTENDS RoundEngine, SequenceTheorems, FiniteSetTheorems, TLAPS

Elems(s) == {s[i] : i \in DOMAIN s}
Injective(s) == \A i, j \in DOMAIN s : s[i] = s[j] => i = j

TasksOf(s) == [i \in DOMAIN s |-> s[i].task]

Queued == Elems(tasks)
Answered == Elems(TasksOf(results))
Counted == Elems(TasksOf(collected))
Outstanding == Queued \cup Answered \cup Counted \cup UNION {working[r] : r \in Runner}

NoTaskTwice == Injective(tasks) /\ Injective(TasksOf(results)) /\ Injective(TasksOf(collected))

Apart ==
  /\ Queued \cap Answered = {} /\ Queued \cap Counted = {} /\ Answered \cap Counted = {}
  /\ \A r \in Runner : working[r] \cap (Queued \cup Answered \cup Counted) = {}
  /\ \A q, r \in Runner : q # r => working[q] \cap working[r] = {}

Known ==
  \A t \in Outstanding : t.start <= start /\ t.round \in opened /\ (t.start = start => t.pair \notin todo)

OwnStart ==
  (pc = "rvb" /\ CurrentRound \notin reopened) =>
    \A t \in Outstanding : t.round = CurrentRound => t.start = start

CollectedHere ==
  /\ \A i \in DOMAIN collected : collected[i].task.round = CurrentRound
  /\ pc # "rvb" => collected = <<>>

OpenIsOpened == pc = "rvb" => CurrentRound \in opened

TaskFor(p) == [round |-> CurrentRound, pair |-> p, start |-> start]

CountedOn ==
  pc = "rvb" =>
    /\ runners = Cardinality(asked)
    /\ asked \cap todo = {}
    /\ CurrentRound \notin reopened =>
         \A t \in Outstanding : t.round = CurrentRound => t.pair \in asked

NothingLost ==
  (pc = "rvb" /\ faults = 0 /\ ~expired) => \A p \in asked : TaskFor(p) \in Outstanding

IInv ==
  /\ TypeOK /\ NoTaskTwice /\ Apart /\ Known /\ OwnStart /\ CollectedHere /\ OpenIsOpened
  /\ RoundNumberIsNew /\ OneResultPerPair

-----------------------------------------------------------------------------
(* Sequences *)

\* RPush adds its element at the end and moves nothing.
LEMMA AppendFacts ==
  ASSUME NEW S, NEW s \in Seq(S), NEW e \in S
  PROVE  /\ Append(s, e) \in Seq(S)
         /\ Elems(Append(s, e)) = Elems(s) \cup {e}
         /\ Injective(s) /\ e \notin Elems(s) => Injective(Append(s, e))
<1>1. /\ Append(s, e) \in Seq(S)
      /\ DOMAIN s = 1 .. Len(s) /\ Len(s) \in Nat
      /\ DOMAIN Append(s, e) = 1 .. (Len(s) + 1)
      /\ \A i \in 1 .. Len(s) : Append(s, e)[i] = s[i]
      /\ Append(s, e)[Len(s) + 1] = e
  OBVIOUS
<1>2. Elems(Append(s, e)) = Elems(s) \cup {e}
  <2>1. ASSUME NEW x \in Elems(Append(s, e)) PROVE x \in Elems(s) \cup {e}
    <3>1. PICK i \in 1 .. (Len(s) + 1) : x = Append(s, e)[i]
      BY <1>1, <2>1 DEF Elems
    <3>2. i \in 1 .. Len(s) \/ i = Len(s) + 1
      BY <1>1
    <3>3. QED
      BY <3>1, <3>2, <1>1 DEF Elems
  <2>2. ASSUME NEW x \in Elems(s) PROVE x \in Elems(Append(s, e))
    <3>1. PICK i \in 1 .. Len(s) : x = s[i]
      BY <1>1, <2>2 DEF Elems
    <3>2. i \in 1 .. (Len(s) + 1)
      BY <1>1
    <3>3. QED
      BY <3>1, <3>2, <1>1 DEF Elems
  <2>3. e \in Elems(Append(s, e))
    <3>1. Len(s) + 1 \in 1 .. (Len(s) + 1)
      BY <1>1
    <3>2. QED
      BY <3>1, <1>1 DEF Elems
  <2>4. QED
    BY <2>1, <2>2, <2>3
<1>3. ASSUME Injective(s), e \notin Elems(s)
      PROVE  Injective(Append(s, e))
  <2> SUFFICES ASSUME NEW i \in 1 .. (Len(s) + 1), NEW j \in 1 .. (Len(s) + 1),
                      Append(s, e)[i] = Append(s, e)[j]
               PROVE  i = j
    BY <1>1 DEF Injective
  <2>1. \A k \in 1 .. Len(s) : s[k] # e
    BY <1>1, <1>3 DEF Elems
  <2>2. QED
    BY <1>1, <1>3, <2>1 DEF Injective
<1>4. QED
  BY <1>1, <1>2, <1>3

\* BLPop takes the first element and moves the others up by one.
LEMMA TailFacts ==
  ASSUME NEW S, NEW s \in Seq(S), s # <<>>
  PROVE  /\ Head(s) \in S /\ Tail(s) \in Seq(S)
         /\ Head(s) \in Elems(s)
         /\ Elems(s) = Elems(Tail(s)) \cup {Head(s)}
         /\ Injective(s) => Injective(Tail(s)) /\ Head(s) \notin Elems(Tail(s))
<1>1. /\ Head(s) \in S /\ Tail(s) \in Seq(S)
      /\ DOMAIN s = 1 .. Len(s) /\ Len(s) \in Nat /\ Len(s) > 0
      /\ DOMAIN Tail(s) = 1 .. (Len(s) - 1)
      /\ Head(s) = s[1]
      /\ \A i \in 1 .. (Len(s) - 1) : Tail(s)[i] = s[i + 1]
  OBVIOUS
<1>2. Head(s) \in Elems(s)
  BY <1>1 DEF Elems
<1>3. Elems(s) = Elems(Tail(s)) \cup {Head(s)}
  <2>1. ASSUME NEW x \in Elems(Tail(s)) PROVE x \in Elems(s)
    <3>1. PICK i \in 1 .. (Len(s) - 1) : x = Tail(s)[i]
      BY <1>1, <2>1 DEF Elems
    <3>2. i + 1 \in 1 .. Len(s) /\ x = s[i + 1]
      BY <1>1, <3>1
    <3>3. QED
      BY <3>2, <1>1 DEF Elems
  <2>2. ASSUME NEW x \in Elems(s) PROVE x \in Elems(Tail(s)) \cup {Head(s)}
    <3>1. PICK i \in 1 .. Len(s) : x = s[i]
      BY <1>1, <2>2 DEF Elems
    <3>2. CASE i = 1
      BY <3>1, <3>2, <1>1
    <3>3. CASE i # 1
      <4>1. i - 1 \in 1 .. (Len(s) - 1) /\ Tail(s)[i - 1] = s[i]
        BY <1>1, <3>3
      <4>2. QED
        BY <4>1, <3>1, <1>1 DEF Elems
    <3>4. QED
      BY <3>2, <3>3
  <2>3. QED
    BY <2>1, <2>2, <1>2
<1>4. ASSUME Injective(s) PROVE Injective(Tail(s)) /\ Head(s) \notin Elems(Tail(s))
  <2>1. \A i, j \in 1 .. Len(s) : s[i] = s[j] => i = j
    BY <1>1, <1>4 DEF Injective
  <2>2. ASSUME NEW i \in 1 .. (Len(s) - 1), NEW j \in 1 .. (Len(s) - 1), Tail(s)[i] = Tail(s)[j]
        PROVE  i = j
    <3>1. i + 1 \in 1 .. Len(s) /\ j + 1 \in 1 .. Len(s) /\ s[i + 1] = s[j + 1]
      BY <1>1, <2>2
    <3>2. QED
      BY <3>1, <2>1
  <2>3. ASSUME NEW i \in 1 .. (Len(s) - 1) PROVE Tail(s)[i] # Head(s)
    <3>1. i + 1 \in 1 .. Len(s) /\ 1 \in 1 .. Len(s) /\ i + 1 # 1
      BY <1>1
    <3>2. QED
      BY <3>1, <2>1, <1>1
  <2>4. QED
    BY <2>2, <2>3, <1>1 DEF Injective, Elems
<1>5. QED
  BY <1>1, <1>2, <1>3, <1>4

\* The tasks a sequence of results answers follow its pushes and pops.
LEMMA TasksOfFacts ==
  ASSUME NEW s \in Seq(Result)
  PROVE  /\ TasksOf(s) \in Seq(Task)
         /\ \A e \in Result : TasksOf(Append(s, e)) = Append(TasksOf(s), e.task)
         /\ s # <<>> => /\ TasksOf(s) # <<>>
                        /\ TasksOf(Tail(s)) = Tail(TasksOf(s))
                        /\ Head(TasksOf(s)) = Head(s).task
<1>1. /\ DOMAIN s = 1 .. Len(s) /\ Len(s) \in Nat
      /\ \A i \in 1 .. Len(s) : s[i] \in Result
  OBVIOUS
<1>2. \A e \in Result : e.task \in Task
  BY DEF Result
<1>3. TasksOf(s) \in [1 .. Len(s) -> Task]
  BY <1>1, <1>2 DEF TasksOf
<1>4. TasksOf(s) \in Seq(Task) /\ Len(TasksOf(s)) = Len(s)
  BY <1>1, <1>3
<1>5. ASSUME NEW e \in Result
      PROVE  TasksOf(Append(s, e)) = Append(TasksOf(s), e.task)
  <2>1. DOMAIN Append(s, e) = 1 .. (Len(s) + 1)
    BY <1>1
  <2>2. TasksOf(Append(s, e)) = [i \in 1 .. (Len(s) + 1) |-> Append(s, e)[i].task]
    BY <2>1 DEF TasksOf
  <2>3. \A i \in 1 .. (Len(s) + 1) : Append(s, e)[i] = IF i = Len(s) + 1 THEN e ELSE s[i]
    BY <1>1
  <2>4. Append(TasksOf(s), e.task) =
          [i \in 1 .. (Len(s) + 1) |-> IF i = Len(s) + 1 THEN e.task ELSE TasksOf(s)[i]]
    BY <1>4, <1>2
  <2>5. \A i \in 1 .. Len(s) : TasksOf(s)[i] = s[i].task
    BY <1>1 DEF TasksOf
  <2>6. QED
    BY <2>2, <2>3, <2>4, <2>5, <1>1
<1>6. ASSUME s # <<>>
      PROVE  /\ TasksOf(s) # <<>>
             /\ TasksOf(Tail(s)) = Tail(TasksOf(s))
             /\ Head(TasksOf(s)) = Head(s).task
  <2>1. Len(s) > 0 /\ 1 \in 1 .. Len(s) /\ Head(s) = s[1]
    BY <1>1, <1>6
  <2>2. TasksOf(s) # <<>> /\ Head(TasksOf(s)) = TasksOf(s)[1]
    BY <2>1, <1>4
  <2>3. \A i \in 1 .. Len(s) : TasksOf(s)[i] = s[i].task
    BY <1>1 DEF TasksOf
  <2>4. DOMAIN Tail(s) = 1 .. (Len(s) - 1) /\ \A i \in 1 .. (Len(s) - 1) : Tail(s)[i] = s[i + 1]
    BY <1>1, <1>6
  <2>5. Tail(TasksOf(s)) = [i \in 1 .. (Len(s) - 1) |-> TasksOf(s)[i + 1]]
    <3>1. ASSUME NEW q \in Seq(Task), q # <<>>
          PROVE  Tail(q) = [i \in 1 .. (Len(q) - 1) |-> q[i + 1]]
      <4>1. /\ Tail(q) \in Seq(Task) /\ Len(Tail(q)) = Len(q) - 1
            /\ \A i \in 1 .. (Len(q) - 1) : Tail(q)[i] = q[i + 1]
        BY <3>1
      <4>2. Tail(q) = [i \in 1 .. Len(Tail(q)) |-> Tail(q)[i]]
        BY <4>1, LenProperties
      <4>3. QED
        BY <4>1, <4>2
    <3>2. QED
      BY <1>4, <2>2, <3>1
  <2>6. \A i \in 1 .. (Len(s) - 1) : i + 1 \in 1 .. Len(s)
    BY <1>1
  <2>7. TasksOf(Tail(s)) = [i \in 1 .. (Len(s) - 1) |-> s[i + 1].task]
    BY <2>4 DEF TasksOf
  <2>8. Tail(TasksOf(s)) = TasksOf(Tail(s))
    BY <2>3, <2>5, <2>6, <2>7
  <2>9. QED
    BY <2>1, <2>2, <2>3, <2>8
<1>7. QED
  BY <1>4, <1>5, <1>6

-----------------------------------------------------------------------------
(* Types *)

\* Every variable keeps its type through every step of the loop, the runners
\* and the crashes.
LEMMA TypeStep == TypeOK /\ [Next]_vars => TypeOK'
<1> SUFFICES ASSUME TypeOK, [Next]_vars PROVE TypeOK'
  OBVIOUS
<1> USE DEF TypeOK
<1>1. CASE StartRound
  <2>1. tasks' \in Seq(Task) /\ collected' \in Seq(Result)
    BY <1>1, EmptySeq DEF StartRound
  <2>2. opened' \in SUBSET Nat /\ reopened' \in SUBSET Nat
    BY <1>1 DEF StartRound
  <2>3. expired' \in BOOLEAN
    BY <1>1 DEF StartRound
  <2>4. /\ pc' = "rvb" /\ todo' = Pair /\ runners' = 0 /\ start' = start + 1 /\ asked' = {}
        /\ UNCHANGED <<CurrentRound, results, working, rounds, restarts, faults>>
    BY <1>1 DEF StartRound, boundVars
  <2>5. QED
    BY <2>1, <2>2, <2>3, <2>4
<1>2. CASE LoopReturns
  BY <1>2 DEF LoopReturns, Fault, redisVars, historyVars
<1>3. ASSUME NEW p \in Pair, SkipPair(p) PROVE TypeOK'
  BY <1>3 DEF SkipPair, redisVars, historyVars, boundVars
<1>4. ASSUME NEW p \in Pair, Enqueue(p) PROVE TypeOK'
  <2>1. [round |-> CurrentRound, pair |-> p, start |-> start] \in Task
    BY DEF Task
  <2>2. tasks' \in Seq(Task)
    BY <2>1, <1>4 DEF Enqueue
  <2>3. QED
    BY <1>4, <2>2 DEF Enqueue, CountPair
<1>5. ASSUME NEW p \in Pair, EnqueueLost(p) PROVE TypeOK'
  BY <1>5 DEF EnqueueLost, CountPair, Fault
<1>6. CASE Collect
  <2>1. results' \in Seq(Result) /\ collected' \in Seq(Result)
    BY <1>6, HeadTailProperties DEF Collect
  <2>2. QED
    BY <1>6, <2>1 DEF Collect, historyVars, boundVars
<1>7. ASSUME NextRound, UNCHANGED faults \/ Fault, DOMAIN rounds' \subseteq Nat \ {0},
             \A r \in DOMAIN rounds' : rounds'[r] \in Seq(Result)
      PROVE  TypeOK'
  BY <1>7 DEF NextRound, redisVars, Fault
<1>8. CASE Discard
  BY <1>7, <1>8 DEF Discard
<1>9. CASE SaveRound
  <2>1. DOMAIN rounds' \subseteq Nat \ {0} /\ \A r \in DOMAIN rounds' : rounds'[r] \in Seq(Result)
    BY <1>9 DEF SaveRound
  <2>2. QED
    BY <1>7, <1>9, <2>1 DEF SaveRound
<1>10. CASE SaveRoundFails
  BY <1>7, <1>10 DEF SaveRoundFails
<1>11. CASE Wake
  BY <1>11 DEF Wake, redisVars, historyVars, boundVars
<1>12. CASE Deadline
  BY <1>12 DEF Deadline, redisVars, historyVars, boundVars
<1>13. CASE Restart
  <2>1. CurrentRound' \in Nat \ {0}
    BY <1>13 DEF Restart, NumberAfter
  <2>2. collected' \in Seq(Result)
    BY <1>13, EmptySeq DEF Restart
  <2>3. expired' \in BOOLEAN
    BY <1>13 DEF Restart
  <2>4. /\ pc' = "idle" /\ todo' = {} /\ runners' = 0 /\ asked' = {}
        /\ restarts' \in Nat
        /\ UNCHANGED <<tasks, results, working, rounds, start, opened, reopened, faults>>
    BY <1>13 DEF Restart, redisVars
  <2>5. QED
    BY <2>1, <2>2, <2>3, <2>4
<1>14. ASSUME NEW r \in Runner, TakeTask(r) PROVE TypeOK'
  <2>1. tasks' \in Seq(Task) /\ Head(tasks) \in Task
    BY <1>14, HeadTailProperties DEF TakeTask
  <2>2. QED
    BY <1>14, <2>1 DEF TakeTask, serverVars, historyVars, boundVars
<1>15. ASSUME NEW r \in Runner, NEW t \in working[r], NEW ok \in Verdict, PushResult(r, t, ok)
       PROVE  TypeOK'
  <2>1. [task |-> t, ok |-> ok] \in Result
    BY DEF Result
  <2>2. results' \in Seq(Result)
    BY <2>1, <1>15 DEF PushResult
  <2>3. QED
    BY <1>15, <2>2 DEF PushResult, serverVars, historyVars, boundVars
<1>16. ASSUME NEW r \in Runner, NEW t \in working[r], PushLost(r, t) PROVE TypeOK'
  BY <1>16 DEF PushLost, Fault, serverVars, redisVars, historyVars
<1>17. ASSUME NEW r \in Runner, RunnerCrash(r) PROVE TypeOK'
  BY <1>17 DEF RunnerCrash, Fault, serverVars, redisVars, historyVars
<1>18. CASE UNCHANGED vars
  BY <1>18 DEF vars, serverVars, redisVars, historyVars, boundVars
<1>19. QED
  BY <1>1, <1>2, <1>3, <1>4, <1>5, <1>6, <1>8, <1>9, <1>10, <1>11, <1>12, <1>13,
     <1>14, <1>15, <1>16, <1>17, <1>18 DEF Next

LEMMA InitType == Init => TypeOK
<1> SUFFICES ASSUME Init PROVE TypeOK
  OBVIOUS
<1>1. /\ collected \in Seq(Result) /\ tasks \in Seq(Task) /\ results \in Seq(Result)
  BY EmptySeq DEF Init
<1>2. DOMAIN rounds = {}
  BY DEF Init
<1>3. working \in [Runner -> SUBSET Task]
  BY DEF Init
<1>4. /\ pc = "idle" /\ CurrentRound = 1 /\ todo = {} /\ runners = 0
      /\ start = 0 /\ asked = {} /\ opened = {} /\ reopened = {} /\ restarts = 0 /\ faults = 0
  BY DEF Init
<1>5. expired \in BOOLEAN
  BY DEF Init
<1>6. QED
  BY <1>1, <1>2, <1>3, <1>4, <1>5 DEF TypeOK

\* The type invariant of the loop, the runners, Redis and the rounds table, for
\* any number of teams, services, runners, rounds, restarts and faults.
THEOREM TypeCorrect == Spec => []TypeOK
BY InitType, TypeStep, PTL DEF Spec

-----------------------------------------------------------------------------
(* One task, one place *)

LEMMA OutstandingSomewhere ==
  /\ \A t : t \in Outstanding <=>
       t \in Queued \/ t \in Answered \/ t \in Counted \/ \E r \in Runner : t \in working[r]
  /\ \A t : t \in Outstanding' <=>
       t \in Queued' \/ t \in Answered' \/ t \in Counted' \/ \E r \in Runner : t \in working'[r]
BY DEF Outstanding

\* Whatever is on its way was made by Enqueue.
LEMMA OutstandingTasks == TypeOK => Outstanding \subseteq Task
<1> SUFFICES ASSUME TypeOK PROVE Outstanding \subseteq Task
  OBVIOUS
<1>1. Queued \subseteq Task
  BY LenProperties, ElementOfSeq DEF Queued, Elems, TypeOK
<1>2. ASSUME NEW s \in Seq(Result) PROVE Elems(TasksOf(s)) \subseteq Task
  <2>1. TasksOf(s) \in Seq(Task)
    BY TasksOfFacts
  <2>2. QED
    BY <2>1, LenProperties, ElementOfSeq DEF Elems
<1>3. UNION {working[r] : r \in Runner} \subseteq Task
  BY DEF TypeOK
<1>4. QED
  BY <1>1, <1>2, <1>3 DEF Outstanding, Answered, Counted, TypeOK

\* A step that only forgets tasks -- a crash, a lost push, a cleared list, a
\* discarded round -- leaves the rest apart and brings nothing back.
LEMMA ForgettingKeepsApart ==
  ASSUME tasks' = tasks \/ tasks' = <<>>,
         results' = results,
         collected' = collected \/ collected' = <<>>,
         \A r \in Runner : working'[r] \subseteq working[r],
         NoTaskTwice, Apart
  PROVE  NoTaskTwice' /\ Apart' /\ Outstanding' \subseteq Outstanding
<1>1. Elems(<<>>) = {} /\ Injective(<<>>) /\ TasksOf(<<>>) = <<>>
  BY DEF Elems, Injective, TasksOf
<1>2. Queued' \subseteq Queued /\ Injective(tasks')
  BY <1>1 DEF Queued, NoTaskTwice
<1>3. Answered' = Answered /\ Injective(TasksOf(results'))
  BY DEF Answered, NoTaskTwice
<1>4. Counted' \subseteq Counted /\ Injective(TasksOf(collected'))
  BY <1>1 DEF Counted, NoTaskTwice
<1>5. NoTaskTwice'
  BY <1>2, <1>3, <1>4 DEF NoTaskTwice
<1>6. Apart'
  BY <1>2, <1>3, <1>4 DEF Apart
<1>7. Outstanding' \subseteq Outstanding
  BY <1>2, <1>3, <1>4 DEF Outstanding
<1>8. QED
  BY <1>5, <1>6, <1>7

\* RPush of a task that is nowhere yet.
LEMMA EnqueueKeepsApart ==
  ASSUME TypeOK, NoTaskTwice, Apart, NEW t \in Task, t \notin Outstanding,
         tasks' = Append(tasks, t), UNCHANGED <<results, collected, working>>
  PROVE  NoTaskTwice' /\ Apart' /\ Outstanding' = Outstanding \cup {t}
<1>1. t \notin Queued /\ t \notin Answered /\ t \notin Counted /\ \A r \in Runner : t \notin working[r]
  BY DEF Outstanding
<1>2. Queued' = Queued \cup {t} /\ Injective(tasks')
  BY <1>1, AppendFacts DEF TypeOK, NoTaskTwice, Queued
<1>3. Answered' = Answered /\ Counted' = Counted
  BY DEF Answered, Counted
<1>4. NoTaskTwice'
  BY <1>2 DEF NoTaskTwice
<1>5. Apart'
  BY <1>1, <1>2, <1>3 DEF Apart
<1>6. QED
  BY <1>2, <1>3, <1>4, <1>5 DEF Outstanding

\* BLPop by a runner.
LEMMA TakeKeepsApart ==
  ASSUME TypeOK, NoTaskTwice, Apart, NEW r \in Runner, TakeTask(r)
  PROVE  NoTaskTwice' /\ Apart' /\ Outstanding' = Outstanding
<1> DEFINE t == Head(tasks)
<1>1. tasks # <<>> /\ tasks' = Tail(tasks) /\ UNCHANGED <<results, collected>>
  BY DEF TakeTask, serverVars
<1>2. \A q \in Runner : working'[q] = IF q = r THEN working[q] \cup {t} ELSE working[q]
  BY DEF TakeTask, TypeOK
<1>3. Queued = Queued' \cup {t} /\ t \notin Queued' /\ Injective(tasks')
  BY <1>1, TailFacts DEF TypeOK, NoTaskTwice, Queued
<1>4. Answered' = Answered /\ Counted' = Counted
  BY <1>1 DEF Answered, Counted
<1>5. NoTaskTwice'
  BY <1>1, <1>3 DEF NoTaskTwice
<1> HIDE DEF t
<1>6. Apart'
  <2>1. t \in Queued /\ \A q \in Runner : t \notin working[q]
    BY <1>3 DEF Apart
  <2>2. t \notin Answered /\ t \notin Counted
    BY <2>1 DEF Apart
  <2>3. /\ Queued' \cap Answered' = {} /\ Queued' \cap Counted' = {} /\ Answered' \cap Counted' = {}
    BY <1>3, <1>4 DEF Apart
  <2>4. ASSUME NEW q \in Runner PROVE working'[q] \cap (Queued' \cup Answered' \cup Counted') = {}
    <3>1. working[q] \cap (Queued' \cup Answered' \cup Counted') = {}
      BY <1>3, <1>4 DEF Apart
    <3>2. QED
      BY <3>1, <1>2, <1>3, <1>4, <2>2
  <2>5. ASSUME NEW q1 \in Runner, NEW q2 \in Runner, q1 # q2
        PROVE  working'[q1] \cap working'[q2] = {}
    <3>1. working[q1] \cap working[q2] = {}
      BY <2>5 DEF Apart
    <3>2. QED
      BY <3>1, <2>5, <1>2, <2>1
  <2>6. QED
    BY <2>3, <2>4, <2>5 DEF Apart
<1>7. Outstanding' = Outstanding
  <2>1. ASSUME NEW u PROVE (\E q \in Runner : u \in working'[q]) <=> (u = t \/ \E q \in Runner : u \in working[q])
    BY <1>2
  <2>2. QED
    BY <1>3, <1>4, <2>1, OutstandingSomewhere
<1>8. QED
  BY <1>5, <1>6, <1>7

\* RPush of the result of a task a runner has.
LEMMA PushKeepsApart ==
  ASSUME TypeOK, NoTaskTwice, Apart, NEW r \in Runner, NEW t \in working[r],
         NEW ok \in Verdict, PushResult(r, t, ok)
  PROVE  NoTaskTwice' /\ Apart' /\ Outstanding' = Outstanding
<1>1. t \in Task /\ [task |-> t, ok |-> ok] \in Result
  BY DEF TypeOK, Result
<1>2. results' = Append(results, [task |-> t, ok |-> ok]) /\ UNCHANGED <<tasks, collected>>
  BY DEF PushResult, serverVars
<1>3. \A q \in Runner : working'[q] = IF q = r THEN working[q] \ {t} ELSE working[q]
  BY DEF PushResult, TypeOK
<1>4. t \notin Queued /\ t \notin Answered /\ t \notin Counted
  BY DEF Apart
<1>5. TasksOf(results') = Append(TasksOf(results), t) /\ TasksOf(results) \in Seq(Task)
  BY <1>1, <1>2, TasksOfFacts DEF TypeOK
<1>6. Answered' = Answered \cup {t} /\ Injective(TasksOf(results'))
  BY <1>1, <1>4, <1>5, AppendFacts DEF Answered, NoTaskTwice
<1>7. Queued' = Queued /\ Counted' = Counted
  BY <1>2 DEF Queued, Counted
<1>8. NoTaskTwice'
  BY <1>2, <1>6 DEF NoTaskTwice
<1>9. Apart'
  <2>1. /\ Queued' \cap Answered' = {} /\ Queued' \cap Counted' = {} /\ Answered' \cap Counted' = {}
    BY <1>4, <1>6, <1>7 DEF Apart
  <2>2. \A q \in Runner : t \notin working'[q]
    BY <1>3 DEF Apart
  <2>3. ASSUME NEW q \in Runner PROVE working'[q] \cap (Queued' \cup Answered' \cup Counted') = {}
    <3>1. working'[q] \cap (Queued \cup Answered \cup Counted) = {}
      BY <1>3 DEF Apart
    <3>2. QED
      BY <3>1, <2>2, <1>6, <1>7
  <2>4. ASSUME NEW q1 \in Runner, NEW q2 \in Runner, q1 # q2
        PROVE  working'[q1] \cap working'[q2] = {}
    <3>1. working[q1] \cap working[q2] = {}
      BY <2>4 DEF Apart
    <3>2. QED
      BY <3>1, <1>3
  <2>5. QED
    BY <2>1, <2>3, <2>4 DEF Apart
<1>10. Outstanding' = Outstanding
  <2>1. ASSUME NEW u
        PROVE  (u = t \/ \E q \in Runner : u \in working'[q]) <=> \E q \in Runner : u \in working[q]
    BY <1>3
  <2>2. QED
    BY <1>6, <1>7, <2>1, OutstandingSomewhere
<1>11. QED
  BY <1>8, <1>9, <1>10

\* BLPop by the engine, which keeps the result or drops it.
LEMMA CollectKeepsApart ==
  ASSUME TypeOK, NoTaskTwice, Apart, Collect
  PROVE  NoTaskTwice' /\ Apart' /\ Outstanding' \subseteq Outstanding
<1> DEFINE t == Head(results).task
<1>1. results # <<>> /\ results' = Tail(results) /\ UNCHANGED <<tasks, working>>
  BY DEF Collect
<1>2. Head(results) \in Result /\ t \in Task
  <2>1. Head(results) \in Result
    BY <1>1, HeadTailProperties DEF TypeOK
  <2>2. QED
    BY <2>1 DEF Result
<1>3. /\ TasksOf(results) \in Seq(Task) /\ TasksOf(results) # <<>>
      /\ Head(TasksOf(results)) = t /\ TasksOf(results') = Tail(TasksOf(results))
  BY <1>1, TasksOfFacts DEF TypeOK
<1>4. Answered = Answered' \cup {t} /\ t \notin Answered' /\ Injective(TasksOf(results'))
  BY <1>3, TailFacts DEF Answered, NoTaskTwice
<1>5. Queued' = Queued
  BY <1>1 DEF Queued
<1>6. t \notin Queued /\ t \notin Counted /\ \A r \in Runner : t \notin working[r]
  BY <1>4 DEF Apart
<1>7. CASE collected' = collected
  <2>1. Counted' = Counted
    BY <1>7 DEF Counted
  <2>2. NoTaskTwice'
    BY <1>1, <1>4, <1>7 DEF NoTaskTwice
  <2>3. QED
    BY <1>1, <1>4, <1>5, <2>1, <2>2 DEF Apart, Outstanding
<1>8. CASE collected' = Append(collected, Head(results))
  <2>1. TasksOf(collected') = Append(TasksOf(collected), t) /\ TasksOf(collected) \in Seq(Task)
    BY <1>2, <1>8, TasksOfFacts DEF TypeOK
  <2>2. Counted' = Counted \cup {t} /\ Injective(TasksOf(collected'))
    BY <1>2, <1>6, <2>1, AppendFacts DEF Counted, NoTaskTwice
  <2>3. NoTaskTwice'
    BY <1>1, <1>4, <2>2 DEF NoTaskTwice
  <2> HIDE DEF t
  <2>4. Apart'
    BY <1>1, <1>4, <1>5, <1>6, <2>2 DEF Apart
  <2>5. QED
    BY <1>1, <1>4, <1>5, <2>2, <2>3, <2>4 DEF Outstanding
<1>9. QED
  BY <1>7, <1>8 DEF Collect

-----------------------------------------------------------------------------
(* The inductive invariant *)

\* Steps that neither open a round, enqueue, collect nor save keep all of IInv
\* that is not about types and places.
LEMMA QuietStep ==
  ASSUME IInv, Outstanding' \subseteq Outstanding,
         todo' \subseteq todo, UNCHANGED <<start, opened, reopened, rounds>>,
         CurrentRound' = CurrentRound,
         \/ pc' = pc /\ collected' = collected
         \/ pc' # "rvb" /\ collected' = <<>>
  PROVE  /\ Known' /\ OwnStart' /\ CollectedHere' /\ OpenIsOpened'
         /\ RoundNumberIsNew' /\ OneResultPerPair'
<1> USE DEF IInv
<1>1. Known' /\ OwnStart' /\ OpenIsOpened'
  BY DEF Known, OwnStart, OpenIsOpened
<1>2. CollectedHere'
  BY DEF CollectedHere
<1>3. RoundNumberIsNew' /\ OneResultPerPair'
  BY DEF RoundNumberIsNew, OneResultPerPair
<1>4. QED
  BY <1>1, <1>2, <1>3

\* The results of a round that was opened once are all of its one start, so two
\* of one pair would be one task twice.
LEMMA CollectedOnePerPair ==
  ASSUME IInv, pc = "rvb", CurrentRound \notin reopened
  PROVE  OnePerPair(collected)
<1> USE DEF IInv
<1> SUFFICES ASSUME NEW i \in DOMAIN collected, NEW j \in DOMAIN collected,
                    collected[i].task.pair = collected[j].task.pair
             PROVE  i = j
  BY DEF OnePerPair
<1>1. DOMAIN TasksOf(collected) = DOMAIN collected
  BY DEF TasksOf
<1>2. TasksOf(collected)[i] = collected[i].task /\ TasksOf(collected)[j] = collected[j].task
  BY DEF TasksOf
<1>3. collected[i].task \in Outstanding /\ collected[j].task \in Outstanding
  BY <1>1, <1>2, OutstandingSomewhere DEF Counted, Elems
<1>4. collected[i].task.round = CurrentRound /\ collected[j].task.round = CurrentRound
  BY DEF CollectedHere
<1>5. collected[i].task.start = start /\ collected[j].task.start = start
  BY <1>3, <1>4 DEF OwnStart
<1>6. collected[i].task \in Task /\ collected[j].task \in Task
  BY <1>3, OutstandingTasks
<1>7. collected[i].task = collected[j].task
  BY <1>4, <1>5, <1>6 DEF Task
<1>8. QED
  BY <1>1, <1>2, <1>7 DEF NoTaskTwice, Injective

\* The end of an iteration: either nothing was saved, or the collected results
\* were, under the current number.
LEMMA ClosingStep ==
  ASSUME IInv, pc = "rvb", NextRound,
         \/ rounds' = rounds
         \/ rounds' = [r \in DOMAIN rounds \cup {CurrentRound} |->
                         IF r = CurrentRound THEN collected ELSE rounds[r]]
  PROVE  /\ NoTaskTwice' /\ Apart' /\ Known' /\ OwnStart' /\ CollectedHere' /\ OpenIsOpened'
         /\ RoundNumberIsNew' /\ OneResultPerPair'
<1> USE DEF IInv
<1>1. NoTaskTwice' /\ Apart' /\ Outstanding' \subseteq Outstanding
  <2>1. /\ tasks' = tasks /\ results' = results /\ collected' = <<>> /\ working' = working
    BY DEF NextRound, redisVars
  <2>2. QED
    BY <2>1, ForgettingKeepsApart
<1>2. Known'
  BY <1>1 DEF Known, NextRound
<1>3. OwnStart' /\ OpenIsOpened' /\ CollectedHere'
  BY DEF OwnStart, OpenIsOpened, CollectedHere, NextRound
<1>4. RoundNumberIsNew'
  <2>1. \A r \in DOMAIN rounds : r \in Nat /\ r < CurrentRound
    BY DEF RoundNumberIsNew, TypeOK
  <2>2. CurrentRound \in Nat /\ CurrentRound' = CurrentRound + 1
    BY DEF NextRound, TypeOK
  <2>3. \A r \in DOMAIN rounds' : r \in DOMAIN rounds \/ r = CurrentRound
    OBVIOUS
  <2>4. QED
    BY <2>1, <2>2, <2>3 DEF RoundNumberIsNew
<1>5. OneResultPerPair'
  <2>1. reopened' = reopened
    BY DEF NextRound
  <2>2. CASE rounds' = rounds
    BY <2>1, <2>2 DEF OneResultPerPair
  <2>3. CASE rounds' = [r \in DOMAIN rounds \cup {CurrentRound} |->
                         IF r = CurrentRound THEN collected ELSE rounds[r]]
    <3>1. CurrentRound \notin reopened => OnePerPair(collected)
      BY CollectedOnePerPair
    <3>2. ASSUME NEW r \in DOMAIN rounds' \ reopened' PROVE OnePerPair(rounds'[r])
      <4>1. CASE r = CurrentRound
        BY <2>1, <2>3, <3>1, <3>2, <4>1
      <4>2. CASE r # CurrentRound
        BY <2>1, <2>3, <3>2, <4>2 DEF OneResultPerPair
      <4>3. QED
        BY <4>1, <4>2
    <3>3. QED
      BY <3>2 DEF OneResultPerPair, OnePerPair
  <2>4. QED
    BY <2>2, <2>3
<1>6. QED
  BY <1>1, <1>2, <1>3, <1>4, <1>5

LEMMA InvariantStep == IInv /\ [Next]_vars => IInv'
<1> SUFFICES ASSUME IInv, [Next]_vars PROVE IInv'
  OBVIOUS
<1>0. TypeOK'
  BY TypeStep DEF IInv
<1> USE DEF IInv
<1>1. CASE StartRound
  <2>1. /\ tasks' = <<>> /\ collected' = <<>> /\ todo' = Pair
        /\ UNCHANGED <<results, working, rounds, CurrentRound>>
    BY <1>1 DEF StartRound
  <2>2. NoTaskTwice' /\ Apart' /\ Outstanding' \subseteq Outstanding
    BY <2>1, ForgettingKeepsApart
  <2>3. /\ start' = start + 1 /\ start \in Nat
        /\ opened' = opened \cup {CurrentRound}
        /\ reopened' = IF CurrentRound \in opened THEN reopened \cup {CurrentRound} ELSE reopened
    BY <1>1 DEF StartRound, TypeOK
  <2>4. \A t \in Outstanding : t.start <= start /\ t.round \in opened
    BY DEF Known
  <2>5. \A t \in Outstanding : t \in Task
    BY OutstandingTasks
  <2>6. Known'
    <3> SUFFICES ASSUME NEW t \in Outstanding'
                 PROVE  t.start <= start' /\ t.round \in opened' /\ t.start # start'
      BY DEF Known
    <3>1. t \in Outstanding /\ t.start \in Nat
      BY <2>2, <2>5 DEF Task
    <3>2. QED
      BY <3>1, <2>3, <2>4
  <2>7. OwnStart'
    BY <2>1, <2>2, <2>3, <2>4 DEF OwnStart
  <2>8. CollectedHere'
    BY <1>1, <2>1 DEF CollectedHere, StartRound
  <2>9. OpenIsOpened' /\ RoundNumberIsNew'
    BY <2>1, <2>3 DEF OpenIsOpened, RoundNumberIsNew
  <2>10. OneResultPerPair'
    BY <2>1, <2>3 DEF OneResultPerPair
  <2>11. QED
    BY <1>0, <2>2, <2>6, <2>7, <2>8, <2>9, <2>10
<1>2. ASSUME tasks' = tasks \/ tasks' = <<>>, results' = results,
             \A r \in Runner : working'[r] \subseteq working[r],
             todo' \subseteq todo, UNCHANGED <<start, opened, reopened, rounds, CurrentRound>>,
             \/ pc' = pc /\ collected' = collected
             \/ pc' # "rvb" /\ collected' = <<>>
      PROVE  IInv'
  BY <1>0, <1>2, ForgettingKeepsApart, QuietStep
<1>3. CASE LoopReturns
  <2>1. collected = <<>>
    BY <1>3 DEF LoopReturns, CollectedHere
  <2>2. QED
    BY <1>2, <1>3, <2>1 DEF LoopReturns, redisVars, historyVars
<1>4. ASSUME NEW p \in Pair, SkipPair(p) PROVE IInv'
  BY <1>2, <1>4 DEF SkipPair, redisVars, historyVars
<1>5. ASSUME NEW p \in Pair, EnqueueLost(p) PROVE IInv'
  BY <1>2, <1>5 DEF EnqueueLost, CountPair
<1>6. ASSUME NEW p \in Pair, Enqueue(p) PROVE IInv'
  <2> DEFINE t == [round |-> CurrentRound, pair |-> p, start |-> start]
  <2>1. t \in Task /\ t.round = CurrentRound /\ t.pair = p /\ t.start = start
    BY DEF Task, TypeOK
  <2>2. /\ pc = "rvb" /\ p \in todo /\ todo' = todo \ {p}
        /\ tasks' = Append(tasks, t)
        /\ UNCHANGED <<pc, CurrentRound, collected, results, working, rounds, start, opened, reopened>>
    BY <1>6 DEF Enqueue, CountPair
  <2> HIDE DEF t
  <2>3. t \notin Outstanding
    BY <2>1, <2>2 DEF Known
  <2>4. NoTaskTwice' /\ Apart' /\ Outstanding' = Outstanding \cup {t}
    BY <2>1, <2>2, <2>3, EnqueueKeepsApart
  <2>5. start \in Nat /\ CurrentRound \in opened
    BY <2>2 DEF TypeOK, OpenIsOpened
  <2>6. Known'
    BY <2>1, <2>2, <2>4, <2>5 DEF Known
  <2>7. OwnStart'
    BY <2>1, <2>2, <2>4 DEF OwnStart
  <2>8. CollectedHere' /\ OpenIsOpened' /\ RoundNumberIsNew' /\ OneResultPerPair'
    BY <2>2 DEF CollectedHere, OpenIsOpened, RoundNumberIsNew, OneResultPerPair
  <2>9. QED
    BY <1>0, <2>4, <2>6, <2>7, <2>8
<1>7. CASE Collect
  <2>1. /\ pc = "rvb" /\ results # <<>>
        /\ UNCHANGED <<pc, CurrentRound, todo, rounds, start, opened, reopened>>
    BY <1>7 DEF Collect, Collecting, historyVars
  <2>2. NoTaskTwice' /\ Apart' /\ Outstanding' \subseteq Outstanding
    BY <1>7, CollectKeepsApart
  <2>3. Known' /\ OwnStart' /\ OpenIsOpened' /\ RoundNumberIsNew' /\ OneResultPerPair'
    BY <2>1, <2>2 DEF Known, OwnStart, OpenIsOpened, RoundNumberIsNew, OneResultPerPair
  <2>4. CollectedHere'
    <3>1. CASE collected' = collected
      BY <2>1, <3>1 DEF CollectedHere
    <3>2. CASE collected' = Append(collected, Head(results)) /\ Head(results).task.round = CurrentRound
      <4>1. Head(results) \in Result /\ collected \in Seq(Result)
        BY <2>1, HeadTailProperties DEF TypeOK
      <4>2. \A x \in Elems(collected) : x.task.round = CurrentRound
        BY DEF Elems, CollectedHere
      <4>3. Elems(collected') = Elems(collected) \cup {Head(results)}
        BY <3>2, <4>1, AppendFacts
      <4>4. \A i \in DOMAIN collected' : collected'[i] \in Elems(collected')
        BY DEF Elems
      <4>5. QED
        BY <2>1, <3>2, <4>2, <4>3, <4>4 DEF CollectedHere
    <3>3. QED
      BY <1>7, <3>1, <3>2 DEF Collect, Belongs
  <2>5. QED
    BY <1>0, <2>2, <2>3, <2>4
<1>8. CASE Discard
  BY <1>0, <1>8, ClosingStep DEF Discard, Collecting
<1>9. CASE SaveRound
  BY <1>0, <1>9, ClosingStep DEF SaveRound
<1>10. CASE SaveRoundFails
  BY <1>0, <1>10, ClosingStep DEF SaveRoundFails
<1>11. CASE Wake
  <2>1. collected = <<>>
    BY <1>11 DEF Wake, CollectedHere
  <2>2. QED
    BY <1>2, <1>11, <2>1 DEF Wake, redisVars, historyVars
<1>12. CASE Deadline
  BY <1>2, <1>12 DEF Deadline, redisVars, historyVars
<1>13. CASE Restart
  <2>1. /\ pc' = "idle" /\ todo' = {} /\ collected' = <<>>
        /\ UNCHANGED <<tasks, results, working, rounds, start, opened, reopened>>
    BY <1>13 DEF Restart, redisVars
  <2>2. NoTaskTwice' /\ Apart' /\ Outstanding' \subseteq Outstanding
    BY <2>1, ForgettingKeepsApart
  <2>3. Known' /\ OwnStart' /\ CollectedHere' /\ OpenIsOpened' /\ OneResultPerPair'
    BY <2>1, <2>2 DEF Known, OwnStart, CollectedHere, OpenIsOpened, OneResultPerPair
  <2>4. RoundNumberIsNew'
    <3>1. PICK last \in DOMAIN rounds \cup {0} : IsLastRound(last) /\ CurrentRound' = NumberAfter(last)
      BY <1>13 DEF Restart
    <3>2. last \in Nat /\ \A r \in DOMAIN rounds : r \in Nat /\ r <= last
      BY <3>1 DEF IsLastRound, TypeOK
    <3>3. QED
      BY <2>1, <3>1, <3>2 DEF RoundNumberIsNew, NumberAfter
  <2>5. QED
    BY <1>0, <2>2, <2>3, <2>4
<1>14. ASSUME NEW r \in Runner, TakeTask(r) PROVE IInv'
  <2>1. NoTaskTwice' /\ Apart' /\ Outstanding' = Outstanding
    BY <1>14, TakeKeepsApart
  <2>2. QED
    BY <1>0, <1>14, <2>1, QuietStep DEF TakeTask, serverVars, historyVars
<1>15. ASSUME NEW r \in Runner, NEW t \in working[r], NEW ok \in Verdict, PushResult(r, t, ok)
       PROVE  IInv'
  <2>1. NoTaskTwice' /\ Apart' /\ Outstanding' = Outstanding
    BY <1>15, PushKeepsApart
  <2>2. QED
    BY <1>0, <1>15, <2>1, QuietStep DEF PushResult, serverVars, historyVars
<1>16. ASSUME NEW r \in Runner, NEW t \in working[r], PushLost(r, t) PROVE IInv'
  <2>1. \A q \in Runner : working'[q] \subseteq working[q]
    BY <1>16 DEF PushLost, TypeOK
  <2>2. QED
    BY <1>2, <1>16, <2>1 DEF PushLost, serverVars, redisVars, historyVars
<1>17. ASSUME NEW r \in Runner, RunnerCrash(r) PROVE IInv'
  <2>1. \A q \in Runner : working'[q] \subseteq working[q]
    BY <1>17 DEF RunnerCrash, TypeOK
  <2>2. QED
    BY <1>2, <1>17, <2>1 DEF RunnerCrash, serverVars, redisVars, historyVars
<1>18. CASE UNCHANGED vars
  BY <1>2, <1>18 DEF vars, serverVars, redisVars, historyVars
<1>19. QED
  BY <1>1, <1>3, <1>4, <1>5, <1>6, <1>7, <1>8, <1>9, <1>10, <1>11, <1>12, <1>13,
     <1>14, <1>15, <1>16, <1>17, <1>18 DEF Next

LEMMA InitInvariant == Init => IInv
<1> SUFFICES ASSUME Init PROVE IInv
  OBVIOUS
<1>1. TypeOK
  BY InitType
<1>2. /\ pc = "idle" /\ collected = <<>> /\ tasks = <<>> /\ results = <<>>
      /\ \A r \in Runner : working[r] = {}
      /\ DOMAIN rounds = {}
  BY DEF Init
<1>3. Elems(<<>>) = {} /\ Injective(<<>>) /\ TasksOf(<<>>) = <<>>
  BY DEF Elems, Injective, TasksOf
<1>4. Queued = {} /\ Answered = {} /\ Counted = {} /\ NoTaskTwice
  BY <1>2, <1>3 DEF Queued, Answered, Counted, NoTaskTwice
<1>5. Outstanding = {}
  BY <1>2, <1>4, OutstandingSomewhere
<1>6. Apart
  BY <1>2, <1>4 DEF Apart
<1>7. Known /\ OwnStart /\ CollectedHere /\ OpenIsOpened /\ RoundNumberIsNew /\ OneResultPerPair
  BY <1>2, <1>5 DEF Known, OwnStart, CollectedHere, OpenIsOpened, RoundNumberIsNew, OneResultPerPair
<1>8. QED
  BY <1>1, <1>4, <1>6, <1>7 DEF IInv

LEMMA Invariant == Spec => []IInv
BY InitInvariant, InvariantStep, PTL DEF Spec

\* A round whose number was opened once is saved with at most one result per
\* (team, service), however late results of other rounds arrive and whatever
\* crashes or is lost (engine.go:473-518).
THEOREM SavedOncePerPair == Spec => []OneResultPerPair
<1>1. IInv => OneResultPerPair
  BY DEF IInv
<1>2. QED
  BY <1>1, Invariant, PTL

\* The loop never works on a round number that is already saved, across
\* discarded rounds, failed saves and restarts (engine.go:79-83, 160).
THEOREM RoundNumberStaysNew == Spec => []RoundNumberIsNew
<1>1. IInv => RoundNumberIsNew
  BY DEF IInv
<1>2. QED
  BY <1>1, Invariant, PTL

-----------------------------------------------------------------------------
(* What a round asks for, what it loses and what it saves *)

LEMMA PairsAreFinite == IsFiniteSet(Pair)
BY FiniteAssumption, FS_Product DEF Pair

\* A step of others, and of the loop outside its enqueueing: the same pairs are
\* asked for, and no task of this round appears.
LEMMA CountedOnStays ==
  ASSUME CountedOn, Outstanding' \subseteq Outstanding, pc' = "rvb" => pc = "rvb",
         todo' \subseteq todo, UNCHANGED <<runners, asked, CurrentRound, reopened>>
  PROVE  CountedOn'
BY DEF CountedOn

\* CountPair: one pair more is counted, and it is this pair that is asked.
LEMMA CountedOnGrows ==
  ASSUME IInv, CountedOn, NEW p \in Pair, CountPair(p),
         \A t \in Outstanding' : t \in Outstanding \/ t.pair = p
  PROVE  CountedOn'
<1>1. /\ pc = "rvb" /\ p \in todo /\ todo' = todo \ {p}
      /\ runners' = runners + 1 /\ asked' = asked \cup {p}
      /\ UNCHANGED <<pc, CurrentRound, reopened>>
  BY DEF CountPair
<1>2. p \notin asked /\ runners = Cardinality(asked)
  BY <1>1 DEF CountedOn
<1>3. IsFiniteSet(asked)
  BY PairsAreFinite, FS_Subset DEF IInv, TypeOK
<1>4. runners' = Cardinality(asked')
  BY <1>1, <1>2, <1>3, FS_AddElement
<1>5. asked' \cap todo' = {}
  BY <1>1 DEF CountedOn
<1>6. CurrentRound' \notin reopened' => \A t \in Outstanding' : t.round = CurrentRound' => t.pair \in asked'
  BY <1>1 DEF CountedOn
<1>7. QED
  BY <1>4, <1>5, <1>6 DEF CountedOn

\* A step other than Enqueue and Restart brings nothing new on its way; the
\* loop's number moves only when a round closes or the server starts again.
LEMMA NothingNew ==
  ASSUME IInv, [Next]_vars, \A p \in Pair : ~Enqueue(p)
  PROVE  Outstanding' \subseteq Outstanding
<1> USE DEF IInv
<1>1. ASSUME tasks' = tasks \/ tasks' = <<>>, results' = results,
             collected' = collected \/ collected' = <<>>,
             \A r \in Runner : working'[r] \subseteq working[r]
      PROVE  Outstanding' \subseteq Outstanding
  BY <1>1, ForgettingKeepsApart
<1>2. CASE StartRound
  BY <1>1, <1>2 DEF StartRound
<1>3. CASE LoopReturns
  BY <1>1, <1>3 DEF LoopReturns, redisVars
<1>4. ASSUME NEW p \in Pair, SkipPair(p) PROVE Outstanding' \subseteq Outstanding
  BY <1>1, <1>4 DEF SkipPair, redisVars
<1>5. ASSUME NEW p \in Pair, EnqueueLost(p) PROVE Outstanding' \subseteq Outstanding
  BY <1>1, <1>5 DEF EnqueueLost, CountPair
<1>6. CASE Collect
  BY <1>6, CollectKeepsApart
<1>7. CASE Discard \/ SaveRound \/ SaveRoundFails
  BY <1>1, <1>7 DEF Discard, SaveRound, SaveRoundFails, NextRound, redisVars
<1>8. CASE Wake \/ Deadline \/ Restart
  BY <1>1, <1>8 DEF Wake, Deadline, Restart, redisVars
<1>9. ASSUME NEW r \in Runner, TakeTask(r) PROVE Outstanding' \subseteq Outstanding
  BY <1>9, TakeKeepsApart
<1>10. ASSUME NEW r \in Runner, NEW t \in working[r], NEW ok \in Verdict, PushResult(r, t, ok)
       PROVE  Outstanding' \subseteq Outstanding
  BY <1>10, PushKeepsApart
<1>11. ASSUME NEW r \in Runner, NEW t \in working[r], PushLost(r, t)
       PROVE  Outstanding' \subseteq Outstanding
  BY <1>1, <1>11 DEF PushLost, TypeOK, serverVars, redisVars
<1>12. ASSUME NEW r \in Runner, RunnerCrash(r) PROVE Outstanding' \subseteq Outstanding
  BY <1>1, <1>12 DEF RunnerCrash, TypeOK, serverVars, redisVars
<1>13. CASE UNCHANGED vars
  BY <1>1, <1>13 DEF vars, serverVars, redisVars
<1>14. QED
  BY <1>2, <1>3, <1>4, <1>5, <1>6, <1>7, <1>8, <1>9, <1>10, <1>11, <1>12, <1>13 DEF Next

\* Enqueue puts exactly its own task on its way.
LEMMA EnqueueAddsItsTask ==
  ASSUME IInv, NEW p \in Pair, Enqueue(p)
  PROVE  TaskFor(p) \in Task /\ Outstanding' = Outstanding \cup {TaskFor(p)}
<1> USE DEF IInv
<1>1. /\ TaskFor(p) \in Task /\ TaskFor(p).round = CurrentRound
      /\ TaskFor(p).pair = p /\ TaskFor(p).start = start
  BY DEF Task, TypeOK, TaskFor
<1>2. /\ p \in todo /\ tasks' = Append(tasks, TaskFor(p))
      /\ UNCHANGED <<results, collected, working>>
  BY DEF Enqueue, CountPair, TaskFor
<1>3. TaskFor(p) \notin Outstanding
  BY <1>1, <1>2 DEF Known
<1>4. QED
  BY <1>1, <1>2, <1>3, EnqueueKeepsApart

LEMMA CountedOnStep == IInv /\ CountedOn /\ [Next]_vars => CountedOn'
<1> SUFFICES ASSUME IInv, CountedOn, [Next]_vars PROVE CountedOn'
  OBVIOUS
<1>1. ASSUME NEW p \in Pair, Enqueue(p) PROVE CountedOn'
  <2>1. TaskFor(p).pair = p
    BY DEF TaskFor
  <2>2. \A t \in Outstanding' : t \in Outstanding \/ t.pair = p
    BY <1>1, <2>1, EnqueueAddsItsTask
  <2>3. QED
    BY <1>1, <2>2, CountedOnGrows DEF Enqueue
<1> SUFFICES ASSUME \A p \in Pair : ~Enqueue(p) PROVE CountedOn'
  BY <1>1
<1>2. Outstanding' \subseteq Outstanding
  BY NothingNew
<1>3. CASE StartRound
  <2>1. /\ runners' = 0 /\ asked' = {} /\ CurrentRound' = CurrentRound
        /\ CurrentRound \in opened => CurrentRound \in reopened'
    BY <1>3 DEF StartRound
  <2>2. \A t \in Outstanding : t.round \in opened
    BY DEF IInv, Known
  <2>3. Cardinality(asked') = 0
    BY <2>1, FS_EmptySet
  <2>4. QED
    BY <1>2, <2>1, <2>2, <2>3 DEF CountedOn
<1>4. ASSUME NEW p \in Pair, EnqueueLost(p) PROVE CountedOn'
  BY <1>2, <1>4, CountedOnGrows DEF EnqueueLost
<1>5. CASE LoopReturns \/ Discard \/ SaveRound \/ SaveRoundFails \/ Wake \/ Restart
  BY <1>5 DEF LoopReturns, Discard, SaveRound, SaveRoundFails, NextRound, Wake, Restart, CountedOn
<1>6. ASSUME NEW p \in Pair, SkipPair(p) PROVE CountedOn'
  BY <1>2, <1>6, CountedOnStays DEF SkipPair, historyVars
<1>7. CASE Collect \/ Deadline
  BY <1>2, <1>7, CountedOnStays DEF Collect, Deadline, historyVars
<1>8. ASSUME UNCHANGED <<serverVars, historyVars>> PROVE CountedOn'
  BY <1>2, <1>8, CountedOnStays DEF serverVars, historyVars
<1>9. ASSUME NEW r \in Runner,
             \/ TakeTask(r)
             \/ \E t \in working[r] : \E ok \in Verdict : PushResult(r, t, ok)
             \/ \E t \in working[r] : PushLost(r, t)
             \/ RunnerCrash(r)
      PROVE  CountedOn'
  BY <1>8, <1>9 DEF TakeTask, PushResult, PushLost, RunnerCrash
<1>10. CASE UNCHANGED vars
  BY <1>8, <1>10 DEF vars
<1>11. QED
  BY <1>3, <1>4, <1>5, <1>6, <1>7, <1>9, <1>10 DEF Next

\* Without a fault a step before the deadline loses nothing of the open round:
\* the collecting loop keeps what bears the round's number.
LEMMA CollectKeepsItsOwn ==
  ASSUME IInv, Collect, NEW t \in Outstanding, t.round = CurrentRound
  PROVE  t \in Outstanding'
<1> USE DEF IInv
<1>1. results # <<>> /\ results' = Tail(results) /\ UNCHANGED <<tasks, working>>
  BY DEF Collect
<1>2. PICK first \in Result : first = Head(results)
  BY <1>1, HeadTailProperties DEF TypeOK
<1>3. /\ TasksOf(results) \in Seq(Task) /\ TasksOf(results) # <<>>
      /\ Head(TasksOf(results)) = first.task /\ TasksOf(results') = Tail(TasksOf(results))
  BY <1>1, <1>2, TasksOfFacts DEF TypeOK
<1>4. Answered = Answered' \cup {first.task}
  BY <1>3, TailFacts DEF Answered
<1>5. Queued' = Queued
  BY <1>1 DEF Queued
<1>6. CASE t \in Queued \/ t \in Answered' \/ \E r \in Runner : t \in working[r]
  BY <1>1, <1>5, <1>6, OutstandingSomewhere
<1>7. Counted \subseteq Counted' /\ (first.task.round = CurrentRound => first.task \in Counted')
  <2>1. CASE first.task.round = CurrentRound
    <3>1. collected' = Append(collected, first)
      BY <1>2, <2>1 DEF Collect, Belongs
    <3>2. TasksOf(collected') = Append(TasksOf(collected), first.task)
          /\ TasksOf(collected) \in Seq(Task) /\ first.task \in Task
      BY <3>1, TasksOfFacts DEF TypeOK, Result
    <3>3. QED
      BY <3>2, AppendFacts DEF Counted
  <2>2. CASE first.task.round # CurrentRound
    BY <1>2, <2>2 DEF Collect, Belongs, Counted
  <2>3. QED
    BY <2>1, <2>2
<1>8. QED
  BY <1>4, <1>6, <1>7, OutstandingSomewhere

LEMMA NothingLostStep == IInv /\ NothingLost /\ [Next]_vars => NothingLost'
<1> SUFFICES ASSUME IInv, NothingLost, [Next]_vars,
                    pc' = "rvb", faults' = 0, ~expired', NEW p \in asked'
             PROVE  TaskFor(p)' \in Outstanding'
  BY DEF NothingLost, TaskFor
<1> USE DEF IInv
<1>0. faults \in Nat /\ ~Fault /\ TaskFor(p).round = CurrentRound
  BY DEF Fault, TypeOK, TaskFor
<1>1. ASSUME UNCHANGED <<pc, CurrentRound, start, asked, faults, expired>>
      PROVE  TaskFor(p)' = TaskFor(p) /\ TaskFor(p) \in Outstanding
  BY <1>1 DEF NothingLost, TaskFor
<1>2. ASSUME UNCHANGED <<pc, CurrentRound, start, asked, faults, expired>>,
             UNCHANGED <<tasks, results, collected, working>>
      PROVE  TaskFor(p)' \in Outstanding'
  BY <1>1, <1>2 DEF Outstanding, Queued, Answered, Counted
<1>3. CASE StartRound
  BY <1>3 DEF StartRound
<1>4. ASSUME NEW q \in Pair, SkipPair(q) PROVE TaskFor(p)' \in Outstanding'
  BY <1>2, <1>4 DEF SkipPair, redisVars, historyVars, boundVars
<1>5. ASSUME NEW q \in Pair, Enqueue(q) PROVE TaskFor(p)' \in Outstanding'
  <2>1. Outstanding' = Outstanding \cup {TaskFor(q)}
    BY <1>5, EnqueueAddsItsTask
  <2>2. /\ UNCHANGED <<pc, CurrentRound, start, expired, faults>> /\ asked' = asked \cup {q}
        /\ pc = "rvb" /\ ~expired /\ faults = 0
    BY <1>5 DEF Enqueue, CountPair
  <2>3. TaskFor(p)' = TaskFor(p)
    BY <2>2 DEF TaskFor
  <2>4. p = q \/ TaskFor(p) \in Outstanding
    BY <2>2 DEF NothingLost
  <2>5. QED
    BY <2>1, <2>3, <2>4
<1>6. ASSUME NEW q \in Pair, EnqueueLost(q) PROVE FALSE
  BY <1>0, <1>6 DEF EnqueueLost, CountPair
<1>7. CASE Collect
  <2>1. UNCHANGED <<pc, CurrentRound, start, asked, faults, expired>>
    BY <1>7 DEF Collect, historyVars, boundVars
  <2>2. QED
    BY <1>0, <1>1, <1>7, <2>1, CollectKeepsItsOwn
<1>8. CASE LoopReturns \/ Discard \/ SaveRound \/ SaveRoundFails \/ Wake \/ Deadline \/ Restart
  BY <1>8 DEF LoopReturns, Discard, SaveRound, SaveRoundFails, NextRound, Wake, Deadline, Restart
<1>9. ASSUME NEW r \in Runner,
             TakeTask(r) \/ \E t \in working[r] : \E ok \in Verdict : PushResult(r, t, ok)
      PROVE  TaskFor(p)' \in Outstanding'
  <2>1. Outstanding' = Outstanding
    BY <1>9, TakeKeepsApart, PushKeepsApart
  <2>2. UNCHANGED <<pc, CurrentRound, start, asked, faults, expired>>
    BY <1>9 DEF TakeTask, PushResult, serverVars, historyVars, boundVars
  <2>3. QED
    BY <1>1, <2>1, <2>2
<1>10. ASSUME NEW r \in Runner, RunnerCrash(r) \/ \E t \in working[r] : PushLost(r, t) PROVE FALSE
  BY <1>0, <1>10 DEF RunnerCrash, PushLost
<1>11. CASE UNCHANGED vars
  BY <1>2, <1>11 DEF vars, serverVars, redisVars, historyVars, boundVars
<1>12. QED
  BY <1>3, <1>4, <1>5, <1>6, <1>7, <1>8, <1>9, <1>10, <1>11 DEF Next

LEMMA WholeInvariant == Spec => [](IInv /\ CountedOn /\ NothingLost)
<1>1. Init => CountedOn /\ NothingLost
  BY DEF Init, CountedOn, NothingLost
<1>2. QED
  BY <1>1, Invariant, CountedOnStep, NothingLostStep, PTL DEF Spec

LEMMA NothingLostVanishes == NothingLost => NothingVanishes
<1> SUFFICES ASSUME NothingLost, pc = "rvb", faults = 0, ~expired, NEW p \in asked
             PROVE  \/ \E i \in DOMAIN tasks : tasks[i] = TaskFor(p)
                    \/ \E r \in Runner : TaskFor(p) \in working[r]
                    \/ \E i \in DOMAIN results : results[i].task = TaskFor(p)
                    \/ \E i \in DOMAIN collected : collected[i].task = TaskFor(p)
  BY DEF NothingVanishes, TaskFor
<1>1. PICK t : t = TaskFor(p) /\ t \in Outstanding
  BY DEF NothingLost
<1>2. t \in Queued => \E i \in DOMAIN tasks : tasks[i] = t
  BY DEF Queued, Elems
<1>3. t \in Answered => \E i \in DOMAIN results : results[i].task = t
  BY DEF Answered, Elems, TasksOf
<1>4. t \in Counted => \E i \in DOMAIN collected : collected[i].task = t
  BY DEF Counted, Elems, TasksOf
<1>5. QED
  BY <1>1, <1>2, <1>3, <1>4, OutstandingSomewhere

\* With no fault and before the deadline, every pair the loop waits for is in the
\* queue, with a runner, in the results list or collected: whatever order tasks
\* and results move in, a round is lost to slowness alone (engine.go:437-518).
THEOREM NothingIsLost == Spec => []NothingVanishes
BY WholeInvariant, NothingLostVanishes, PTL

-----------------------------------------------------------------------------
(* What a save may do *)

\* As many different pairs as results, all of them asked for, and as many asked
\* for: then they are the same pairs.
LEMMA CollectedIsComplete ==
  ASSUME IInv, CountedOn, pc = "rvb", Enough, CurrentRound \notin reopened
  PROVE  /\ PairsOf(collected) = asked
         /\ \A i \in DOMAIN collected : collected[i].task.start = start
<1> USE DEF IInv
<1>1. \A i \in DOMAIN collected :
        /\ collected[i].task \in Outstanding
        /\ collected[i].task.round = CurrentRound
  <2> SUFFICES ASSUME NEW i \in DOMAIN collected PROVE collected[i].task \in Outstanding
    BY DEF CollectedHere
  <2>1. i \in DOMAIN TasksOf(collected) /\ TasksOf(collected)[i] = collected[i].task
    BY DEF TasksOf
  <2>2. QED
    BY <2>1, OutstandingSomewhere DEF Counted, Elems
<1>2. \A i \in DOMAIN collected : collected[i].task.start = start
  BY <1>1 DEF OwnStart
<1>3. PairsOf(collected) \subseteq asked
  BY <1>1 DEF PairsOf, CountedOn
<1>4. IsFiniteSet(asked) /\ Len(collected) = Cardinality(asked)
  BY PairsAreFinite, FS_Subset DEF TypeOK, Enough, CountedOn
<1>5. Cardinality(PairsOf(collected)) = Len(collected)
  <2>1. DOMAIN collected = 1 .. Len(collected) /\ Len(collected) \in Nat
    BY LenProperties DEF TypeOK
  <2>2. IsFiniteSet(DOMAIN collected) /\ Cardinality(DOMAIN collected) = Len(collected)
    <3>1. \A n \in Nat : IsFiniteSet(1 .. n) /\ Cardinality(1 .. n) = n
      BY FS_Interval
    <3>2. QED
      BY <2>1, <3>1
  <2> DEFINE f == [i \in DOMAIN collected |-> collected[i].task.pair]
  <2>3. OnePerPair(collected)
    BY CollectedOnePerPair
  <2>4. f \in Surjection(DOMAIN collected, PairsOf(collected))
    BY DEF Surjection, PairsOf
  <2>5. f \in Injection(DOMAIN collected, PairsOf(collected))
    <3>1. f \in [DOMAIN collected -> PairsOf(collected)]
      BY DEF PairsOf
    <3>2. \A i, j \in DOMAIN f : f[i] = f[j] => i = j
      BY <2>3 DEF OnePerPair
    <3> HIDE DEF f
    <3>3. QED
      BY <3>1, <3>2 DEF Injection, IsInjective
  <2> HIDE DEF f
  <2>6. QED
    BY <2>2, <2>4, <2>5, FS_Surjection
<1>6. PairsOf(collected) = asked
  BY <1>3, <1>4, <1>5, FS_Subset
<1>7. QED
  BY <1>2, <1>6

\* A round is saved with as many results as it asked for; opened once, with one of
\* every pair it asked for, each measured for this start: no save of a partial
\* round, no result of another (engine.go:473-518, 538-569).
THEOREM SavesAreComplete == Spec => SavedRoundIsComplete
<1> DEFINE Complete ==
      \A r \in DOMAIN rounds' \ DOMAIN rounds :
         /\ Len(rounds'[r]) = Cardinality(asked)
         /\ r \notin reopened =>
              /\ PairsOf(rounds'[r]) = asked
              /\ \A i \in DOMAIN rounds'[r] : rounds'[r][i].task.start = start
<1>1. ASSUME IInv, CountedOn, [Next]_vars PROVE Complete
  <2>1. CASE UNCHANGED rounds
    BY <2>1
  <2>2. CASE SaveRound
    <3> SUFFICES ASSUME NEW r \in DOMAIN rounds' \ DOMAIN rounds
                 PROVE  /\ Len(rounds'[r]) = Cardinality(asked)
                        /\ r \notin reopened =>
                             /\ PairsOf(rounds'[r]) = asked
                             /\ \A i \in DOMAIN rounds'[r] : rounds'[r][i].task.start = start
      OBVIOUS
    <3>1. r = CurrentRound /\ rounds'[r] = collected
      BY <2>2 DEF SaveRound
    <3>2. pc = "rvb" /\ Enough
      BY <2>2 DEF SaveRound
    <3>3. Len(collected) = Cardinality(asked)
      BY <1>1, <3>2 DEF CountedOn, Enough
    <3>4. r \notin reopened =>
             /\ PairsOf(collected) = asked
             /\ \A i \in DOMAIN collected : collected[i].task.start = start
      BY <1>1, <3>1, <3>2, CollectedIsComplete
    <3>5. QED
      BY <3>1, <3>3, <3>4
  <2>3. QED
    BY <1>1, <2>1, <2>2 DEF Next, StartRound, LoopReturns, SkipPair, Enqueue, EnqueueLost, CountPair,
       Collect, Discard, SaveRoundFails, Wake, Deadline, Restart, TakeTask, PushResult, PushLost,
       RunnerCrash, vars
<1> HIDE DEF Complete
<1>2. IInv /\ CountedOn /\ [Next]_vars => [Complete]_vars
  BY <1>1
<1>3. Spec => [][Complete]_vars
  BY WholeInvariant, <1>2, PTL DEF Spec
<1>4. QED
  BY <1>3 DEF SavedRoundIsComplete, Complete

-----------------------------------------------------------------------------
(* The loop implements the abstract log *)

Recorded(s) == IF OnePerPair(s) THEN VerdictsOf(s) ELSE Garbled

\* What a save makes of the results is a record that the log allows: verdicts of
\* some pairs, or garbled under a number that was opened again.
LEMMA SavedIsRecordable ==
  ASSUME IInv, pc = "rvb", collected # <<>>
  PROVE  \/ Recorded(collected) \in Log!Verdicts
         \/ Recorded(collected) = Garbled /\ CurrentRound \in reopened
<1> USE DEF IInv
<1>1. CASE OnePerPair(collected)
  <2>1. PairsOf(collected) \subseteq Pair
    <3>1. ASSUME NEW i \in DOMAIN collected PROVE collected[i].task.pair \in Pair
      <4>1. collected[i] \in Result
        BY LenProperties, ElementOfSeq DEF TypeOK
      <4>2. QED
        BY <4>1 DEF Result, Task
    <3>2. QED
      BY <3>1 DEF PairsOf
  <2>2. PairsOf(collected) # {}
    <3>1. 1 \in DOMAIN collected
      BY EmptySeq, LenProperties DEF TypeOK
    <3>2. QED
      BY <3>1 DEF PairsOf
  <2>3. VerdictsOf(collected) \in [PairsOf(collected) -> BOOLEAN]
    BY DEF VerdictsOf
  <2>4. PICK S : S = PairsOf(collected) /\ VerdictsOf(collected) \in [S -> BOOLEAN]
    BY <2>3
  <2>5. VerdictsOf(collected) \in Log!Verdicts
    <3>1. S \in (SUBSET Pair) \ {{}}
      BY <2>1, <2>2, <2>4
    <3>2. [S -> BOOLEAN] \in {[T -> BOOLEAN] : T \in (SUBSET Pair) \ {{}}}
      BY <3>1
    <3>3. QED
      BY <2>4, <3>2 DEF Log!Verdicts
  <2>6. QED
    BY <1>1, <2>5 DEF Recorded
<1>2. CASE ~OnePerPair(collected)
  BY <1>2, CollectedOnePerPair DEF Recorded
<1>3. QED
  BY <1>1, <1>2

\* The end of an iteration leaves a number out or records it.
LEMMA ClosingIsLogged ==
  ASSUME IInv, pc = "rvb", NextRound,
         \/ rounds' = rounds
         \/ /\ collected # <<>>
            /\ rounds' = [r \in DOMAIN rounds \cup {CurrentRound} |->
                            IF r = CurrentRound THEN collected ELSE rounds[r]]
  PROVE  Log!Next
<1> USE DEF IInv
<1>1. CurrentRound \in opened /\ CurrentRound' = CurrentRound + 1 /\ UNCHANGED <<opened, reopened>>
  BY DEF OpenIsOpened, NextRound
<1>2. CASE rounds' = rounds
  BY <1>1, <1>2 DEF Log!Next, Log!LeaveOut
<1>3. CASE /\ collected # <<>>
           /\ rounds' = [r \in DOMAIN rounds \cup {CurrentRound} |->
                           IF r = CurrentRound THEN collected ELSE rounds[r]]
  <2> DEFINE logOf == [r \in DOMAIN rounds |-> Recorded(rounds[r])]
  <2>1. CurrentRound \notin DOMAIN rounds
    BY DEF RoundNumberIsNew, TypeOK
  <2>2. PICK v : v = Recorded(collected)
    OBVIOUS
  <2>3. v \in Log!Verdicts \/ (v = Garbled /\ CurrentRound \in reopened)
    BY <1>3, <2>2, SavedIsRecordable
  <2>4. [r \in DOMAIN rounds' |-> Recorded(rounds'[r])] =
          [r \in DOMAIN logOf \cup {CurrentRound} |-> IF r = CurrentRound THEN v ELSE logOf[r]]
    BY <1>3, <2>1, <2>2
  <2>5. Log!Record(v)
    BY <1>1, <2>1, <2>3, <2>4 DEF Log!Record, Recorded
  <2>6. QED
    BY <2>3, <2>5 DEF Log!Next
<1>4. QED
  BY <1>2, <1>3

LEMMA LogStep == IInv /\ [Next]_vars => [Log!Next]_Log!vars
<1> SUFFICES ASSUME IInv, [Next]_vars PROVE Log!Next \/ UNCHANGED Log!vars
  OBVIOUS
<1>1. ASSUME UNCHANGED <<rounds, CurrentRound, opened, reopened>> PROVE UNCHANGED Log!vars
  BY <1>1 DEF Log!vars
<1>2. CASE StartRound
  BY <1>2 DEF StartRound, Log!Next, Log!Open
<1>3. CASE Discard
  BY <1>3, ClosingIsLogged DEF Discard, Collecting
<1>4. CASE SaveRound
  BY <1>4, ClosingIsLogged DEF SaveRound
<1>5. CASE SaveRoundFails
  BY <1>5, ClosingIsLogged DEF SaveRoundFails
<1>6. CASE Restart
  <2>1. PICK last \in DOMAIN rounds \cup {0} : IsLastRound(last) /\ CurrentRound' = NumberAfter(last)
    BY <1>6 DEF Restart
  <2>2. /\ UNCHANGED <<rounds, opened, reopened>>
        /\ CurrentRound' = last + 1 /\ last \in Nat
        /\ \A r \in DOMAIN rounds : r \in Nat /\ r <= last
    BY <1>6, <2>1 DEF Restart, NumberAfter, IsLastRound, IInv, TypeOK
  <2>3. last < CurrentRound /\ CurrentRound \in Nat
    BY <2>1 DEF IInv, TypeOK, RoundNumberIsNew
  <2>4. CurrentRound' \in 1 .. CurrentRound /\ CurrentRound' - 1 = last
    BY <2>2, <2>3
  <2>5. \A r \in DOMAIN rounds : r < CurrentRound'
    BY <2>2
  <2>6. Log!Rewind
    BY <2>1, <2>2, <2>4, <2>5 DEF Log!Rewind
  <2>7. QED
    BY <2>6 DEF Log!Next
<1>7. CASE LoopReturns \/ Collect \/ Wake \/ Deadline
  BY <1>1, <1>7 DEF LoopReturns, Collect, Wake, Deadline, historyVars
<1>8. ASSUME NEW p \in Pair, SkipPair(p) \/ Enqueue(p) \/ EnqueueLost(p) PROVE UNCHANGED Log!vars
  BY <1>1, <1>8 DEF SkipPair, Enqueue, EnqueueLost, CountPair, historyVars
<1>9. ASSUME NEW r \in Runner,
             \/ TakeTask(r)
             \/ \E t \in working[r] : \E ok \in Verdict : PushResult(r, t, ok)
             \/ \E t \in working[r] : PushLost(r, t)
             \/ RunnerCrash(r)
      PROVE  UNCHANGED Log!vars
  BY <1>1, <1>9 DEF TakeTask, PushResult, PushLost, RunnerCrash, serverVars, historyVars
<1>10. CASE UNCHANGED vars
  BY <1>1, <1>10 DEF vars, serverVars, historyVars
<1>11. QED
  BY <1>2, <1>3, <1>4, <1>5, <1>6, <1>7, <1>8, <1>9, <1>10 DEF Next

\* The loop, its runners and their crashes implement RoundLog: rounds are recorded
\* once, upwards and unchanged ever after, one verdict per pair unless their
\* number was opened again (engine.go:79-83, 154-170, 538-572; rounds.go:27-45).
THEOREM Implements == Spec => ImplementsRoundLog
<1>1. Init => Log!Init
  BY DEF Init, Log!Init
<1>2. QED
  BY Invariant, LogStep, <1>1, PTL DEF Spec, ImplementsRoundLog, Log!Spec

=============================================================================
