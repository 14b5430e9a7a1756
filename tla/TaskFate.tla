------------------------------ MODULE TaskFate ------------------------------
(***************************************************************************)
(* What the engine may rely on once a task is in the list: a runner takes  *)
(* it at most once, and answers it once or never.  These are TakeTask,     *)
(* PushResult and what a fault does to them in RoundEngine; RunnerTask is  *)
(* shown to implement it.                                                  *)
(***************************************************************************)
CONSTANT Delivery   \* the tasks put into the list

VARIABLES
  queued,   \* not taken yet
  inHand,   \* taken by a runner, not answered
  answered  \* the verdict of each task that has one

vars == <<queued, inHand, answered>>

Init == queued = Delivery /\ inHand = {} /\ answered = [t \in {} |-> FALSE]

Take(t) ==
  /\ t \in queued
  /\ queued' = queued \ {t} /\ inHand' = inHand \cup {t}
  /\ UNCHANGED answered

Answer(t, ok) ==
  /\ t \in inHand
  /\ inHand' = inHand \ {t}
  /\ answered' = [u \in DOMAIN answered \cup {t} |-> IF u = t THEN ok ELSE answered[u]]
  /\ UNCHANGED queued

\* Nobody hears of it: the runner gave up, or died with all it had in hand.
Lose(lost) ==
  /\ lost # {} /\ lost \subseteq inHand
  /\ inHand' = inHand \ lost
  /\ UNCHANGED <<queued, answered>>

Next ==
  \/ \E t \in Delivery : Take(t) \/ \E ok \in BOOLEAN : Answer(t, ok)
  \/ \E lost \in SUBSET inHand : Lose(lost)

Spec == Init /\ [][Next]_vars

=============================================================================
