------------------------ MODULE EngineControlProofs ------------------------
(***************************************************************************)
(* Proofs about EngineControl, for any number of starts, rounds, resets    *)
(* and requests.                                                           *)
(*                                                                         *)
(* Both properties speak of the wait group that the field holds now, while *)
(* loops block on, and are released from, whichever group it held when     *)
(* they looked.  The invariant therefore says which groups exist (Groups,  *)
(* NotStarted), that a blocked loop's group is held (BlockedIsHeld), and   *)
(* that under a hold whoever is past the wait was so when the hold was     *)
(* taken (HoldIsOn).  For the flag, a request that is alone is followed    *)
(* through its two writes, and Start through its four (Agrees).            *)
(***************************************************************************)
EXTENDS EngineControl, SequenceTheorems, TLAPS

Groups ==
  EnginePauseWg = IF main \in {"loading", "arming", "grouping"} THEN gen - 1 ELSE gen

NotStarted == \A g \in Gen : g > EnginePauseWg => loop[g] = "none" /\ held[g] = 0

BlockedIsHeld ==
  \A g \in Gen : loop[g] = "blocked" =>
                  waitsOn[g] \in 1 .. EnginePauseWg /\ held[waitsOn[g]] # 0

RequestsHaveGroup == \A r \in Request : request[r] # "idle" => EnginePauseWg # 0

HoldIsOn ==
  EnginePauseWg # 0 /\ held[EnginePauseWg] > 0 => PastWait(loop) \subseteq passed

PauseInv == Groups /\ NotStarted /\ BlockedIsHeld /\ RequestsHaveGroup /\ HoldIsOn

Alone ==
  /\ \A q, r \in Request : request[q] # "idle" /\ request[r] # "idle" => q = r
  /\ Arming => \A r \in Request : request[r] = "idle"

Stands(paused, count) == IsEnginePaused = paused /\ held[EnginePauseWg] = count

RequestAgrees ==
  \A r \in Request : /\ request[r] = "add" => Stands(FALSE, 0)
                     /\ request[r] = "raise" => Stands(FALSE, 1)
                     /\ request[r] = "done" => Stands(TRUE, 1)
                     /\ request[r] = "lower" => Stands(TRUE, 0)

StartAgrees ==
  /\ main = "grouping" => IsEnginePaused = FALSE
  /\ main = "raising" => Stands(FALSE, 0)
  /\ main = "holding" => Stands(TRUE, 0)

Agrees ==
  ~overlapped => /\ Alone /\ StartAgrees
                 /\ EnginePauseWg # 0 /\ ~Arming => RequestAgrees

FlagInv == Agrees /\ FlagTellsHold

IInv == TypeOK /\ PauseInv /\ FlagInv

Unspawned ==
  \A g \in Gen :
    g > gen \/ (g = gen /\ main \notin {"subscribing", "waiting"}) => loop[g] = "none"

\* A saved round is below the number the loops share, or some loop has yet to
\* count it; an uncrossed reset meets no round until it has set its number.
BelowOrCounting ==
  \A r \in rounds : r <= CurrentRound /\ (r = CurrentRound => \E g \in Gen : loop[g] = "counting")

ResetIsClean == reset # "idle" => rounds = {} /\ \A g \in Gen : ~InRound(g)

NumberInv == ~crossed => BelowOrCounting /\ ResetIsClean

-----------------------------------------------------------------------------

\* The engine starts with no group, no loop and no request.
LEMMA InitInv == Init => IInv
<1> SUFFICES ASSUME Init PROVE IInv
  OBVIOUS
<1> USE ControlBoundsAssumption DEF Init, Gen
<1>1. inbox \in [Gen -> Seq(Messages)]
  <2>1. <<>> \in Seq(Messages)
    OBVIOUS
  <2>2. QED
    BY <2>1
<1>2. TypeOK
  <2>1. /\ held \in [Gen -> Int] /\ waitsOn \in [Gen -> 0 .. MaxStarts]
        /\ closed \in [Gen -> BOOLEAN] /\ told \in [Gen -> BOOLEAN]
        /\ gen \in Gen
    OBVIOUS
  <2>2. loop \in [Gen -> LoopStates] /\ request \in [Request -> RequestStates]
    BY DEF LoopStates, RequestStates
  <2>3. QED
    BY <1>1, <2>1, <2>2 DEF TypeOK
<1>3. PauseInv
  BY DEF PauseInv, Groups, NotStarted, BlockedIsHeld, RequestsHaveGroup, HoldIsOn
<1>4. FlagInv
  BY DEF FlagInv, Agrees, Alone, StartAgrees, RequestAgrees, Stands, Arming, FlagTellsHold
<1>5. QED
  BY <1>2, <1>3, <1>4 DEF IInv

\* Publishing keeps the inboxes sequences of messages.
LEMMA PublishType ==
  ASSUME NEW message \in Messages, inbox \in [Gen -> Seq(Messages)], Publish(message)
  PROVE  inbox' \in [Gen -> Seq(Messages)]
<1>1. \A g \in Gen : Append(inbox[g], message) \in Seq(Messages)
  OBVIOUS
<1>2. QED
  BY <1>1 DEF Publish

\* Moving the counter of a group keeps counters integers and loops well typed.
LEMMA MoveHoldType ==
  ASSUME NEW by \in Int, EnginePauseWg \in Gen, held \in [Gen -> Int],
         loop \in [Gen -> LoopStates], MoveHold(by)
  PROVE  held' \in [Gen -> Int] /\ loop' \in [Gen -> LoopStates]
<1>1. held' \in [Gen -> Int]
  BY DEF MoveHold
<1>2. loop' \in [Gen -> LoopStates]
  BY DEF MoveHold, LoopStates
<1>3. QED
  BY <1>1, <1>2

\* Every step keeps the types.
LEMMA TypeStep == TypeOK /\ PauseInv /\ [Next]_vars => TypeOK'
<1> SUFFICES ASSUME TypeOK, PauseInv, [Next]_vars PROVE TypeOK'
  OBVIOUS
<1> USE ControlBoundsAssumption, StartPausedAssumption
    DEF Gen, fieldVars, startVars, loopVars, webVars, countVars, historyVars
<1>1. ASSUME Load PROVE TypeOK'
  BY <1>1 DEF Load, TypeOK
<1>2. ASSUME LowerAtStart PROVE TypeOK'
  BY <1>2 DEF LowerAtStart, TypeOK
<1>3. ASSUME MakeGroup PROVE TypeOK'
  BY <1>3 DEF MakeGroup, NewGroup, TypeOK
<1>4. ASSUME RaiseAtStart PROVE TypeOK'
  BY <1>4 DEF RaiseAtStart, TypeOK
<1>5. ASSUME HoldAtStart PROVE TypeOK'
  <2>1. EnginePauseWg \in Gen
    BY <1>5 DEF HoldAtStart, TypeOK, PauseInv, Groups
  <2>2. held \in [Gen -> Int] /\ loop \in [Gen -> LoopStates]
    BY DEF TypeOK
  <2>3. MoveHold(1)
    BY <1>5 DEF HoldAtStart, TakeHold
  <2>4. held' \in [Gen -> Int] /\ loop' \in [Gen -> LoopStates]
    BY <2>1, <2>2, <2>3, MoveHoldType
  <2>5. passed' \subseteq Gen
    BY <1>5 DEF HoldAtStart, TypeOK, TakeHold, PastWait
  <2>6. request' \in [Request -> RequestStates]
    BY <1>5 DEF HoldAtStart, TypeOK, RequestStates
  <2>7. QED
    BY <2>4, <2>5, <2>6, <1>5 DEF HoldAtStart, TypeOK
<1>6. ASSUME Spawn PROVE TypeOK'
  <2>1. loop' \in [Gen -> LoopStates]
    BY <1>6 DEF Spawn, TypeOK, LoopStates
  <2>2. QED
    BY <2>1, <1>6 DEF Spawn, TypeOK
<1>7. ASSUME Subscribe PROVE TypeOK'
  BY <1>7 DEF Subscribe, TypeOK
<1>8. ASSUME Return PROVE TypeOK'
  <2>1. gen' \in Gen /\ CurrentRound # 0
    BY <1>8 DEF Return, TypeOK
  <2>2. QED
    BY <2>1, <1>8 DEF Return, TypeOK
<1>9. ASSUME ResetTables PROVE TypeOK'
  <2>1. crossed' \in BOOLEAN
    BY <1>9 DEF ResetTables, TypeOK
  <2>2. rounds' \subseteq Nat \ {0} /\ resets' \in Nat
    BY <1>9 DEF ResetTables, Truncated, TypeOK
  <2>3. reset' = "truncated"
        /\ UNCHANGED <<IsEnginePaused, EnginePauseWg, CurrentRound, held, startVars,
                       loopVars, request, panic, opens, requests, overlapped, missed,
                       dropped, passed>>
    BY <1>9 DEF ResetTables
  <2>4. QED
    BY <2>1, <2>2, <2>3 DEF TypeOK
<1>10. ASSUME PublishReset PROVE TypeOK'
  <2>1. inbox' \in [Gen -> Seq(Messages)]
    BY <1>10, PublishType DEF PublishReset, TypeOK, Messages
  <2>2. told' \in [Gen -> BOOLEAN] /\ heard' \in BOOLEAN /\ missed' \in BOOLEAN
    BY <1>10 DEF PublishReset, TypeOK
  <2>3. QED
    BY <2>1, <2>2, <1>10 DEF PublishReset, TypeOK
<1>11. ASSUME ResetNumber PROVE TypeOK'
  BY <1>11 DEF ResetNumber, FirstNumber, TypeOK
<1>12. ASSUME NEW g \in Gen, EnterWait(g) PROVE TypeOK'
  <2>1. loop' \in [Gen -> LoopStates]
    BY <1>12 DEF EnterWait, TypeOK, LoopStates
  <2>2. waitsOn' \in [Gen -> 0 .. MaxStarts] /\ passed' \subseteq Gen
    BY <1>12 DEF EnterWait, GroupNow, TypeOK
  <2>3. UNCHANGED <<fieldVars, startVars, inbox, closed, told, webVars, panic, countVars,
                  overlapped, crossed, missed, dropped>>
    BY <1>12 DEF EnterWait
  <2>4. QED
    BY <2>1, <2>2, <2>3, SMTT(30) DEF TypeOK
<1>13. ASSUME NEW g \in Gen, LeaveWait(g) PROVE TypeOK'
  <2>1. loop' \in [Gen -> LoopStates]
    <3>1. loop' = [loop EXCEPT ![g] = "choosing"] \/ loop' = loop
      BY <1>13 DEF LeaveWait
    <3>2. QED
      BY <3>1 DEF TypeOK, LoopStates
  <2>2. waitsOn' \in [Gen -> 0 .. MaxStarts]
    <3>1. waitsOn \in [Gen -> 0 .. MaxStarts] /\ 0 \in 0 .. MaxStarts
      BY DEF TypeOK
    <3>2. waitsOn' = [waitsOn EXCEPT ![g] = 0] \/ waitsOn' = waitsOn
      BY <1>13 DEF LeaveWait
    <3>3. QED
      BY <3>1, <3>2
  <2>3. panic' \in {"none", "closed", "reused"}
    BY <1>13 DEF LeaveWait, TypeOK
  <2>4. UNCHANGED <<fieldVars, startVars, inbox, closed, told, webVars, countVars, historyVars>>
    BY <1>13 DEF LeaveWait
  <2>5. QED
    BY <2>1, <2>2, <2>3, <2>4 DEF TypeOK
<1>14. ASSUME NEW g \in Gen, ReadMessage(g) PROVE TypeOK'
  <2>1. Tail(inbox[g]) \in Seq(Messages) /\ <<>> \in Seq(Messages)
    BY <1>14 DEF ReadMessage, TypeOK
  <2>2. inbox' \in [Gen -> Seq(Messages)]
    BY <2>1, <1>14 DEF ReadMessage, TypeOK
  <2>3. loop' \in [Gen -> LoopStates]
    BY <1>14 DEF ReadMessage, TypeOK, LoopStates
  <2>4. UNCHANGED <<fieldVars, startVars, waitsOn, closed, told, webVars, panic, countVars,
                  historyVars>>
    BY <1>14 DEF ReadMessage
  <2>5. QED
    BY <2>2, <2>3, <2>4 DEF TypeOK
<1>15. ASSUME NEW g \in Gen, ReadClosed(g) PROVE TypeOK'
  <2>1. panic' = "closed" /\ UNCHANGED <<fieldVars, startVars, loopVars, webVars,
                                       countVars, historyVars>>
    BY <1>15 DEF ReadClosed
  <2>2. QED
    BY <2>1 DEF TypeOK
<1>16. ASSUME NEW g \in Gen, OpenRound(g) PROVE TypeOK'
  <2>1. loop' \in [Gen -> LoopStates]
    BY <1>16 DEF OpenRound, TypeOK, LoopStates
  <2>2. opens' \in Nat /\ crossed' \in BOOLEAN
    BY <1>16 DEF OpenRound, TypeOK
  <2>3. UNCHANGED <<fieldVars, startVars, waitsOn, inbox, closed, told, webVars, panic,
                  resets, requests, overlapped, missed, dropped, passed>>
    BY <1>16 DEF OpenRound
  <2>4. QED
    BY <2>1, <2>2, <2>3 DEF TypeOK
<1>17. ASSUME NEW g \in Gen, QuitRound(g) PROVE TypeOK'
  <2>1. loop' \in [Gen -> LoopStates]
    BY <1>17 DEF QuitRound, TypeOK, LoopStates
  <2>2. inbox' \in [Gen -> Seq(Messages)] /\ told' \in [Gen -> BOOLEAN]
    <3>1. <<>> \in Seq(Messages)
      OBVIOUS
    <3>2. QED
      BY <3>1, <1>17 DEF QuitRound, TypeOK
  <2>3. QED
    BY <2>1, <2>2, <1>17 DEF QuitRound, TypeOK
<1>18. ASSUME NEW g \in Gen, EndRound(g) PROVE TypeOK'
  <2>1. CurrentRound # 0
    BY <1>18 DEF EndRound, TypeOK, PauseInv, Groups, NotStarted
  <2>2. rounds' \subseteq Nat \ {0}
    BY <2>1, <1>18 DEF EndRound, TypeOK
  <2>3. loop' \in [Gen -> LoopStates] /\ told' \in [Gen -> BOOLEAN]
    BY <1>18 DEF EndRound, TypeOK, LoopStates
  <2>4. QED
    BY <2>2, <2>3, <1>18 DEF EndRound, TypeOK
<1>19. ASSUME NEW g \in Gen, CountRound(g) PROVE TypeOK'
  <2>1. inbox' \in [Gen -> Seq(Messages)]
    BY <1>19, PublishType DEF CountRound, TypeOK, Messages
  <2>2. loop' \in [Gen -> LoopStates]
    BY <1>19 DEF CountRound, TypeOK, LoopStates
  <2>3. CurrentRound' \in Nat /\ CurrentRound' # 0
    BY <1>19 DEF CountRound, TypeOK
  <2>4. QED
    BY <2>1, <2>2, <2>3, <1>19 DEF CountRound, TypeOK
<1>20. ASSUME NEW g \in Gen, WakeUp(g) PROVE TypeOK'
  <2>1. loop' \in [Gen -> LoopStates]
    BY <1>20 DEF WakeUp, TypeOK, LoopStates
  <2>2. QED
    BY <2>1, <1>20 DEF WakeUp, TypeOK
<1>21. ASSUME NEW g \in Gen, CloseChannel(g) PROVE TypeOK'
  <2>1. inbox' \in [Gen -> Seq(Messages)]
    BY <1>21 DEF CloseChannel, TypeOK
  <2>2. dropped' \in BOOLEAN /\ closed' \in [Gen -> BOOLEAN]
    BY <1>21 DEF CloseChannel, TypeOK
  <2>3. QED
    BY <2>1, <2>2, <1>21 DEF CloseChannel, TypeOK
<1>22. ASSUME NEW r \in Request, BeginRequest(r) PROVE TypeOK'
  <2>1. request' \in [Request -> RequestStates]
    BY <1>22 DEF BeginRequest, TypeOK, RequestStates
  <2>2. overlapped' \in BOOLEAN /\ requests' \in Nat
    BY <1>22 DEF BeginRequest, TypeOK
  <2>3. QED
    BY <2>1, <2>2, <1>22 DEF BeginRequest, TypeOK
<1>23. ASSUME NEW r \in Request, AddHold(r) PROVE TypeOK'
  <2>1. EnginePauseWg \in Gen
    BY <1>23 DEF AddHold, TypeOK, PauseInv, RequestsHaveGroup
  <2>2. held \in [Gen -> Int] /\ loop \in [Gen -> LoopStates]
    BY DEF TypeOK
  <2>3. MoveHold(1)
    BY <1>23 DEF AddHold, TakeHold
  <2>4. held' \in [Gen -> Int] /\ loop' \in [Gen -> LoopStates]
    BY <2>1, <2>2, <2>3, MoveHoldType
  <2>5. passed' \subseteq Gen
    BY <1>23 DEF AddHold, TypeOK, TakeHold, PastWait
  <2>6. request' \in [Request -> RequestStates]
    <3>1. request \in [Request -> RequestStates] /\ request' = [request EXCEPT ![r] = "raise"]
      BY <1>23 DEF AddHold, TypeOK
    <3>2. QED
      BY ONLY <3>1 DEF RequestStates
  <2>7. QED
    BY <2>4, <2>5, <2>6, <1>23 DEF AddHold, TypeOK
<1>24. ASSUME NEW r \in Request, RaiseFlag(r) PROVE TypeOK'
  <2>1. request' \in [Request -> RequestStates]
    BY <1>24 DEF RaiseFlag, TypeOK, RequestStates
  <2>2. QED
    BY <2>1, <1>24 DEF RaiseFlag, TypeOK
<1>25. ASSUME NEW r \in Request, ReleaseHold(r) PROVE TypeOK'
  <2>1. EnginePauseWg \in Gen
    BY <1>25 DEF ReleaseHold, TypeOK, PauseInv, RequestsHaveGroup
  <2>2. held \in [Gen -> Int] /\ loop \in [Gen -> LoopStates]
    BY DEF TypeOK
  <2>3. MoveHold(-1)
    BY <1>25 DEF ReleaseHold, TakeHold
  <2>4. held' \in [Gen -> Int] /\ loop' \in [Gen -> LoopStates]
    BY <2>1, <2>2, <2>3, MoveHoldType
  <2>5. passed' \subseteq Gen
    BY <1>25 DEF ReleaseHold, TypeOK
  <2>6. request' \in [Request -> RequestStates]
    BY <1>25 DEF ReleaseHold, TypeOK, RequestStates
  <2>7. QED
    BY <2>4, <2>5, <2>6, <1>25, SMTT(30) DEF ReleaseHold, TypeOK
<1>26. ASSUME NEW r \in Request, LowerFlag(r) PROVE TypeOK'
  <2>1. request' \in [Request -> RequestStates]
    BY <1>26 DEF LowerFlag, TypeOK, RequestStates
  <2>2. UNCHANGED <<EnginePauseWg, CurrentRound, rounds, held, startVars, loopVars, reset,
                  panic, countVars, historyVars>>
    BY <1>26 DEF LowerFlag
  <2>3. IsEnginePaused' \in BOOLEAN
    BY <1>26 DEF LowerFlag
  <2>4. QED
    BY <2>1, <2>2, <2>3 DEF TypeOK
<1>27. ASSUME UNCHANGED vars PROVE TypeOK'
  BY <1>27 DEF vars, TypeOK
<1>28. QED
  BY <1>1, <1>2, <1>3, <1>4, <1>5, <1>6, <1>7, <1>8, <1>9, <1>10, <1>11, <1>12, <1>13,
     <1>14, <1>15, <1>16, <1>17, <1>18, <1>19, <1>20, <1>21, <1>22, <1>23, <1>24,
     <1>25, <1>26, <1>27
  DEF Next, StartStep, LoopStep, ResetStep, RequestStep

\* A loop that moves to a place outside the wait disturbs no group and no hold.
LEMMA LoopMovesOn ==
  ASSUME TypeOK, PauseInv, NEW g \in Gen, loop[g] # "none",
         NEW place \in {"top", "round", "counting", "sleeping", "gone"},
         loop' = [loop EXCEPT ![g] = place],
         UNCHANGED <<EnginePauseWg, held, main, gen, waitsOn, request, passed>>
  PROVE  PauseInv'
<1>1. Groups' /\ RequestsHaveGroup'
  BY DEF PauseInv, Groups, RequestsHaveGroup
<1>2. NotStarted' /\ BlockedIsHeld'
  BY DEF TypeOK, PauseInv, NotStarted, BlockedIsHeld
<1>3. HoldIsOn'
  BY DEF TypeOK, PauseInv, HoldIsOn, PastWait
<1>4. QED
  BY <1>1, <1>2, <1>3 DEF PauseInv

\* What no group, loop and request takes part in disturbs nothing.
LEMMA PauseFrame ==
  ASSUME PauseInv, Groups', UNCHANGED <<EnginePauseWg, held, loop, waitsOn, passed>>,
         RequestsHaveGroup'
  PROVE  PauseInv'
BY DEF PauseInv, NotStarted, BlockedIsHeld, RequestsHaveGroup, HoldIsOn, PastWait

\* The flag keeps agreeing with the counter while neither they nor a request
\* move and Start is not between its writes.
LEMMA FlagFrame ==
  ASSUME FlagInv, UNCHANGED <<IsEnginePaused, EnginePauseWg, held, request, overlapped>>,
         main' = main \/ (~Arming /\ ~Arming')
  PROVE  FlagInv'
BY DEF FlagInv, Agrees, Alone, StartAgrees, RequestAgrees, Stands, Arming, FlagTellsHold


\* Every step keeps the groups and the hold.
LEMMA PauseStep == TypeOK /\ PauseInv /\ [Next]_vars => PauseInv'
<1> SUFFICES ASSUME TypeOK, PauseInv, [Next]_vars PROVE PauseInv'
  OBVIOUS
<1> USE ControlBoundsAssumption, StartPausedAssumption
    DEF Gen, fieldVars, startVars, loopVars, webVars, countVars, historyVars
<1>1. ASSUME Load PROVE PauseInv'
  BY <1>1, PauseFrame DEF Load, TypeOK, PauseInv, Groups, RequestsHaveGroup
<1>2. ASSUME LowerAtStart PROVE PauseInv'
  BY <1>2, PauseFrame DEF LowerAtStart, TypeOK, PauseInv, Groups, RequestsHaveGroup
<1>3. ASSUME MakeGroup PROVE PauseInv'
  <2>1. /\ EnginePauseWg' = gen /\ EnginePauseWg = gen - 1 /\ held[gen] = 0
        /\ main' \in {"raising", "spawning"}
        /\ UNCHANGED <<gen, held, loop, waitsOn, request, passed>>
    BY <1>3 DEF MakeGroup, NewGroup, TypeOK, PauseInv, Groups, NotStarted
  <2>2. gen \in Gen
    BY DEF TypeOK
  <2>3. Groups' /\ NotStarted'
    BY <2>1, <2>2 DEF PauseInv, Groups, NotStarted
  <2>4. BlockedIsHeld'
    BY <2>1, <2>2 DEF PauseInv, BlockedIsHeld
  <2>5. RequestsHaveGroup' /\ HoldIsOn'
    BY <2>1, <2>2 DEF RequestsHaveGroup, HoldIsOn
  <2>6. QED
    BY <2>3, <2>4, <2>5 DEF PauseInv
<1>4. ASSUME RaiseAtStart PROVE PauseInv'
  <2>1. /\ main = "raising" /\ main' = "holding"
        /\ UNCHANGED <<EnginePauseWg, held, gen, loop, waitsOn, passed, request>>
    BY <1>4 DEF RaiseAtStart, loopVars, webVars
  <2>2. Groups'
    BY <2>1 DEF PauseInv, Groups
  <2>3. RequestsHaveGroup'
    BY <2>1 DEF PauseInv, RequestsHaveGroup
  <2>4. QED
    BY <2>1, <2>2, <2>3, PauseFrame
<1>5. ASSUME HoldAtStart PROVE PauseInv'
  BY <1>5 DEF HoldAtStart, TakeHold, MoveHold,
      TypeOK, PauseInv, Groups, NotStarted, BlockedIsHeld, RequestsHaveGroup, HoldIsOn,
      PastWait
<1>6. ASSUME Spawn PROVE PauseInv'
  BY <1>6 DEF Spawn,
      TypeOK, PauseInv, Groups, NotStarted, BlockedIsHeld, RequestsHaveGroup, HoldIsOn,
      PastWait
<1>7. ASSUME Subscribe PROVE PauseInv'
  BY <1>7, PauseFrame DEF Subscribe, TypeOK, PauseInv, Groups, RequestsHaveGroup
<1>8. ASSUME Return PROVE PauseInv'
  BY <1>8, PauseFrame DEF Return, TypeOK, PauseInv, Groups, RequestsHaveGroup
<1>9. ASSUME ResetTables PROVE PauseInv'
  BY <1>9, PauseFrame DEF ResetTables, TypeOK, PauseInv, Groups, RequestsHaveGroup
<1>10. ASSUME PublishReset PROVE PauseInv'
  BY <1>10, PauseFrame DEF PublishReset, TypeOK, PauseInv, Groups, RequestsHaveGroup
<1>11. ASSUME ResetNumber PROVE PauseInv'
  BY <1>11, PauseFrame DEF ResetNumber, TypeOK, PauseInv, Groups, RequestsHaveGroup
<1>12. ASSUME NEW g \in Gen, EnterWait(g) PROVE PauseInv'
  <2>1. Groups' /\ RequestsHaveGroup'
    BY <1>12 DEF EnterWait, PauseInv, Groups, RequestsHaveGroup
  <2>2. EnginePauseWg \in Gen
    BY <1>12 DEF EnterWait, TypeOK, PauseInv, NotStarted
  <2>3. NotStarted'
    BY <1>12 DEF EnterWait, TypeOK, PauseInv, NotStarted
  <2>4. CASE held[EnginePauseWg] = 0
    <3>1. loop' = [loop EXCEPT ![g] = "choosing"] /\ waitsOn' = waitsOn /\ held' = held
          /\ EnginePauseWg' = EnginePauseWg
      BY <2>4, <1>12 DEF EnterWait, GroupNow
    <3>2. BlockedIsHeld'
      BY <3>1 DEF TypeOK, PauseInv, BlockedIsHeld
    <3>3. HoldIsOn'
      BY <2>4, <3>1 DEF HoldIsOn
    <3>4. QED
      BY <2>1, <2>3, <3>2, <3>3 DEF PauseInv
  <2>5. CASE held[EnginePauseWg] # 0
    <3>1. /\ loop' = [loop EXCEPT ![g] = "blocked"]
          /\ waitsOn' = [waitsOn EXCEPT ![g] = EnginePauseWg]
          /\ held' = held /\ EnginePauseWg' = EnginePauseWg /\ passed' = passed \ {g}
      BY <2>5, <1>12 DEF EnterWait, GroupNow
    <3>2. BlockedIsHeld'
      BY <2>2, <2>5, <3>1 DEF TypeOK, PauseInv, BlockedIsHeld
    <3>3. HoldIsOn'
      BY <3>1 DEF TypeOK, PauseInv, HoldIsOn, PastWait
    <3>4. QED
      BY <2>1, <2>3, <3>2, <3>3 DEF PauseInv
  <2>6. QED
    BY <2>4, <2>5
<1>13. ASSUME NEW g \in Gen, LeaveWait(g) PROVE PauseInv'
  BY <1>13 DEF LeaveWait,
      TypeOK, PauseInv, Groups, NotStarted, BlockedIsHeld, RequestsHaveGroup, HoldIsOn,
      PastWait
<1>14. ASSUME NEW g \in Gen, ReadMessage(g) PROVE PauseInv'
  <2>1. loop' = [loop EXCEPT ![g] = "gone"] \/ loop' = [loop EXCEPT ![g] = "top"]
    BY <1>14 DEF ReadMessage
  <2>2. QED
    BY <2>1, <1>14, LoopMovesOn DEF ReadMessage
<1>15. ASSUME NEW g \in Gen, ReadClosed(g) PROVE PauseInv'
  BY <1>15, PauseFrame DEF ReadClosed, TypeOK, PauseInv, Groups, RequestsHaveGroup
<1>16. ASSUME NEW g \in Gen, OpenRound(g) PROVE PauseInv'
  BY <1>16, LoopMovesOn DEF OpenRound
<1>17. ASSUME NEW g \in Gen, QuitRound(g) PROVE PauseInv'
  BY <1>17, LoopMovesOn DEF QuitRound
<1>18. ASSUME NEW g \in Gen, EndRound(g) PROVE PauseInv'
  BY <1>18, LoopMovesOn DEF EndRound
<1>19. ASSUME NEW g \in Gen, CountRound(g) PROVE PauseInv'
  BY <1>19, LoopMovesOn DEF CountRound
<1>20. ASSUME NEW g \in Gen, WakeUp(g) PROVE PauseInv'
  BY <1>20, LoopMovesOn DEF WakeUp
<1>21. ASSUME NEW g \in Gen, CloseChannel(g) PROVE PauseInv'
  BY <1>21, PauseFrame DEF CloseChannel, TypeOK, PauseInv, Groups, RequestsHaveGroup
<1>22. ASSUME NEW r \in Request, BeginRequest(r) PROVE PauseInv'
  BY <1>22, PauseFrame DEF BeginRequest, TypeOK, PauseInv, Groups, RequestsHaveGroup
<1>23. ASSUME NEW r \in Request, AddHold(r) PROVE PauseInv'
  <2>1. EnginePauseWg \in Gen
    BY <1>23 DEF AddHold, TypeOK, PauseInv, RequestsHaveGroup
  <2>2. /\ EnginePauseWg' = EnginePauseWg /\ waitsOn' = waitsOn /\ main' = main /\ gen' = gen
        /\ loop' = [g \in Gen |-> IF loop[g] = "blocked" /\ held'[waitsOn[g]] = 0
                                    THEN "released" ELSE loop[g]]
        /\ held' = [held EXCEPT ![EnginePauseWg] = @ + 1]
    BY <1>23 DEF AddHold, TakeHold, MoveHold
  <2>3. held' \in [Gen -> Int]
    BY <2>1, <2>2 DEF TypeOK
  <2>4. Groups'
    BY <2>2 DEF PauseInv, Groups
  <2>5. NotStarted'
    BY <2>1, <2>2 DEF TypeOK, PauseInv, NotStarted
  <2>6. BlockedIsHeld'
    BY <2>2 DEF PauseInv, BlockedIsHeld
  <2>7. RequestsHaveGroup'
    BY <2>1, <2>2 DEF RequestsHaveGroup
  <2>8. HoldIsOn'
    BY <2>2, <1>23 DEF AddHold, TakeHold, HoldIsOn, PastWait
  <2>9. QED
    BY <2>4, <2>5, <2>6, <2>7, <2>8 DEF PauseInv
<1>24. ASSUME NEW r \in Request, RaiseFlag(r) PROVE PauseInv'
  BY <1>24, PauseFrame DEF RaiseFlag, TypeOK, PauseInv, Groups, RequestsHaveGroup
<1>25. ASSUME NEW r \in Request, ReleaseHold(r) PROVE PauseInv'
  <2>1. EnginePauseWg \in Gen
    BY <1>25 DEF ReleaseHold, TypeOK, PauseInv, RequestsHaveGroup
  <2>2. /\ EnginePauseWg' = EnginePauseWg /\ waitsOn' = waitsOn /\ main' = main /\ gen' = gen
        /\ loop' = [g \in Gen |-> IF loop[g] = "blocked" /\ held'[waitsOn[g]] = 0
                                    THEN "released" ELSE loop[g]]
        /\ held' = [held EXCEPT ![EnginePauseWg] = @ + -1]
    BY <1>25 DEF ReleaseHold, MoveHold
  <2>3. held' \in [Gen -> Int]
    BY <2>1, <2>2, SMTT(30) DEF TypeOK
  <2>4. Groups'
    BY <2>2 DEF PauseInv, Groups
  <2>5. NotStarted'
    BY <2>1, <2>2, SMTT(30) DEF TypeOK, PauseInv, NotStarted
  <2>6. BlockedIsHeld'
    BY <2>2 DEF PauseInv, BlockedIsHeld
  <2>7. RequestsHaveGroup'
    BY <2>1, <2>2 DEF RequestsHaveGroup
  <2>8. HoldIsOn'
    <3>1. CASE held'[EnginePauseWg] <= 0
      BY <2>2, <2>3, <3>1 DEF HoldIsOn
    <3>2. CASE held'[EnginePauseWg] > 0
      <4>1. held[EnginePauseWg] > 0 /\ passed' = passed
        BY <2>1, <2>2, <2>3, <3>2, <1>25 DEF ReleaseHold, TypeOK
      <4>2. ASSUME NEW g \in Gen, loop[g] = "blocked" PROVE held'[waitsOn[g]] # 0
        BY <2>1, <2>2, <2>3, <3>2, <4>2 DEF TypeOK, PauseInv, BlockedIsHeld
      <4>3. PastWait(loop') \subseteq PastWait(loop)
        BY <2>2, <4>2 DEF PastWait
      <4>4. QED
        BY <2>1, <2>2, <4>1, <4>3 DEF PauseInv, HoldIsOn
    <3>3. QED
      BY <2>1, <2>3, <3>1, <3>2
  <2>9. QED
    BY <2>4, <2>5, <2>6, <2>7, <2>8 DEF PauseInv
<1>26. ASSUME NEW r \in Request, LowerFlag(r) PROVE PauseInv'
  BY <1>26, PauseFrame DEF LowerFlag, TypeOK, PauseInv, Groups, RequestsHaveGroup
<1>27. ASSUME UNCHANGED vars PROVE PauseInv'
  BY <1>27 DEF vars,
      TypeOK, PauseInv, Groups, NotStarted, BlockedIsHeld, RequestsHaveGroup, HoldIsOn,
      PastWait
<1>28. QED
  BY <1>1, <1>2, <1>3, <1>4, <1>5, <1>6, <1>7, <1>8, <1>9, <1>10, <1>11, <1>12, <1>13,
     <1>14, <1>15, <1>16, <1>17, <1>18, <1>19, <1>20, <1>21, <1>22, <1>23, <1>24,
     <1>25, <1>26, <1>27
  DEF Next, StartStep, LoopStep, ResetStep, RequestStep

\* Every step keeps the flag in agreement with the counter.
LEMMA FlagStep == TypeOK /\ PauseInv /\ FlagInv /\ [Next]_vars => FlagInv'
<1> SUFFICES ASSUME TypeOK, PauseInv, FlagInv, [Next]_vars PROVE FlagInv'
  OBVIOUS
<1> USE ControlBoundsAssumption, StartPausedAssumption
    DEF Gen, fieldVars, startVars, loopVars, webVars, countVars, historyVars
<1>1. ASSUME Load PROVE FlagInv'
  BY <1>1, FlagFrame DEF Load, Arming
<1>2. ASSUME LowerAtStart PROVE FlagInv'
  BY <1>2 DEF LowerAtStart,
         TypeOK, PauseInv, Groups, NotStarted, RequestsHaveGroup,
         FlagInv, Agrees, Alone, StartAgrees, RequestAgrees, Stands, Arming, FlagTellsHold
<1>3. ASSUME MakeGroup PROVE FlagInv'
  BY <1>3 DEF MakeGroup, NewGroup,
         TypeOK, PauseInv, Groups, NotStarted, RequestsHaveGroup,
         FlagInv, Agrees, Alone, StartAgrees, RequestAgrees, Stands, Arming, FlagTellsHold
<1>4. ASSUME RaiseAtStart PROVE FlagInv'
  BY <1>4 DEF RaiseAtStart,
         TypeOK, PauseInv, Groups, NotStarted, RequestsHaveGroup,
         FlagInv, Agrees, Alone, StartAgrees, RequestAgrees, Stands, Arming, FlagTellsHold
<1>5. ASSUME HoldAtStart PROVE FlagInv'
  BY <1>5 DEF HoldAtStart, TakeHold, MoveHold,
         TypeOK, PauseInv, Groups, NotStarted, RequestsHaveGroup,
         FlagInv, Agrees, Alone, StartAgrees, RequestAgrees, Stands, Arming, FlagTellsHold
<1>6. ASSUME Spawn PROVE FlagInv'
  BY <1>6, FlagFrame DEF Spawn, Arming
<1>7. ASSUME Subscribe PROVE FlagInv'
  BY <1>7, FlagFrame DEF Subscribe, Arming
<1>8. ASSUME Return PROVE FlagInv'
  BY <1>8, FlagFrame DEF Return, Arming
<1>9. ASSUME ResetTables PROVE FlagInv'
  BY <1>9, FlagFrame DEF ResetTables
<1>10. ASSUME PublishReset PROVE FlagInv'
  BY <1>10, FlagFrame DEF PublishReset
<1>11. ASSUME ResetNumber PROVE FlagInv'
  BY <1>11, FlagFrame DEF ResetNumber
<1>12. ASSUME NEW g \in Gen, EnterWait(g) PROVE FlagInv'
  BY <1>12, FlagFrame DEF EnterWait
<1>13. ASSUME NEW g \in Gen, LeaveWait(g) PROVE FlagInv'
  BY <1>13, FlagFrame DEF LeaveWait
<1>14. ASSUME NEW g \in Gen, ReadMessage(g) PROVE FlagInv'
  BY <1>14, FlagFrame DEF ReadMessage
<1>15. ASSUME NEW g \in Gen, ReadClosed(g) PROVE FlagInv'
  BY <1>15, FlagFrame DEF ReadClosed
<1>16. ASSUME NEW g \in Gen, OpenRound(g) PROVE FlagInv'
  BY <1>16, FlagFrame DEF OpenRound
<1>17. ASSUME NEW g \in Gen, QuitRound(g) PROVE FlagInv'
  BY <1>17, FlagFrame DEF QuitRound
<1>18. ASSUME NEW g \in Gen, EndRound(g) PROVE FlagInv'
  BY <1>18, FlagFrame DEF EndRound
<1>19. ASSUME NEW g \in Gen, CountRound(g) PROVE FlagInv'
  BY <1>19, FlagFrame DEF CountRound
<1>20. ASSUME NEW g \in Gen, WakeUp(g) PROVE FlagInv'
  BY <1>20, FlagFrame DEF WakeUp
<1>21. ASSUME NEW g \in Gen, CloseChannel(g) PROVE FlagInv'
  BY <1>21, FlagFrame DEF CloseChannel
<1>22. ASSUME NEW r \in Request, BeginRequest(r) PROVE FlagInv'
  BY <1>22 DEF BeginRequest,
         TypeOK, PauseInv, Groups, NotStarted, RequestsHaveGroup,
         FlagInv, Agrees, Alone, StartAgrees, RequestAgrees, Stands, Arming, FlagTellsHold
<1>23. ASSUME NEW r \in Request, AddHold(r) PROVE FlagInv'
  <2>1. /\ EnginePauseWg \in Gen
        /\ held \in [Gen -> Int] /\ request \in [Request -> RequestStates]
    BY <1>23 DEF AddHold, TypeOK, PauseInv, RequestsHaveGroup
  <2>2. /\ UNCHANGED <<EnginePauseWg, IsEnginePaused, main, overlapped>>
        /\ request[r] = "add" /\ request' = [request EXCEPT ![r] = "raise"]
        /\ held' = [held EXCEPT ![EnginePauseWg] = @ + 1]
    BY <1>23 DEF AddHold, TakeHold, MoveHold, startVars
  <2>3. held'[EnginePauseWg] = held[EnginePauseWg] + 1
    BY <2>1, <2>2
  <2>4. QED
    BY <2>1, <2>2, <2>3
    DEF FlagInv, Agrees, Alone, StartAgrees, RequestAgrees, Stands, Arming, FlagTellsHold
<1>24. ASSUME NEW r \in Request, RaiseFlag(r) PROVE FlagInv'
  BY <1>24 DEF RaiseFlag,
         TypeOK, PauseInv, Groups, NotStarted, RequestsHaveGroup,
         FlagInv, Agrees, Alone, StartAgrees, RequestAgrees, Stands, Arming, FlagTellsHold
<1>25. ASSUME NEW r \in Request, ReleaseHold(r) PROVE FlagInv'
  <2>1. /\ EnginePauseWg \in Gen /\ EnginePauseWg' = EnginePauseWg
        /\ IsEnginePaused' = IsEnginePaused /\ main' = main /\ overlapped' = overlapped
        /\ held'[EnginePauseWg] = held[EnginePauseWg] - 1
    BY <1>25 DEF ReleaseHold, MoveHold, TypeOK, PauseInv, RequestsHaveGroup
  <2>2. CASE overlapped
    BY <2>1, <2>2 DEF FlagInv, Agrees, FlagTellsHold
  <2>3. CASE ~overlapped
    <3>1. /\ Stands(TRUE, 1) /\ ~Arming /\ EnginePauseWg # 0
          /\ \A q \in Request : request[q] # "idle" => q = r
      <4>1. EnginePauseWg # 0 /\ request[r] = "done"
        BY <2>1, <1>25 DEF ReleaseHold, Gen
      <4>2. Alone /\ (~Arming => RequestAgrees)
        BY <2>3, <4>1 DEF FlagInv, Agrees
      <4>3. ~Arming /\ \A q \in Request : request[q] # "idle" => q = r
        BY <4>1, <4>2 DEF Alone
      <4>4. Stands(TRUE, 1)
        BY <4>1, <4>2, <4>3 DEF RequestAgrees
      <4>5. QED
        BY <4>1, <4>3, <4>4
    <3>2. Stands(TRUE, 0)'
      BY <2>1, <3>1 DEF Stands
    <3>3. request' = [request EXCEPT ![r] = "lower"]
      <4>1. ~(held'[EnginePauseWg] < 0)
        BY <2>1, <3>1 DEF Stands
      <4>2. QED
        BY <4>1, <1>25 DEF ReleaseHold
    <3>4. ~Arming' /\ Alone' /\ RequestAgrees'
      BY <2>1, <3>1, <3>2, <3>3 DEF Alone, Arming, RequestAgrees, TypeOK
    <3>5. ~FlagTellsHold' => FALSE
      BY <3>3 DEF FlagTellsHold, TypeOK
    <3>6. StartAgrees'
      BY <3>4 DEF StartAgrees, Arming
    <3>7. QED
      BY <3>4, <3>5, <3>6 DEF FlagInv, Agrees
  <2>4. QED
    BY <2>2, <2>3
<1>26. ASSUME NEW r \in Request, LowerFlag(r) PROVE FlagInv'
  BY <1>26 DEF LowerFlag,
         TypeOK, PauseInv, Groups, NotStarted, RequestsHaveGroup,
         FlagInv, Agrees, Alone, StartAgrees, RequestAgrees, Stands, Arming, FlagTellsHold
<1>27. ASSUME UNCHANGED vars PROVE FlagInv'
  BY <1>27 DEF vars,
         TypeOK, PauseInv, Groups, NotStarted, RequestsHaveGroup,
         FlagInv, Agrees, Alone, StartAgrees, RequestAgrees, Stands, Arming, FlagTellsHold
<1>28. QED
  BY <1>1, <1>2, <1>3, <1>4, <1>5, <1>6, <1>7, <1>8, <1>9, <1>10, <1>11, <1>12, <1>13,
     <1>14, <1>15, <1>16, <1>17, <1>18, <1>19, <1>20, <1>21, <1>22, <1>23, <1>24,
     <1>25, <1>26, <1>27
  DEF Next, StartStep, LoopStep, ResetStep, RequestStep

-----------------------------------------------------------------------------

LEMMA Invariance == Spec => []IInv
<1>1. Init => IInv
  BY InitInv
<1>2. IInv /\ [Next]_vars => IInv'
  BY TypeStep, PauseStep, FlagStep DEF IInv
<1>3. QED
  BY <1>1, <1>2, PTL DEF Spec

\* Every reachable state of Start, the loops and the requests is well typed,
\* and a Start that has loaded has a round number.
THEOREM TypeCorrect == Spec => []TypeOK
<1>1. IInv => TypeOK
  BY DEF IInv
<1>2. QED
  BY <1>1, Invariance, PTL

\* Requests that do not overlap leave flag and wait group in agreement, through
\* any number of resets: PauseEngine and ResumeEngine (engine.go:288-300) never
\* take a hold twice nor release one that is not held.
THEOREM FlagIsTrue == Spec => []FlagTellsHold
<1>1. IInv => FlagTellsHold
  BY DEF IInv, FlagInv
<1>2. QED
  BY <1>1, Invariance, PTL

\* Under a hold nobody opens a round but a loop that was past its wait when the
\* hold was taken (engine.go:103-109, engine.go:128), overlapping requests and
\* replaced loops included.
THEOREM PauseKeepsHolding == Spec => PauseHolds
<1>1. IInv /\ [Next]_vars =>
        [\A g \in Gen : Opens(g) /\ held[EnginePauseWg] > 0 => g \in passed]_vars
  <2> SUFFICES ASSUME IInv, NEW g \in Gen, Opens(g), held[EnginePauseWg] > 0
               PROVE  g \in passed
    OBVIOUS
  <2>1. EnginePauseWg # 0
    BY DEF IInv, TypeOK, PauseInv, NotStarted, Opens, Gen
  <2>2. g \in PastWait(loop)
    BY DEF Opens, PastWait
  <2>3. QED
    BY <2>1, <2>2 DEF IInv, PauseInv, HoldIsOn
<1>2. QED
  BY <1>1, Invariance, PTL DEF Spec, PauseHolds

-----------------------------------------------------------------------------
(* The round numbers across a reset *)

\* A step that saves and counts nothing, and takes no loop into a round, out of
\* its counting or a reset past its table, leaves the numbers as they are.
LEMMA NumberFrame ==
  ASSUME NumberInv, UNCHANGED <<CurrentRound, rounds, crossed>>,
         reset' # "idle" => reset # "idle",
         \A g \in Gen : (loop[g] = "counting") = (loop'[g] = "counting"),
         \A g \in Gen : loop'[g] = "round" => loop[g] = "round"
  PROVE  NumberInv'
BY DEF NumberInv, BelowOrCounting, ResetIsClean, InRound

\* A loop that moves between places outside the round, or leaves it unsaved.
LEMMA LoopNumberFrame ==
  ASSUME TypeOK, NumberInv, UNCHANGED <<CurrentRound, rounds, crossed, reset>>,
         NEW g \in Gen, loop[g] # "counting",
         NEW place \in LoopStates \ {"round", "counting"}, loop' = [loop EXCEPT ![g] = place]
  PROVE  NumberInv'
<1>1. \A h \in Gen : loop'[h] = IF h = g THEN place ELSE loop[h]
  BY DEF TypeOK
<1>2. QED
  BY <1>1, NumberFrame

\* The counter of the wait group moves no loop into a round or out of one.
LEMMA HoldNumberFrame ==
  ASSUME TypeOK, NumberInv, UNCHANGED <<CurrentRound, rounds, crossed, reset>>,
         NEW by \in Int, MoveHold(by)
  PROVE  NumberInv'
<1>1. \A g \in Gen : loop'[g] = loop[g] \/ (loop[g] = "blocked" /\ loop'[g] = "released")
  BY DEF MoveHold
<1>2. QED
  BY <1>1, NumberFrame

\* A loop that runs was spawned, and nothing but Spawn makes one run.
LEMMA UnspawnedStep == TypeOK /\ Unspawned /\ [Next]_vars => Unspawned'
<1> SUFFICES ASSUME TypeOK, Unspawned, [Next]_vars PROVE Unspawned'
  OBVIOUS
<1> USE DEF fieldVars, startVars, loopVars, webVars, countVars, historyVars
<1>1. ASSUME UNCHANGED <<main, gen>>, \A g \in Gen : loop[g] = "none" => loop'[g] = "none"
      PROVE  Unspawned'
  BY <1>1 DEF Unspawned
<1>2. ASSUME NEW by \in Int, MoveHold(by) PROVE \A g \in Gen : loop[g] = "none" => loop'[g] = "none"
  BY <1>2 DEF MoveHold
<1>3. CASE Load \/ LowerAtStart \/ MakeGroup \/ RaiseAtStart
  BY <1>3 DEF Load, LowerAtStart, MakeGroup, RaiseAtStart, Unspawned
<1>4. CASE HoldAtStart
  <2>1. \A g \in Gen : loop[g] = "none" => loop'[g] = "none"
    BY <1>2, <1>4 DEF HoldAtStart, TakeHold
  <2>2. QED
    BY <1>4, <2>1 DEF HoldAtStart, Unspawned
<1>5. CASE Spawn
  BY <1>5 DEF Spawn, Unspawned, TypeOK, Gen
<1>6. CASE Subscribe
  BY <1>6 DEF Subscribe, Unspawned
<1>7. CASE Return
  BY <1>7 DEF Return, Unspawned, TypeOK, Gen
<1>8. CASE ResetTables \/ ResetStep
  BY <1>1, <1>8 DEF ResetTables, ResetStep, PublishReset, ResetNumber
<1>9. ASSUME NEW g \in Gen, LoopStep(g) \/ CloseChannel(g) PROVE Unspawned'
  <2>1. ASSUME NEW place, loop[g] # "none", loop' = [loop EXCEPT ![g] = place]
        PROVE  \A h \in Gen : loop[h] = "none" => loop'[h] = "none"
    BY <2>1 DEF TypeOK
  <2>2. CASE EnterWait(g)
    BY <1>1, <2>1, <2>2 DEF EnterWait
  <2>3. CASE LeaveWait(g)
    BY <1>1, <2>1, <2>3 DEF LeaveWait
  <2>4. CASE ReadMessage(g)
    BY <1>1, <2>1, <2>4 DEF ReadMessage
  <2>5. CASE ReadClosed(g) \/ CloseChannel(g)
    BY <1>1, <2>5 DEF ReadClosed, CloseChannel
  <2>6. CASE OpenRound(g)
    BY <1>1, <2>1, <2>6 DEF OpenRound
  <2>7. CASE QuitRound(g)
    BY <1>1, <2>1, <2>7 DEF QuitRound
  <2>8. CASE EndRound(g)
    BY <1>1, <2>1, <2>8 DEF EndRound
  <2>9. CASE CountRound(g) \/ WakeUp(g)
    BY <1>1, <2>1, <2>9 DEF CountRound, WakeUp
  <2>10. QED
    BY <1>9, <2>2, <2>3, <2>4, <2>5, <2>6, <2>7, <2>8, <2>9 DEF LoopStep
<1>10. ASSUME NEW r \in Request, BeginRequest(r) \/ RequestStep(r) PROVE Unspawned'
  <2>1. CASE AddHold(r)
    BY <1>1, <1>2, <2>1 DEF AddHold, TakeHold
  <2>2. CASE ReleaseHold(r)
    <3>1. MoveHold(-1) /\ -1 \in Int
      BY <2>2 DEF ReleaseHold
    <3>2. \A g \in Gen : loop[g] = "none" => loop'[g] = "none"
      BY <1>2, <3>1
    <3>3. QED
      BY <1>1, <2>2, <3>2 DEF ReleaseHold
  <2>3. CASE BeginRequest(r) \/ RaiseFlag(r) \/ LowerFlag(r)
    BY <1>1, <2>3 DEF BeginRequest, RaiseFlag, LowerFlag
  <2>4. QED
    BY <1>10, <2>1, <2>2, <2>3 DEF RequestStep
<1>11. CASE UNCHANGED vars
  BY <1>1, <1>11 DEF vars
<1>12. QED
  BY <1>3, <1>4, <1>5, <1>6, <1>7, <1>8, <1>9, <1>10, <1>11 DEF Next, StartStep

LEMMA NumberStep == TypeOK /\ Unspawned /\ NumberInv /\ [Next]_vars => NumberInv'
<1> SUFFICES ASSUME TypeOK, Unspawned, NumberInv, [Next]_vars PROVE NumberInv'
  OBVIOUS
<1> USE DEF fieldVars, startVars, loopVars, webVars, countVars, historyVars
<1>1. CASE Load
  <2>1. PICK last \in rounds \cup {0} : (\A r \in rounds : r <= last) /\ CurrentRound' = last + 1
    BY <1>1 DEF Load
  <2>2. rounds' = rounds /\ reset' = reset /\ loop' = loop /\ crossed' = crossed
    BY <1>1 DEF Load
  <2>3. \A r \in rounds : r \in Nat /\ last \in Nat /\ r < CurrentRound'
    BY <2>1 DEF TypeOK
  <2>4. BelowOrCounting'
    BY <2>1, <2>2, <2>3 DEF BelowOrCounting, TypeOK
  <2>5. QED
    BY <2>2, <2>4 DEF NumberInv, ResetIsClean, InRound
<1>2. CASE LowerAtStart \/ MakeGroup \/ RaiseAtStart \/ Subscribe \/ Return
  BY <1>2, NumberFrame DEF LowerAtStart, MakeGroup, RaiseAtStart, Subscribe, Return
<1>3. CASE HoldAtStart
  BY <1>3, HoldNumberFrame DEF HoldAtStart, TakeHold
<1>4. CASE Spawn
  <2>1. gen \in Gen /\ loop[gen] = "none"
    BY <1>4 DEF Spawn, TypeOK, Unspawned
  <2>2. QED
    BY <1>4, <2>1, LoopNumberFrame DEF Spawn, LoopStates
<1>5. CASE ResetTables
  <2>1. /\ rounds' = {} /\ loop' = loop
        /\ ~crossed' => \A g \in Gen : ~InRound(g)
    BY <1>5 DEF ResetTables, Truncated
  <2>2. QED
    BY <2>1 DEF NumberInv, BelowOrCounting, ResetIsClean, InRound
<1>6. CASE PublishReset
  BY <1>6, NumberFrame DEF PublishReset
<1>7. CASE ResetNumber
  BY <1>7 DEF ResetNumber, NumberInv, BelowOrCounting, ResetIsClean
<1>8. ASSUME NEW g \in Gen, LoopStep(g) \/ CloseChannel(g) PROVE NumberInv'
  <2>1. CASE EnterWait(g)
    BY <2>1, LoopNumberFrame DEF EnterWait, LoopStates
  <2>2. CASE LeaveWait(g)
    <3>1. CASE loop' = loop
      BY <2>2, <3>1, NumberFrame DEF LeaveWait
    <3>2. CASE loop' = [loop EXCEPT ![g] = "choosing"]
      BY <2>2, <3>2, LoopNumberFrame DEF LeaveWait, LoopStates
    <3>3. QED
      BY <2>2, <3>1, <3>2 DEF LeaveWait
  <2>3. CASE ReadMessage(g)
    <3>1. loop' = [loop EXCEPT ![g] = "gone"] \/ loop' = [loop EXCEPT ![g] = "top"]
      BY <2>3 DEF ReadMessage
    <3>2. QED
      BY <2>3, <3>1, LoopNumberFrame DEF ReadMessage, LoopStates
  <2>4. CASE ReadClosed(g) \/ CloseChannel(g)
    BY <2>4, NumberFrame DEF ReadClosed, CloseChannel
  <2>5. CASE OpenRound(g)
    <3>1. /\ loop[g] = "choosing" /\ loop' = [loop EXCEPT ![g] = "round"]
          /\ UNCHANGED <<CurrentRound, rounds, reset>>
          /\ crossed' = (crossed \/ reset # "idle")
      BY <2>5 DEF OpenRound
    <3>2. \A h \in Gen : (loop[h] = "counting") = (loop'[h] = "counting")
      BY <3>1 DEF TypeOK
    <3>3. BelowOrCounting => BelowOrCounting'
      BY <3>1, <3>2 DEF BelowOrCounting
    <3>4. ~crossed' => ~crossed /\ reset' = "idle"
      BY <3>1
    <3>5. QED
      BY <3>3, <3>4 DEF NumberInv, ResetIsClean
  <2>6. CASE QuitRound(g)
    BY <2>6, LoopNumberFrame DEF QuitRound, LoopStates
  <2>7. CASE EndRound(g)
    <3>1. /\ loop[g] = "round" /\ loop'[g] = "counting" /\ rounds' \subseteq rounds \cup {CurrentRound}
          /\ UNCHANGED <<CurrentRound, reset, crossed>>
      BY <2>7 DEF EndRound, TypeOK
    <3>2. BelowOrCounting => BelowOrCounting'
      BY <3>1 DEF BelowOrCounting, TypeOK
    <3>3. ~crossed => reset = "idle"
      BY <3>1 DEF NumberInv, ResetIsClean, InRound
    <3>4. QED
      BY <3>1, <3>2, <3>3 DEF NumberInv, ResetIsClean
  <2>8. CASE CountRound(g)
    <3>1. /\ loop[g] = "counting" /\ CurrentRound' = CurrentRound + 1
          /\ UNCHANGED <<rounds, reset, crossed>>
      BY <2>8 DEF CountRound
    <3>2. \A r \in rounds : r \in Nat /\ CurrentRound \in Nat
      BY DEF TypeOK
    <3>3. BelowOrCounting => BelowOrCounting'
      BY <3>1, <3>2 DEF BelowOrCounting
    <3>4. ~crossed => reset = "idle"
      BY <3>1 DEF NumberInv, ResetIsClean, InRound
    <3>5. QED
      BY <3>1, <3>3, <3>4 DEF NumberInv, ResetIsClean
  <2>9. CASE WakeUp(g)
    BY <2>9, LoopNumberFrame DEF WakeUp, LoopStates
  <2>10. QED
    BY <1>8, <2>1, <2>2, <2>3, <2>4, <2>5, <2>6, <2>7, <2>8, <2>9 DEF LoopStep
<1>9. ASSUME NEW r \in Request, BeginRequest(r) \/ RequestStep(r) PROVE NumberInv'
  <2>1. CASE AddHold(r)
    BY <2>1, HoldNumberFrame DEF AddHold, TakeHold
  <2>2. CASE ReleaseHold(r)
    <3>1. MoveHold(-1) /\ -1 \in Int
      BY <2>2 DEF ReleaseHold
    <3>2. QED
      BY <2>2, <3>1, HoldNumberFrame DEF ReleaseHold
  <2>3. CASE BeginRequest(r) \/ RaiseFlag(r) \/ LowerFlag(r)
    BY <2>3, NumberFrame DEF BeginRequest, RaiseFlag, LowerFlag
  <2>4. QED
    BY <1>9, <2>1, <2>2, <2>3 DEF RequestStep
<1>10. CASE UNCHANGED vars
  BY <1>10, NumberFrame DEF vars
<1>11. QED
  BY <1>1, <1>2, <1>3, <1>4, <1>5, <1>6, <1>7, <1>8, <1>9, <1>10 DEF Next, StartStep, ResetStep

\* While no reset crosses a round or a start, the loops share a number that is not
\* saved, unless one of them has just saved it and is about to count: the number
\* of Start and that of ResetScores fit the table (engine.go:79-83, 160, 324).
THEOREM NumberStaysNew == Spec => []NumberIsNewAfterReset
<1>1. Init => Unspawned /\ NumberInv
  BY DEF Init, Unspawned, NumberInv, BelowOrCounting, ResetIsClean
<1>2. TypeOK /\ Unspawned /\ NumberInv /\ [Next]_vars => (Unspawned /\ NumberInv)'
  BY UnspawnedStep, NumberStep
<1>3. TypeOK /\ NumberInv => NumberIsNewAfterReset
  BY DEF NumberInv, BelowOrCounting, NumberIsNewAfterReset, TypeOK
<1>4. IInv => TypeOK
  BY DEF IInv
<1>5. QED
  BY <1>1, <1>2, <1>3, <1>4, Invariance, PTL DEF Spec

=============================================================================
