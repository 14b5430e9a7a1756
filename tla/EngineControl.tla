--------------------------- MODULE EngineControl ---------------------------
(***************************************************************************)
(* How the engine is started, paused, resumed and reset (engine/engine.go, *)
(* www/api/admin.go): the goroutines that share one ScoringEngine without  *)
(* a lock.                                                                 *)
(*                                                                         *)
(* main() calls Start for ever.  Each call makes a new wait group for      *)
(* pausing, subscribes to the Redis channel "events", starts a loop        *)
(* goroutine and waits, in waitForReset, for a reset event; when it comes  *)
(* Start returns, which closes the subscription of its loop, and is called *)
(* again.  The loop of the earlier call is not stopped: it sees the event, *)
(* or the closed channel, the next time it looks.  Here call g of Start    *)
(* owns loop g, subscription g and wait group g.                           *)
(*                                                                         *)
(* Abstractions: a round is opened, saved or not, and counted; inside it   *)
(* RoundEngine applies.  Subscriptions are established at once; delivery   *)
(* takes time, so that a loop may miss a message that was published, and a *)
(* Close drops what was not delivered.  The wait group is Go's: a release  *)
(* that takes the counter to zero lets every waiter go, a waiter that then *)
(* finds it raised again panics, and so does a release below zero, in a    *)
(* request's goroutine, where net/http recovers it.  A panic of a loop     *)
(* ends the process (RoundEngine!Restart goes on from there).  No database *)
(* or Redis call fails here.                                               *)
(***************************************************************************)
EXTENDS Integers, Sequences, FiniteSets

CONSTANTS
  MaxStarts,    \* bound: calls of Start, one more than the resets it heard
  MaxResets,    \* bound: calls of ResetScores
  MaxOpens,     \* bound: rounds opened by all loops together
  MaxRequests,  \* bound: accepted requests to pause or resume
  Request,      \* the goroutines that serve such requests
  StartPaused   \* MiscSettings.StartPaused

ASSUME ControlBoundsAssumption ==
  /\ {MaxResets, MaxOpens, MaxRequests} \subseteq Nat
  /\ MaxStarts \in Nat /\ MaxStarts > MaxResets

ASSUME StartPausedAssumption == StartPaused \in BOOLEAN

VARIABLES
  \* shared fields of ScoringEngine, and the rounds table
  IsEnginePaused, EnginePauseWg, CurrentRound, rounds,
  \* Start: "loading", "arming", "grouping", "raising", "holding", "spawning",
  \* "subscribing", "waiting"
  main, gen,
  held,       \* the counter of each wait group
  \* the loop goroutines
  loop,       \* "none", "top", "blocked", "released", "choosing", "round",
              \* "counting", "sleeping", "gone"
  waitsOn,    \* the wait group a loop is blocked on or released from
  inbox,      \* what was published to each loop's subscription, not yet read
  closed,     \* the subscription is closed
  told,       \* the subscription of the round in progress got the reset
  heard,      \* the subscription of waitForReset got the reset
  \* ResetScores: "idle", "truncated", "published"
  reset,
  \* PauseEngine and ResumeEngine in each request: "idle", and before each of
  \* their two writes: "add", "raise", "done", "lower"
  request,
  panic,      \* what ended the process: "none", "closed", "reused"
  \* history, read by no guard but the bounds'
  resets, opens, requests,
  overlapped, \* two requests at once, or one across the start of a new group
  crossed,    \* a reset, and a round or a start, at once
  missed,     \* a reset was published while waitForReset was not subscribed
  dropped,    \* a Close dropped a reset
  passed      \* loops that were past their wait when the last hold was taken

fieldVars   == <<IsEnginePaused, EnginePauseWg, CurrentRound, rounds, held>>
startVars   == <<main, gen, heard>>
loopVars    == <<loop, waitsOn, inbox, closed, told>>
webVars     == <<reset, request>>
countVars   == <<resets, opens, requests>>
historyVars == <<overlapped, crossed, missed, dropped, passed>>

vars == <<fieldVars, startVars, loopVars, webVars, panic, countVars, historyVars>>

-----------------------------------------------------------------------------

Gen == 1 .. MaxStarts

\* A message reaches the subscriptions that exist. What nobody reads any more
\* is left out.
Publish(message) ==
  inbox' = [g \in Gen |->
              IF loop[g] \in {"none", "gone"} \/ closed[g]
                THEN inbox[g] ELSE Append(inbox[g], message)]

\* db.ResetScores truncates the rounds table.
TruncatedNothing(table) == table
Truncated(table) == {}

\* The number ResetScores writes after its reset event.
NoNumber == 0
FirstNumber == 1

\* Start's new wait group; the old ones stay with whoever waits on them.
SameGroup(group, g) == IF group = 0 THEN g ELSE group
NewGroup(group, g) == g

\* The group a loop waits on: it reads the field anew in every iteration.
GroupOfStart(g) == g
GroupNow(g) == EnginePauseWg

\* Does a message end the loop?
EndsNever(message) == FALSE
EndsLoop(message) == message = "reset"

PastWait(loops) == {g \in Gen : loops[g] \in {"released", "choosing"}}

\* The counter of the group moves; at zero every waiter goes.
MoveHold(by) ==
  /\ held' = [held EXCEPT ![EnginePauseWg] = @ + by]
  /\ loop' = [g \in Gen |-> IF loop[g] = "blocked" /\ held'[waitsOn[g]] = 0
                              THEN "released" ELSE loop[g]]

TakeHold == MoveHold(1) /\ passed' = PastWait(loop')

Init ==
  /\ IsEnginePaused = FALSE /\ EnginePauseWg = 0
  /\ CurrentRound = 0 /\ rounds = {}
  /\ held = [g \in Gen |-> 0]
  /\ main = "loading" /\ gen = 1 /\ heard = FALSE
  /\ loop = [g \in Gen |-> "none"] /\ waitsOn = [g \in Gen |-> 0]
  /\ inbox = [g \in Gen |-> <<>>] /\ closed = [g \in Gen |-> FALSE]
  /\ told = [g \in Gen |-> FALSE]
  /\ reset = "idle" /\ request = [r \in Request |-> "idle"]
  /\ panic = "none"
  /\ resets = 0 /\ opens = 0 /\ requests = 0
  /\ overlapped = FALSE /\ crossed = FALSE /\ missed = FALSE /\ dropped = FALSE
  /\ passed = {}

-----------------------------------------------------------------------------
(* Start and waitForReset *)

Load ==
  /\ main = "loading"
  /\ \E last \in rounds \cup {0} :
       (\A r \in rounds : r <= last) /\ CurrentRound' = last + 1
  /\ main' = "arming"
  /\ UNCHANGED <<IsEnginePaused, EnginePauseWg, rounds, held, gen, heard, loopVars,
                 webVars, panic, countVars, historyVars>>

LowerAtStart ==
  /\ main = "arming"
  /\ IsEnginePaused' = FALSE
  /\ main' = "grouping"
  /\ overlapped' = (overlapped \/ \E r \in Request : request[r] # "idle")
  /\ UNCHANGED <<EnginePauseWg, CurrentRound, rounds, held, gen, heard, loopVars, webVars,
                 panic, countVars, crossed, missed, dropped, passed>>

MakeGroup ==
  /\ main = "grouping"
  /\ EnginePauseWg' = NewGroup(EnginePauseWg, gen)
  /\ main' = IF StartPaused THEN "raising" ELSE "spawning"
  /\ UNCHANGED <<IsEnginePaused, CurrentRound, rounds, held, gen, heard, loopVars, webVars,
                 panic, countVars, historyVars>>

RaiseAtStart ==
  /\ main = "raising"
  /\ IsEnginePaused' = TRUE
  /\ main' = "holding"
  /\ UNCHANGED <<EnginePauseWg, CurrentRound, rounds, held, gen, heard, loopVars, webVars,
                 panic, countVars, historyVars>>

HoldAtStart ==
  /\ main = "holding"
  /\ TakeHold
  /\ main' = "spawning"
  /\ UNCHANGED <<IsEnginePaused, EnginePauseWg, CurrentRound, rounds, gen, heard, waitsOn,
                 inbox, closed, told, webVars, panic, countVars, overlapped, crossed,
                 missed, dropped>>

Spawn ==
  /\ main = "spawning"
  /\ loop' = [loop EXCEPT ![gen] = "top"]
  /\ main' = "subscribing"
  /\ UNCHANGED <<fieldVars, gen, heard, waitsOn, inbox, closed, told, webVars, panic,
                 countVars, historyVars>>

Subscribe ==
  /\ main = "subscribing"
  /\ main' = "waiting" /\ heard' = FALSE
  /\ UNCHANGED <<fieldVars, gen, loopVars, webVars, panic, countVars, historyVars>>

\* waitForReset returns, and so does Start; main() calls it again.
Return ==
  /\ main = "waiting" /\ heard /\ gen < MaxStarts
  /\ main' = "loading" /\ gen' = gen + 1 /\ heard' = FALSE
  /\ UNCHANGED <<fieldVars, loopVars, webVars, panic, countVars, historyVars>>

\* Start's deferred Close: the client closes the channel a little later, with
\* what was delivered till then. (Of a loop that is gone nobody reads it.)
CloseChannel(g) ==
  /\ g < gen /\ ~closed[g] /\ loop[g] # "gone"
  /\ closed' = [closed EXCEPT ![g] = TRUE]
  /\ \E n \in 0 .. Len(inbox[g]) :
       /\ inbox' = [inbox EXCEPT ![g] = SubSeq(@, 1, n)]
       /\ dropped' = (dropped \/ \E i \in n + 1 .. Len(inbox[g]) : inbox[g][i] = "reset")
  /\ UNCHANGED <<fieldVars, startVars, loop, waitsOn, told, webVars, panic, countVars,
                 overlapped, crossed, missed, passed>>

-----------------------------------------------------------------------------
(* The loop goroutines *)

\* EnginePauseWg.Wait() on the group the field holds now.
EnterWait(g) ==
  /\ loop[g] = "top"
  /\ IF held[GroupNow(g)] = 0
       THEN loop' = [loop EXCEPT ![g] = "choosing"] /\ UNCHANGED waitsOn
       ELSE /\ loop' = [loop EXCEPT ![g] = "blocked"]
            /\ waitsOn' = [waitsOn EXCEPT ![g] = GroupNow(g)]
  /\ passed' = passed \ {g}
  /\ UNCHANGED <<fieldVars, startVars, inbox, closed, told, webVars, panic, countVars,
                 overlapped, crossed, missed, dropped>>

LeaveWait(g) ==
  /\ loop[g] = "released"
  /\ IF held[waitsOn[g]] = 0
       THEN /\ loop' = [loop EXCEPT ![g] = "choosing"]
            /\ waitsOn' = [waitsOn EXCEPT ![g] = 0] /\ UNCHANGED panic
       ELSE panic' = "reused" /\ UNCHANGED <<loop, waitsOn>>
  /\ UNCHANGED <<fieldVars, startVars, inbox, closed, told, webVars, countVars,
                 historyVars>>

\* The select reads a message: a reset ends the loop, others send it round.
ReadMessage(g) ==
  /\ loop[g] = "choosing" /\ inbox[g] # <<>>
  /\ loop' = [loop EXCEPT ![g] = IF EndsLoop(Head(inbox[g])) THEN "gone" ELSE "top"]
  /\ inbox' = [inbox EXCEPT ![g] = IF EndsLoop(Head(@)) THEN <<>> ELSE Tail(@)]
  /\ UNCHANGED <<fieldVars, startVars, waitsOn, closed, told, webVars, panic, countVars,
                 historyVars>>

\* A closed channel yields a nil message, and its Payload a panic.
ReadClosed(g) ==
  /\ loop[g] = "choosing" /\ inbox[g] = <<>> /\ closed[g]
  /\ panic' = "closed"
  /\ UNCHANGED <<fieldVars, startVars, loopVars, webVars, countVars, historyVars>>

\* Nothing is delivered (yet): a round starts, with a subscription of its own.
OpenRound(g) ==
  /\ loop[g] = "choosing" /\ ~closed[g]
  /\ opens < MaxOpens /\ opens' = opens + 1
  /\ loop' = [loop EXCEPT ![g] = "round"]
  /\ crossed' = (crossed \/ reset # "idle")
  /\ UNCHANGED <<fieldVars, startVars, waitsOn, inbox, closed, told, webVars, panic, resets,
                 requests, overlapped, missed, dropped, passed>>

\* Between two results the round finds the reset; its error ends the loop.
QuitRound(g) ==
  /\ loop[g] = "round" /\ told[g]
  /\ loop' = [loop EXCEPT ![g] = "gone"] /\ inbox' = [inbox EXCEPT ![g] = <<>>]
  /\ told' = [told EXCEPT ![g] = FALSE]
  /\ UNCHANGED <<fieldVars, startVars, waitsOn, closed, webVars, panic, countVars,
                 historyVars>>

\* The round ends without looking: complete, or at its deadline.
EndRound(g) ==
  /\ loop[g] = "round"
  /\ loop' = [loop EXCEPT ![g] = "counting"] /\ told' = [told EXCEPT ![g] = FALSE]
  /\ \E saved \in {rounds, rounds \cup {CurrentRound}} : rounds' = saved
  /\ UNCHANGED <<IsEnginePaused, EnginePauseWg, CurrentRound, held, startVars, waitsOn,
                 inbox, closed, webVars, panic, countVars, historyVars>>

CountRound(g) ==
  /\ loop[g] = "counting"
  /\ CurrentRound' = CurrentRound + 1
  /\ loop' = [loop EXCEPT ![g] = "sleeping"]
  /\ Publish("round_finish")
  /\ UNCHANGED <<IsEnginePaused, EnginePauseWg, rounds, held, startVars, waitsOn, closed,
                 told, webVars, panic, countVars, historyVars>>

WakeUp(g) ==
  /\ loop[g] = "sleeping"
  /\ loop' = [loop EXCEPT ![g] = "top"]
  /\ UNCHANGED <<fieldVars, startVars, waitsOn, inbox, closed, told, webVars, panic,
                 countVars, historyVars>>

-----------------------------------------------------------------------------
(* The web server: ResetScores, and requests to pause or resume *)

InRound(g) == loop[g] \in {"round", "counting"}

ResetTables ==
  /\ reset = "idle" /\ resets < MaxResets /\ resets' = resets + 1
  /\ rounds' = Truncated(rounds)
  /\ reset' = "truncated"
  /\ crossed' = (crossed \/ main # "waiting" \/ \E g \in Gen : InRound(g))
  /\ UNCHANGED <<IsEnginePaused, EnginePauseWg, CurrentRound, held, startVars, loopVars,
                 request, panic, opens, requests, overlapped, missed, dropped, passed>>

PublishReset ==
  /\ reset = "truncated"
  /\ Publish("reset")
  /\ told' = [g \in Gen |-> told[g] \/ loop[g] = "round"]
  /\ heard' = (heard \/ main = "waiting")
  /\ missed' = (missed \/ main # "waiting")
  /\ reset' = "published"
  /\ UNCHANGED <<fieldVars, main, gen, loop, waitsOn, closed, request, panic, countVars,
                 overlapped, crossed, dropped, passed>>

ResetNumber ==
  /\ reset = "published"
  /\ CurrentRound' = FirstNumber
  /\ reset' = "idle"
  /\ UNCHANGED <<IsEnginePaused, EnginePauseWg, rounds, held, startVars, loopVars, request,
                 panic, countVars, historyVars>>

\* Start is between its first and its last write to the flag and the group.
Arming == main \in {"grouping", "raising", "holding"}

\* The handler and PauseEngine both find the flag down, or the handler and
\* ResumeEngine both find it up. Before the first Start there is no group.
BeginRequest(r) ==
  /\ request[r] = "idle" /\ EnginePauseWg # 0
  /\ requests < MaxRequests /\ requests' = requests + 1
  /\ request' = [request EXCEPT ![r] = IF IsEnginePaused THEN "done" ELSE "add"]
  /\ overlapped' = (overlapped \/ Arming \/ \E q \in Request : request[q] # "idle")
  /\ UNCHANGED <<fieldVars, startVars, loopVars, reset, panic, resets, opens, crossed,
                 missed, dropped, passed>>

AddHold(r) ==
  /\ request[r] = "add"
  /\ TakeHold
  /\ request' = [request EXCEPT ![r] = "raise"]
  /\ UNCHANGED <<IsEnginePaused, EnginePauseWg, CurrentRound, rounds, startVars, waitsOn,
                 inbox, closed, told, reset, panic, countVars, overlapped, crossed,
                 missed, dropped>>

RaiseFlag(r) ==
  /\ request[r] = "raise"
  /\ IsEnginePaused' = TRUE
  /\ request' = [request EXCEPT ![r] = "idle"]
  /\ UNCHANGED <<EnginePauseWg, CurrentRound, rounds, held, startVars, loopVars, reset,
                 panic, countVars, historyVars>>

\* Below zero the release panics in the request and the flag stays up.
ReleaseHold(r) ==
  /\ request[r] = "done"
  /\ MoveHold(-1)
  /\ request' = [request EXCEPT ![r] = IF held'[EnginePauseWg] < 0 THEN "idle" ELSE "lower"]
  /\ passed' = IF held'[EnginePauseWg] = 0 THEN {} ELSE passed
  /\ UNCHANGED <<IsEnginePaused, EnginePauseWg, CurrentRound, rounds, startVars, waitsOn,
                 inbox, closed, told, reset, panic, countVars, overlapped, crossed,
                 missed, dropped>>

LowerFlag(r) ==
  /\ request[r] = "lower"
  /\ IsEnginePaused' = FALSE
  /\ request' = [request EXCEPT ![r] = "idle"]
  /\ UNCHANGED <<EnginePauseWg, CurrentRound, rounds, held, startVars, loopVars, reset,
                 panic, countVars, historyVars>>

-----------------------------------------------------------------------------

Running == panic = "none"

StartStep ==
  \/ Load \/ LowerAtStart \/ MakeGroup \/ RaiseAtStart \/ HoldAtStart
  \/ Spawn \/ Subscribe \/ Return

LoopStep(g) ==
  \/ EnterWait(g) \/ LeaveWait(g) \/ ReadMessage(g) \/ ReadClosed(g)
  \/ OpenRound(g) \/ QuitRound(g) \/ EndRound(g) \/ CountRound(g) \/ WakeUp(g)

ResetStep == PublishReset \/ ResetNumber

RequestStep(r) == AddHold(r) \/ RaiseFlag(r) \/ ReleaseHold(r) \/ LowerFlag(r)

Next ==
  \/ Running /\ StartStep
  \/ \E g \in Gen : Running /\ (LoopStep(g) \/ CloseChannel(g))
  \/ Running /\ (ResetTables \/ ResetStep)
  \/ \E r \in Request : Running /\ (BeginRequest(r) \/ RequestStep(r))

Spec == Init /\ [][Next]_vars

\* Every goroutine that can go on does, the client's that close a channel
\* included. Nobody has to reset, pause or resume.
FairSpec ==
  /\ Spec
  /\ WF_vars(Running /\ StartStep)
  /\ \A g \in Gen : WF_vars(Running /\ LoopStep(g)) /\ WF_vars(Running /\ CloseChannel(g))
  /\ WF_vars(Running /\ ResetStep)
  /\ \A r \in Request : WF_vars(Running /\ RequestStep(r))

-----------------------------------------------------------------------------
(* Properties *)

LoopStates ==
  {"none", "top", "blocked", "released", "choosing", "round", "counting", "sleeping", "gone"}

RequestStates == {"idle", "add", "raise", "done", "lower"}

Messages == {"reset", "round_finish"}

TypeOK ==
  /\ IsEnginePaused \in BOOLEAN /\ EnginePauseWg \in 0 .. MaxStarts
  /\ CurrentRound \in Nat /\ rounds \subseteq Nat \ {0}
  /\ CurrentRound = 0 => gen = 1 /\ main = "loading"
  /\ held \in [Gen -> Int]
  /\ main \in {"loading", "arming", "grouping", "raising", "holding", "spawning",
               "subscribing", "waiting"}
  /\ gen \in Gen /\ heard \in BOOLEAN
  /\ loop \in [Gen -> LoopStates]
  /\ waitsOn \in [Gen -> 0 .. MaxStarts]
  /\ inbox \in [Gen -> Seq(Messages)]
  /\ closed \in [Gen -> BOOLEAN] /\ told \in [Gen -> BOOLEAN]
  /\ reset \in {"idle", "truncated", "published"}
  /\ request \in [Request -> RequestStates]
  /\ panic \in {"none", "closed", "reused"}
  /\ overlapped \in BOOLEAN /\ crossed \in BOOLEAN
  /\ missed \in BOOLEAN /\ dropped \in BOOLEAN /\ passed \subseteq Gen
  /\ resets \in Nat /\ opens \in Nat /\ requests \in Nat

Opens(g) == loop[g] = "choosing" /\ loop'[g] = "round"

\* While the engine is held only a loop that was past its wait already opens a
\* round, and only one: a loop that a reset replaced is held by the new wait
\* group too, whenever it wakes up (engine.go:103-109, engine.go:128).
PauseHolds ==
  [][\A g \in Gen : Opens(g) /\ held[EnginePauseWg] > 0 => g \in passed]_vars

\* A loop that a reset replaced ends, or stays blocked on a pause, and does not
\* take the process with it, as long as its reset was delivered before its
\* subscription was closed (engine.go:120, engine.go:130-138).
StaleLoopsEnd ==
  \A g \in Gen : g < gen ~> (loop[g] \in {"gone", "blocked"} \/ dropped \/ panic = "reused")

\* Outside a request the flag tells whether the loop is held, across resets too:
\* the next request to pause or resume does what it says (engine.go:101-107,
\* engine.go:288-300).
FlagTellsHold ==
  (~overlapped /\ EnginePauseWg # 0 /\ ~Arming /\ \A r \in Request : request[r] = "idle") =>
    held[EnginePauseWg] = (IF IsEnginePaused THEN 1 ELSE 0)

\* Unless a reset crosses a round or a start, the engine is at no number that
\* is saved: Start's number and ResetScores' number fit the truncated table
\* (engine.go:79-83, engine.go:324, db.go:151-155).
NumberIsNewAfterReset ==
  (~crossed /\ \A g \in Gen : loop[g] # "counting") => \A r \in rounds : r < CurrentRound

\* An engine that is not paused opens rounds: its last loop always comes to
\* one, unless it is paused, replaced or panics meanwhile (or the bound on
\* rounds is met) (engine.go:103, engine.go:128, engine.go:295-300).
UnpausedRuns ==
  (loop[gen] = "top" /\ ~IsEnginePaused) ~>
    (loop[gen] = "round" \/ IsEnginePaused \/ overlapped \/ ~Running \/ missed
       \/ main # "waiting" \/ opens = MaxOpens)

\* The comment in waitForReset (engine.go:173-176): on a reset "the engine will
\* be reset and the loop will start again".
ResetStartsLoopAgain ==
  (reset = "published") ~> (~Running \/ opens = MaxOpens \/ gen = MaxStarts
                              \/ loop[gen] \in {"top", "blocked", "choosing", "round"})

=============================================================================
