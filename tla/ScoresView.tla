----------------------------- MODULE ScoresView -----------------------------
(***************************************************************************)
(* What the score graph shows: the materialized view of cumulative points, *)
(* its refreshes and the series GetServiceCheckSumByRound builds from view *)
(* and SLA rows (engine/db/servicechecks.go, engine/db/db.go, engine.go).  *)
(*                                                                         *)
(* A saved round spawns a refresh unless one is under way; then its points *)
(* wait for a later round.  A refresh reads the check table as it is when  *)
(* it begins, and PostgreSQL's locks keep a TRUNCATE of that table, and    *)
(* any other refresh, waiting until it has ended.                          *)
(*                                                                         *)
(* A team has a row of a round, or none when its results were left out,    *)
(* and earned a point with it or not: a row is the pair of round and team. *)
(***************************************************************************)
EXTENDS Integers, FiniteSets, Functions

CONSTANTS
  ViewTeam,      \* teams
  SlaPenalty,    \* the penalty of an SLA row
  MaxViewRound,  \* bound: round numbers
  MaxViewEvents  \* bound: resets, crashes and failing refreshes together

ASSUME ViewAssumption ==
  /\ SlaPenalty \in Nat /\ MaxViewRound \in Nat \ {0} /\ MaxViewEvents \in Nat
  /\ IsFiniteSet(ViewTeam)

VARIABLES
  roundRows, checkRows,  \* rounds, and pairs of round and team, in the database
  earned, charged,       \* the pairs with a point, and those with an SLA row
  view,                  \* cumulative_scores: the points of the pairs in it
  roundNo,               \* CurrentRound
  saving,                \* processCollectedResults: "no", "saved", "charged"
  refreshing,            \* the flag that keeps a second refresh away
  refresh, snapshot,     \* the refresh goroutine, and the view it computes
  zeroing,               \* ResetScores: "no", "truncated", "refreshed"
  behind,                \* a refresh was skipped or failed (history)
  viewEvents

tableVars == <<roundRows, checkRows, earned, charged>>

refreshVars == <<refreshing, refresh, snapshot>>

viewVars == <<tableVars, view, roundNo, saving, refreshVars, zeroing, behind, viewEvents>>

-----------------------------------------------------------------------------

RoundNo == 1 .. MaxViewRound

Entry == RoundNo \X ViewTeam

ViewEvent == viewEvents < MaxViewEvents /\ viewEvents' = viewEvents + 1

\* The pairs of a set that are of the team of k, and not after it.
UpTo(set, k) == {e \in set : e[2] = k[2] /\ e[1] <= k[1]}

\* The query of the view.
Cumulative == [k \in checkRows |-> Cardinality(UpTo(earned, k))]

NoEntries == [k \in {} |-> 0]

\* ResetScores refreshes the view that TRUNCATE left as it was.
KeptView == view
ViewAfterReset == Cumulative

\* What a refresh leaves in the flag when it ends, failing or not.
FlagLeftUp == TRUE
FlagAfterRefresh == FALSE

LastRound == IF roundRows = {} THEN 0
             ELSE CHOOSE n \in roundRows : \A m \in roundRows : m <= n

\* A penalty is taken off the entry of its round and all that follow.
OnlyItsRound(row, k) == row = k
TakenOff(row, k) == row[2] = k[2] /\ row[1] <= k[1]

ShownEntries == {e \in Entry : e[1] <= LastRound}

\* One iteration over the penalties: an entry that is not there is made, of
\* nothing.
TakeOff(series, row) ==
  [k \in DOMAIN series \cup {e \in ShownEntries : TakenOff(row, e)} |->
     (IF k \in DOMAIN series THEN series[k] ELSE 0) - (IF TakenOff(row, k) THEN SlaPenalty ELSE 0)]

\* GetServiceCheckSumByRound: the entries of the view, less the penalties, one
\* row after the other.
ScoreSeries(rows) ==
  LET after[n \in 0 .. Cardinality(charged)] ==
        IF n = 0 THEN [k \in ShownEntries \cap DOMAIN view |-> view[k]]
        ELSE TakeOff(after[n - 1], rows[n])
  IN  after[Cardinality(charged)]

\* The query groups the penalties and asks for no order of the groups.
Orders(set) == Bijection(1 .. Cardinality(set), set)

ViewInit ==
  /\ roundRows = {} /\ checkRows = {} /\ earned = {} /\ charged = {}
  /\ view = NoEntries /\ roundNo = 1 /\ saving = "no"
  /\ refreshing = FALSE /\ refresh = "idle" /\ snapshot = NoEntries
  /\ zeroing = "no" /\ behind = FALSE /\ viewEvents = 0

-----------------------------------------------------------------------------
(* The engine *)

NextRound == roundNo' = IF roundNo < MaxViewRound THEN roundNo + 1 ELSE roundNo

\* CreateRound; a number that is taken is an error and saves nothing, nor does
\* a round without results.
SaveScores ==
  /\ saving = "no"
  /\ \/ /\ roundNo \notin roundRows
        /\ roundRows' = roundRows \cup {roundNo} /\ saving' = "saved"
        /\ \E here \in (SUBSET ViewTeam) \ {{}} : \E passed \in SUBSET here :
             /\ checkRows' = checkRows \cup {roundNo} \X here
             /\ earned' = earned \cup {roundNo} \X passed
        /\ UNCHANGED roundNo
     \/ roundNo < MaxViewRound /\ NextRound /\ UNCHANGED <<roundRows, checkRows, earned, saving>>
  /\ UNCHANGED <<charged, view, refreshVars, zeroing, behind, viewEvents>>

\* The SLA rows of the round; their foreign key refuses them when a reset took
\* the round away.
ChargePenalties ==
  /\ saving = "saved"
  /\ saving' = "charged"
  /\ \E some \in SUBSET ViewTeam :
       charged' = charged \cup (roundRows \cap {roundNo}) \X some
  /\ UNCHANGED <<roundRows, checkRows, earned, view, roundNo, refreshVars, zeroing, behind,
                 viewEvents>>

\* CompareAndSwap: spawn a refresh, or go on without.
SpawnRefresh ==
  /\ saving = "charged"
  /\ saving' = "no" /\ NextRound
  /\ IF refreshing
       THEN behind' = TRUE /\ UNCHANGED <<refreshing, refresh>>
       ELSE refreshing' = TRUE /\ refresh' = "spawned" /\ UNCHANGED behind
  /\ UNCHANGED <<tableVars, view, snapshot, zeroing, viewEvents>>

BeginRefresh ==
  /\ refresh = "spawned"
  /\ refresh' = "reading" /\ snapshot' = Cumulative /\ behind' = FALSE
  /\ UNCHANGED <<tableVars, view, roundNo, saving, refreshing, zeroing, viewEvents>>

\* It replaces the view and clears the flag; a failing one only the latter.
EndRefresh ==
  /\ refresh = "reading"
  /\ refresh' = "idle" /\ refreshing' = FlagAfterRefresh /\ snapshot' = NoEntries
  /\ \/ view' = snapshot /\ UNCHANGED <<behind, viewEvents>>
     \/ ViewEvent /\ behind' = TRUE /\ UNCHANGED view
  /\ UNCHANGED <<tableVars, roundNo, saving, zeroing>>

-----------------------------------------------------------------------------
(* ResetScores and Connect *)

TruncateScores ==
  /\ zeroing = "no" /\ refresh # "reading" /\ ViewEvent
  /\ zeroing' = "truncated"
  /\ roundRows' = {} /\ checkRows' = {} /\ earned' = {} /\ charged' = {}
  /\ UNCHANGED <<view, roundNo, saving, refreshVars, behind>>

\* A refresh that fails ends the reset: the round number stays.
RefreshInReset ==
  /\ zeroing = "truncated" /\ refresh # "reading"
  /\ \/ zeroing' = "refreshed" /\ view' = ViewAfterReset /\ UNCHANGED <<behind, viewEvents>>
     \/ zeroing' = "no" /\ ViewEvent /\ behind' = TRUE /\ UNCHANGED view
  /\ UNCHANGED <<tableVars, roundNo, saving, refreshVars>>

\* The loop drops the round it was in, or saves it under the first number.
FirstRoundAgain ==
  /\ zeroing = "refreshed"
  /\ zeroing' = "no" /\ roundNo' = 1
  /\ UNCHANGED <<tableVars, view, saving, refreshVars, behind, viewEvents>>

\* A crash, and Connect's refresh at the next start.
ViewRestart ==
  /\ ViewEvent
  /\ saving' = "no" /\ refreshing' = FALSE /\ refresh' = "idle" /\ snapshot' = NoEntries
  /\ zeroing' = "no" /\ behind' = FALSE
  /\ view' = Cumulative
  /\ roundNo' = IF LastRound < MaxViewRound THEN LastRound + 1 ELSE MaxViewRound
  /\ UNCHANGED tableVars

ViewNext ==
  \/ SaveScores \/ ChargePenalties \/ SpawnRefresh \/ BeginRefresh \/ EndRefresh
  \/ TruncateScores \/ RefreshInReset \/ FirstRoundAgain \/ ViewRestart

ViewSpec == ViewInit /\ [][ViewNext]_viewVars

-----------------------------------------------------------------------------
(* Properties *)

ViewTypeOK ==
  /\ roundRows \subseteq RoundNo /\ roundNo \in RoundNo
  /\ checkRows \subseteq roundRows \X ViewTeam
  /\ earned \subseteq checkRows /\ charged \subseteq roundRows \X ViewTeam
  /\ DOMAIN view \subseteq Entry /\ DOMAIN snapshot \subseteq Entry
  /\ (refresh # "idle") = refreshing

\* Nothing is in the middle of changing the scores.
ScoresAtRest == saving = "no" /\ refresh = "idle" /\ zeroing = "no"

\* With nothing under way, the series has an entry for every row there is, and
\* it is what the team earned up to that round less what it was charged; and
\* the view holds nothing of before a reset. Only a refresh that was skipped
\* or failed, with none since, lets the graph stay behind (servicechecks.go:
\* 45-127, engine.go:618-629, db.go:151-163).
SeriesIsScore ==
  ScoresAtRest /\ ~behind =>
    /\ DOMAIN view = checkRows
    /\ \A rows \in Orders(charged) : \A k \in checkRows :
         /\ k \in DOMAIN ScoreSeries(rows)
         /\ ScoreSeries(rows)[k] = Cardinality(UpTo(earned, k))
                                     - SlaPenalty * Cardinality(UpTo(charged, k))

=============================================================================
