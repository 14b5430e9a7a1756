---------------------------- MODULE ScoreLedger ----------------------------
(***************************************************************************)
(* What the engine keeps of the rounds it saved: the check rows and the    *)
(* SLA rows of the database, and the two maps in memory that are derived   *)
(* from them, UptimePerService and SlaPerService (engine/engine.go).       *)
(*                                                                         *)
(* processCollectedResults commits the check rows of a round first and     *)
(* then, in a second step under uptimeMu, counts them one by one in the    *)
(* maps, inserting an SLA row each time a pair completes SlaThreshold      *)
(* consecutive failures.  A crash between the two loses the second; Start  *)
(* rebuilds the maps from the check rows.  ResetScores, called by the web  *)
(* server at any time, empties tables and maps in steps of its own, and    *)
(* Start runs again beside its last ones.                                  *)
(*                                                                         *)
(* A missing map entry is a zero, as in the code.  Where the rows of a     *)
(* round come from is RoundEngine's subject: here a round is any short     *)
(* sequence of checks, two of one pair included (RoundEngine shows that a  *)
(* round opened twice can be saved so).  Scans of the check table return   *)
(* the rows in the order of their insertion: LoadSLAs asks for no order.   *)
(***************************************************************************)
EXTENDS Integers, Sequences, FiniteSets

CONSTANTS
  Pair,         \* the (team, service) pairs
  Threshold,    \* MiscSettings.SlaThreshold
  MaxRound,     \* bound: checks in a round
  MaxChecks,    \* bound: check rows ever saved
  MaxRestarts,  \* bound: crashes of the server process
  MaxResets,    \* bound: calls of ResetScores
  MaxFaults     \* bound: failing CreateSLA and Redis calls

ASSUME ThresholdAssumption == Threshold \in Nat \ {0}

ASSUME LedgerBoundsAssumption ==
  {MaxRound, MaxChecks, MaxRestarts, MaxResets, MaxFaults} \subseteq Nat

VARIABLES
  \* the database
  checks,   \* the rows of service_check_schemas, in the order of insertion
  slas,     \* how many rows of sla_schemas each pair has
  \* the server process
  pc,       \* processCollectedResults: "round" (not in it), "saved", "locked"
  batch,    \* the results of the saved round not yet counted in the maps
  inDb,     \* a round of the number CurrentRound is in the database: theirs
  uptime, sla,
  wipe,     \* ResetScores: "no", "truncated", "published", "uptimes wiped"
  reload,   \* Start after a reset: "no", "uptimes", "slas"
  \* history, read by no guard but the bounds'
  mixed,    \* a reset overlapped a round's processing, or stopped half-way
  unpaid,   \* pairs a failed insert or a crash may have cost an SLA row
  saved, restarts, resets, faults

dbVars    == <<checks, slas>>
roundVars == <<pc, batch, inDb>>
mapVars   == <<uptime, sla>>
resetVars == <<wipe, reload>>
histVars  == <<mixed, unpaid, saved, restarts, resets, faults>>

vars == <<dbVars, roundVars, mapVars, resetVars, histVars>>

-----------------------------------------------------------------------------

\* ServiceCheckSchema, and the part of checks.Result it is made from.
Check == [pair : Pair, ok : BOOLEAN]

Round == UNION {[1 .. n -> Check] : n \in 1 .. MaxRound}

Fault == faults < MaxFaults /\ faults' = faults + 1

Of(s, p) == {i \in DOMAIN s : s[i].pair = p}

PassedOf(s, p) == {i \in Of(s, p) : s[i].ok}

\* The failures of p after its last success.
StreakOf(s, p) == {i \in Of(s, p) : \A j \in Of(s, p) : j >= i => ~s[j].ok}

\* One group of LoadUptimes' GROUP BY.
UptimeOf(s, p) ==
  [passed |-> Cardinality(PassedOf(s, p)), total |-> Cardinality(Of(s, p))]

NoUptime == [p \in Pair |-> [passed |-> 0, total |-> 0]]
NoSla    == [p \in Pair |-> 0]

\* LoadUptimes into a map: pairs without a row keep what the map has.
LoadNoUptimes(old) == old
LoadUptimes(old) ==
  [p \in Pair |-> IF Of(checks, p) = {} THEN old[p] ELSE UptimeOf(checks, p)]

\* LoadSLAs into a map: it goes on counting from what the map has, modulo the
\* threshold, and a success sets the counter to zero.
LoadSLAsUnbounded(old) ==
  [p \in Pair |-> (IF PassedOf(checks, p) = {} THEN old[p] ELSE 0)
                    + Cardinality(StreakOf(checks, p))]
LoadSLAs(old) ==
  [p \in Pair |->
     IF Of(checks, p) = {} THEN old[p]
     ELSE ((IF PassedOf(checks, p) = {} THEN old[p] ELSE 0)
             + Cardinality(StreakOf(checks, p))) % Threshold]

Resetting == wipe # "no" \/ reload # "no"

\* One more failure of p reaches the threshold.
CompletesLate(p) == sla[p] + 1 > Threshold
Completes(p) == sla[p] + 1 >= Threshold

-----------------------------------------------------------------------------
(* The engine loop: processCollectedResults *)

Init ==
  /\ checks = <<>> /\ slas = NoSla
  /\ pc = "round" /\ batch = <<>> /\ inDb = FALSE
  /\ uptime = NoUptime /\ sla = NoSla
  /\ wipe = "no" /\ reload = "no"
  /\ mixed = FALSE /\ unpaid = {}
  /\ saved = 0 /\ restarts = 0 /\ resets = 0 /\ faults = 0

\* CreateRound commits the round and its checks. If it fails nothing changes.
SaveRound(results) ==
  /\ pc = "round" /\ saved + Len(results) <= MaxChecks
  /\ pc' = "saved" /\ batch' = results /\ inDb' = TRUE
  /\ checks' = checks \o results /\ saved' = saved + Len(results)
  /\ mixed' = (mixed \/ Resetting)
  /\ UNCHANGED <<slas, mapVars, resetVars, unpaid, restarts, resets, faults>>

Lock ==
  /\ pc = "saved"
  /\ pc' = "locked"
  /\ UNCHANGED <<dbVars, batch, inDb, mapVars, resetVars, histVars>>

\* The part of an iteration that counts a check, whatever its result.
CountCheck(c) ==
  /\ pc = "locked" /\ batch # <<>> /\ c = Head(batch)
  /\ batch' = Tail(batch)
  /\ uptime' = [uptime EXCEPT
                  ![c.pair].passed = IF c.ok THEN @ + 1 ELSE @,
                  ![c.pair].total  = @ + 1]
  /\ UNCHANGED <<checks, pc, inDb, resetVars, mixed, saved, restarts, resets>>

ApplySuccess(c) ==
  /\ CountCheck(c) /\ c.ok
  /\ sla' = [sla EXCEPT ![c.pair] = 0]
  /\ UNCHANGED <<slas, unpaid, faults>>

ApplyFailure(c) ==
  /\ CountCheck(c) /\ ~c.ok /\ ~Completes(c.pair)
  /\ sla' = [sla EXCEPT ![c.pair] = @ + 1]
  /\ UNCHANGED <<slas, unpaid, faults>>

\* The failure completes a streak: CreateSLA, and the counter starts again.
ApplyViolation(c) ==
  /\ CountCheck(c) /\ ~c.ok /\ Completes(c.pair) /\ inDb
  /\ slas' = [slas EXCEPT ![c.pair] = @ + 1]
  /\ sla' = [sla EXCEPT ![c.pair] = 0]
  /\ UNCHANGED <<unpaid, faults>>

\* CreateSLA fails, always when no round has the number CurrentRound, which it
\* reads once more (a foreign key): the error is logged and the counter starts again all the same.
ApplyViolationFails(c) ==
  /\ CountCheck(c) /\ ~c.ok /\ Completes(c.pair)
  /\ IF inDb THEN Fault ELSE UNCHANGED faults
  /\ sla' = [sla EXCEPT ![c.pair] = 0]
  /\ unpaid' = unpaid \cup {c.pair}
  /\ UNCHANGED slas

Unlock ==
  /\ pc = "locked" /\ batch = <<>>
  /\ pc' = "round"
  /\ UNCHANGED <<dbVars, batch, inDb, mapVars, resetVars, histVars>>

\* The process dies and Start() loads both maps from the database.
Restart ==
  /\ restarts < MaxRestarts /\ restarts' = restarts + 1
  /\ pc' = "round" /\ batch' = <<>> /\ inDb' = FALSE
  /\ uptime' = LoadUptimes(NoUptime)
  /\ sla' = LoadSLAs(NoSla)
  /\ wipe' = "no" /\ reload' = "no"
  /\ unpaid' = unpaid \cup {batch[i].pair : i \in DOMAIN batch}
  /\ UNCHANGED <<dbVars, mixed, saved, resets, faults>>

-----------------------------------------------------------------------------
(* The web server: ResetScores, and Start once more *)

\* The tables are truncated.
ResetTables ==
  /\ wipe = "no" /\ resets < MaxResets /\ resets' = resets + 1
  /\ checks' = <<>> /\ slas' = NoSla
  /\ inDb' = FALSE
  /\ wipe' = "truncated"
  /\ mixed' = (mixed \/ pc # "round" \/ Resetting) /\ unpaid' = {}
  /\ UNCHANGED <<pc, batch, mapVars, reload, saved, restarts, faults>>

\* A later statement fails and ResetScores returns its error.
ResetAborts ==
  /\ wipe = "truncated"
  /\ Fault
  /\ wipe' = "no"
  /\ mixed' = TRUE
  /\ UNCHANGED <<dbVars, roundVars, mapVars, reload, unpaid, saved, restarts, resets>>

\* The queues are deleted and the reset published: Start, waiting for it,
\* returns and is called again.
PublishReset ==
  /\ wipe = "truncated"
  /\ wipe' = "published"
  /\ reload' = IF reload = "no" THEN "uptimes" ELSE reload
  /\ UNCHANGED <<dbVars, roundVars, mapVars, histVars>>

\* ResetScores sets CurrentRound to 1, Start to the number after the last round:
\* neither need be that of the round whose results are being counted.
Renumber ==
  /\ wipe = "published" \/ reload = "uptimes"
  /\ batch # <<>> /\ inDb /\ inDb' = FALSE
  /\ UNCHANGED <<dbVars, pc, batch, mapVars, resetVars, histVars>>

WipeUptimes ==
  /\ wipe = "published" /\ pc # "locked"
  /\ uptime' = NoUptime
  /\ wipe' = "uptimes wiped"
  /\ UNCHANGED <<dbVars, roundVars, sla, reload, histVars>>

\* Without the lock: the processing of a round may be half-way.
WipeSlas ==
  /\ wipe = "uptimes wiped"
  /\ sla' = NoSla
  /\ wipe' = "no"
  /\ UNCHANGED <<dbVars, roundVars, uptime, reload, histVars>>

ReloadUptimes ==
  /\ reload = "uptimes" /\ pc # "locked"
  /\ uptime' = LoadUptimes(uptime)
  /\ reload' = "slas"
  /\ UNCHANGED <<dbVars, roundVars, sla, wipe, histVars>>

ReloadSlas ==
  /\ reload = "slas"
  /\ sla' = LoadSLAs(sla)
  /\ reload' = "no"
  /\ UNCHANGED <<dbVars, roundVars, uptime, wipe, histVars>>

-----------------------------------------------------------------------------

Next ==
  \/ \E results \in Round : SaveRound(results)
  \/ Lock
  \/ \E c \in Check : ApplySuccess(c)
  \/ \E c \in Check : ApplyFailure(c)
  \/ \E c \in Check : ApplyViolation(c)
  \/ \E c \in Check : ApplyViolationFails(c)
  \/ Unlock
  \/ Restart
  \/ ResetTables
  \/ ResetAborts
  \/ PublishReset
  \/ Renumber
  \/ WipeUptimes
  \/ WipeSlas
  \/ ReloadUptimes
  \/ ReloadSlas

Spec == Init /\ [][Next]_vars

-----------------------------------------------------------------------------
(* Properties *)

TypeOK ==
  /\ checks \in Seq(Check) /\ slas \in [Pair -> Nat]
  /\ pc \in {"round", "saved", "locked"}
  /\ batch \in Seq(Check) /\ inDb \in BOOLEAN
  /\ uptime \in [Pair -> [passed : Nat, total : Nat]]
  /\ sla \in [Pair -> 0 .. Threshold - 1]
  /\ wipe \in {"no", "truncated", "published", "uptimes wiped"}
  /\ reload \in {"no", "uptimes", "slas"}
  /\ mixed \in BOOLEAN /\ unpaid \in SUBSET Pair
  /\ saved \in Nat /\ restarts \in Nat /\ resets \in Nat /\ faults \in Nat

\* The rows counted so far: all but those of the batch.
Counted == SubSeq(checks, 1, Len(checks) - Len(batch))

\* No reset is going on, and none has met the processing of a round.
Calm == ~mixed /\ ~Resetting

\* The uptimes shown are those of the rows counted, through any interleaving
\* of rounds, crashes and resets that miss the processing of a round
\* (engine.go:574-588 against LoadUptimes, db/servicechecks.go:147-180).
UptimeIsHistory ==
  Calm => \A p \in Pair : uptime[p] = UptimeOf(Counted, p)

\* The counter of a pair is its current streak modulo the threshold, the same
\* after any restart: the live counter (engine.go:596-611) and LoadSLAs, which
\* computes it from the rows (db/servicechecks.go:298-302), agree.
CounterIsStreak ==
  Calm => \A p \in Pair : sla[p] = Cardinality(StreakOf(Counted, p)) % Threshold

\* The failures that complete a threshold for the first, second, ... time in a
\* streak of p.
ViolationsOf(s, p) ==
  {i \in Of(s, p) : /\ ~s[i].ok
                    /\ Cardinality(StreakOf(SubSeq(s, 1, i), p)) % Threshold = 0}

\* A pair has one SLA row per Threshold consecutive failures, never more, and
\* fewer only if an insert failed or the process died before the insert.
PenaltyPerViolation ==
  Calm => \A p \in Pair :
            LET due == Cardinality(ViolationsOf(Counted, p)) IN
              slas[p] <= due /\ (p \notin unpaid => slas[p] = due)

\* LoadSLAs' loop over the rows, for one pair: its counter after the first,
\* the second, ... the last of them.
CountRows(old, s, p) ==
  LET count[n \in 0 .. Len(s)] ==
        IF n = 0 THEN old
        ELSE IF s[n].pair # p THEN count[n - 1]
        ELSE IF s[n].ok THEN 0
        ELSE (count[n - 1] + 1) % Threshold
  IN  count[Len(s)]

\* LoadSLAs computes what the loop over the rows computes, whatever the map
\* held before (db/servicechecks.go:286-303).
LoadSLAsIsTheLoop ==
  pc = "round" => \A old \in 0 .. Threshold - 1 : \A p \in Pair :
    LoadSLAs([q \in Pair |-> old])[p] = CountRows(old, checks, p)

\* The comment on ResetScores (engine.go:302): it "resets the engine to the
\* initial state". Once a reset is over and no round has been saved, nothing
\* is left in the maps.
ResetClears ==
  (resets > 0 /\ ~Resetting /\ pc = "round" /\ checks = <<>>) =>
    uptime = NoUptime /\ sla = NoSla

=============================================================================
