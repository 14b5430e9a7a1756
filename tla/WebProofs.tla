----------------------------- MODULE WebProofs -----------------------------
(***************************************************************************)
(* Proofs about the two small components of MCWeb, ConfigReload, for any   *)
(* contents of the file and any number of reloads and changes, and         *)
(* ScoresView, for any teams, penalty, rounds, resets and crashes, and     *)
(* about all four side by side, with the theorems of CredentialsProofs and *)
(* InjectsProofs.                                                          *)
(*                                                                         *)
(* RoundOutlastsChecks needs that the settings in use were accepted        *)
(* (InUse) and how far the round's length has come (Planned).              *)
(* QuietIsCurrent needs to know who still has to bring the file: an event, *)
(* the timer, a reload that has not read, or one that has read this very   *)
(* file (Coming), and that whoever has read another one is followed by     *)
(* such a reload (Followed).                                               *)
(*                                                                         *)
(* SeriesIsScore needs the same of the view: unless it is behind, the view *)
(* holds the points of the tables, or a refresh that reads has got them,   *)
(* or one is to come, of a round being saved, spawned or of the reset      *)
(* (Shown).  That the series ends at a last round at all is HasLast.  What *)
(* the loop over the penalties makes of the view is Series, by induction.  *)
(***************************************************************************)
EXTENDS MCWeb, CredentialsProofs, InjectsProofs

-----------------------------------------------------------------------------
(* ConfigReload: what its parts promise one another *)

Settings == [delay : Nat, jitter : Nat, timeout : Nat]

\* checkConfig would accept the settings in use.
InUse == conf \in Settings /\ conf.timeout < conf.delay - conf.jitter

\* The length of the round, as far as it is planned with one configuration.
Planned ==
  /\ plan = [at |-> plan.at, length |-> plan.length, mixed |-> plan.mixed]
  /\ plan.at \in {"jitter", "less", "delay", "checks"} /\ plan.length \in Int
  /\ plan.at = "jitter" => ~plan.mixed
  /\ ~plan.mixed =>
       /\ plan.at = "less" => plan.length >= 0
       /\ plan.at = "delay" => plan.length >= -conf.jitter
       /\ plan.at = "checks" => plan.length >= conf.delay - conf.jitter

\* Two events at most for a change.
FewEvents ==
  /\ changes \in Nat /\ changes <= MaxChanges /\ events \in Nat
  /\ events <= 2 * changes
  /\ halfWritten => events + 1 <= 2 * changes

ReloadOK ==
  /\ reload \in [Reload -> [at : {"idle", "started", "read"}, got : Content \cup {Garbled}]]
  /\ \A r \in Reload : reload[r].at = "idle" => reload[r] = Idle

\* Reloads that did not cross are alone.
Alone == ~crossed => \A q, r \in Loading : q = r

\* A reload is to come that has not read the file yet.
Ahead == events > 0 \/ timer = "running"

Coming == (~unheard /\ ~crossed) =>
  \/ Ahead
  \/ \E r \in Reload : reload[r].at = "started"
  \/ \E r \in Reload : reload[r].at = "read" /\ reload[r].got = file
  \/ Accepted(file) => conf = Complete(file)

Followed == (~unheard /\ ~crossed) =>
  \A r \in Reload : reload[r].at = "read" /\ reload[r].got # file => Ahead

ConfInv ==
  /\ ConfTypeOK /\ InUse /\ Planned /\ FewEvents /\ ReloadOK
  /\ Alone /\ Coming /\ Followed

-----------------------------------------------------------------------------

\* The defaults are natural numbers, and what checkConfig accepts leaves the
\* checks less time than the shortest round.
LEMMA CompleteIsSettings ==
  ASSUME NEW c \in Content
  PROVE  /\ Complete(c) \in Settings
         /\ Accepted(c) => Complete(c).timeout < Complete(c).delay - Complete(c).jitter
<1>1. c \in [delay : Nat, jitter : Nat, timeout : Nat]
  BY ContentAssumption
<1>2. OrDefault(c.delay, 60) \in Nat /\ OrDefault(c.jitter, 5) \in Nat
  BY <1>1 DEF OrDefault
<1>3. OrDefault(c.timeout, OrDefault(c.delay, 60) \div 2) \in Nat
  BY <1>1, <1>2 DEF OrDefault
<1>4. Complete(c) \in Settings
  BY <1>2, <1>3 DEF Complete, Settings
<1>5. Accepted(c) => Complete(c).timeout < Complete(c).delay - Complete(c).jitter
  BY DEF Accepted
<1>6. QED
  BY <1>4, <1>5

\* NewEngine has accepted the file.
LEMMA ConfInvInit == ConfInit => ConfInv
<1> SUFFICES ASSUME ConfInit PROVE ConfInv
  OBVIOUS
<1> USE ContentAssumption DEF ConfInit
<1>1. file \in Content /\ Accepted(file) /\ conf = Complete(file)
  OBVIOUS
<1>2. InUse
  BY <1>1, CompleteIsSettings DEF InUse
<1>3. Planned /\ FewEvents
  <2>1. plan = NoPlan
    OBVIOUS
  <2>2. Planned
    BY <2>1 DEF Planned, NoPlan
  <2>3. FewEvents
    BY DEF FewEvents
  <2>4. QED
    BY <2>2, <2>3
<1>4. ReloadOK
  BY DEF ReloadOK, Idle
<1>5. Loading = {} /\ \A r \in Reload : reload[r].at = "idle"
  BY DEF Loading, Idle
<1>6. Alone /\ Coming /\ Followed
  BY <1>1, <1>5 DEF Alone, Coming, Followed
<1>7. ConfTypeOK
  BY <1>1, <1>3, <1>4 DEF ConfTypeOK, Planned, FewEvents, ReloadOK, NoPlan
<1>8. QED
  BY <1>2, <1>3, <1>4, <1>6, <1>7 DEF ConfInv

\* The settings in use, and the plan made with them.
LEMMA PlanStep == ConfInv /\ [ConfNext]_confVars => (InUse /\ Planned)'
<1> SUFFICES ASSUME ConfInv, [ConfNext]_confVars PROVE (InUse /\ Planned)'
  OBVIOUS
<1> USE DEF ConfInv
<1>1. CASE UNCHANGED <<conf, plan>>
  BY <1>1 DEF InUse, Planned
<1>2. CASE PlanRound
  <2>1. UNCHANGED conf /\ conf.jitter \in Nat /\ conf.delay \in Nat
    BY <1>2 DEF PlanRound, InUse, Settings
  <2>2. InUse'
    BY <2>1 DEF InUse
  <2>a. ASSUME NEW where, NEW length \in Int, PlanOn(where, length)
        PROVE  plan' = [at |-> where, length |-> length, mixed |-> plan.mixed]
    BY <2>a DEF Planned, PlanOn
  <2>3. CASE plan.at = "jitter" /\ \E n \in 0 .. 2 * conf.jitter - 1 : PlanOn("less", n)
    <3>1. PICK n \in 0 .. 2 * conf.jitter - 1 : PlanOn("less", n)
      BY <2>3
    <3>2. n \in Int /\ n >= 0
      BY <2>1
    <3>3. plan' = [at |-> "less", length |-> n, mixed |-> plan.mixed]
      BY <2>a, <3>1, <3>2
    <3>4. Planned'
      BY <3>2, <3>3 DEF Planned
    <3>5. QED
      BY <2>2, <3>4
  <2>4. CASE plan.at = "less" /\ PlanOn("delay", plan.length - conf.jitter)
    <3>1. plan.length \in Int /\ (~plan.mixed => plan.length >= 0)
      BY <2>4 DEF Planned
    <3>2. plan' = [at |-> "delay", length |-> plan.length - conf.jitter, mixed |-> plan.mixed]
      BY <2>a, <2>1, <2>4, <3>1
    <3>3. Planned'
      BY <2>1, <3>1, <3>2 DEF Planned
    <3>4. QED
      BY <2>2, <3>3
  <2>5. CASE plan.at = "delay" /\ PlanOn("checks", plan.length + conf.delay)
    <3>1. plan.length \in Int /\ (~plan.mixed => plan.length >= -conf.jitter)
      BY <2>5 DEF Planned
    <3>2. plan' = [at |-> "checks", length |-> plan.length + conf.delay, mixed |-> plan.mixed]
      BY <2>a, <2>1, <2>5, <3>1
    <3>3. Planned'
      BY <2>1, <3>1, <3>2 DEF Planned
    <3>4. QED
      BY <2>2, <3>3
  <2>6. CASE plan.at = "checks" /\ plan' = NoPlan
    BY <2>2, <2>6 DEF Planned, NoPlan
  <2>7. QED
    BY <1>2, <2>2, <2>3, <2>4, <2>5, <2>6 DEF PlanRound
<1>3. ASSUME NEW r \in Reload, SetConfig(r), Accepted(reload[r].got) PROVE (InUse /\ Planned)'
  <2>1. reload[r].got \in Content
    BY <1>3 DEF ReloadOK, Accepted
  <2>2. InUse'
    BY <1>3, <2>1, CompleteIsSettings DEF SetConfig, InUse
  <2>3. plan' = [plan EXCEPT !.mixed = plan.at # "jitter"]
    BY <1>3 DEF SetConfig
  <2>4. plan' = [at |-> plan.at, length |-> plan.length, mixed |-> plan.at # "jitter"]
    BY <2>3 DEF Planned
  <2>5. Planned'
    BY <2>4 DEF Planned
  <2>6. QED
    BY <2>2, <2>5
<1>4. QED
  BY <1>1, <1>2, <1>3 DEF ConfNext, confVars, BeginWrite, FinishWrite, ReplaceFile, WatchConfig,
     HearEvent, TimerFires, ReadFile, SetConfig

\* Changes, events and reloads keep their types.
LEMMA ConfTypeStep == ConfInv /\ [ConfNext]_confVars => (FewEvents /\ ReloadOK /\ ConfTypeOK)'
<1> SUFFICES ASSUME ConfInv, [ConfNext]_confVars PROVE (FewEvents /\ ReloadOK /\ ConfTypeOK)'
  OBVIOUS
<1> USE ContentAssumption DEF ConfInv
<1>1. FewEvents'
  <2>1. CASE BeginWrite
    BY <2>1 DEF BeginWrite, Change, WriteEvent, FewEvents
  <2>2. CASE FinishWrite
    BY <2>2 DEF FinishWrite, WriteEvent, FewEvents
  <2>3. CASE ReplaceFile
    BY <2>3 DEF ReplaceFile, Change, FewEvents
  <2>4. CASE HearEvent
    BY <2>4 DEF HearEvent, FewEvents
  <2>5. CASE UNCHANGED <<changes, events, halfWritten>>
    BY <2>5 DEF FewEvents
  <2>6. QED
    BY <2>1, <2>2, <2>3, <2>4, <2>5 DEF ConfNext, confVars, WatchConfig, PlanRound, TimerFires,
       ReadFile, SetConfig
<1>2. file' \in Content \cup {Garbled}
  BY DEF ConfNext, confVars, BeginWrite, FinishWrite, ReplaceFile, WatchConfig, HearEvent,
     PlanRound, TimerFires, ReadFile, SetConfig, ConfTypeOK
<1>3. ReloadOK'
  <2>1. ASSUME NEW r \in Reload, TimerFires(r) PROVE ReloadOK'
    BY <2>1 DEF TimerFires, ReloadOK, Idle
  <2>2. ASSUME NEW r \in Reload, ReadFile(r) PROVE ReloadOK'
    BY <2>2 DEF ReadFile, ReloadOK, Idle, ConfTypeOK
  <2>3. ASSUME NEW r \in Reload, SetConfig(r) PROVE ReloadOK'
    BY <2>3 DEF SetConfig, ReloadOK, Idle
  <2>4. CASE UNCHANGED reload
    BY <2>4 DEF ReloadOK
  <2>5. QED
    BY <2>1, <2>2, <2>3, <2>4 DEF ConfNext, confVars, BeginWrite, FinishWrite, ReplaceFile,
       WatchConfig, HearEvent, PlanRound
<1>4. conf' \in {Complete(c) : c \in Content}
  <2>1. ASSUME NEW r \in Reload, SetConfig(r), Accepted(reload[r].got)
        PROVE  conf' \in {Complete(c) : c \in Content}
    <3>1. reload[r].got \in Content
      BY <2>1 DEF ReloadOK, Accepted
    <3>2. QED
      BY <2>1, <3>1 DEF SetConfig
  <2>2. CASE UNCHANGED conf
    BY <2>2 DEF ConfTypeOK
  <2>3. QED
    BY <2>1, <2>2 DEF ConfNext, confVars, BeginWrite, FinishWrite, ReplaceFile, WatchConfig,
       HearEvent, PlanRound, TimerFires, ReadFile, SetConfig
<1>5. timer' \in {"none", "running", "fired"}
  BY DEF ConfNext, confVars, BeginWrite, FinishWrite, ReplaceFile, WatchConfig, HearEvent, Arms,
     PlanRound, TimerFires, ReadFile, SetConfig, ConfTypeOK
<1>6. events' \in 0 .. 2 * MaxChanges
  <2>1. /\ changes' \in Nat /\ changes' <= MaxChanges
        /\ events' \in Nat /\ events' <= 2 * changes'
    BY <1>1 DEF FewEvents
  <2>2. MaxChanges \in Nat
    BY ContentAssumption
  <2>3. ASSUME NEW a \in Nat, NEW b \in Nat, NEW m \in Nat, a <= 2 * b, b <= m
        PROVE  a \in 0 .. 2 * m
    BY <2>3
  <2>4. QED
    BY <2>1, <2>2, <2>3
<1>7. Planned'
  BY PlanStep
<1>8. QED
  BY <1>1, <1>2, <1>3, <1>4, <1>5, <1>6, <1>7 DEF ConfTypeOK, ReloadOK, Planned

\* Whatever the file holds has a reload to come, or has been loaded.
LEMMA ComingStep == ConfInv /\ [ConfNext]_confVars => (Alone /\ Coming /\ Followed)'
<1> SUFFICES ASSUME ConfInv, [ConfNext]_confVars PROVE (Alone /\ Coming /\ Followed)'
  OBVIOUS
<1> USE DEF ConfInv
<1>1. CASE BeginWrite \/ FinishWrite
  <2>1. ~unheard' => events' > 0
    <3>1. events \in Nat
      BY DEF FewEvents
    <3>2. CASE watching
      <4>1. WriteEvent
        BY <1>1 DEF BeginWrite, FinishWrite
      <4>2. events' = events + 1
        BY <3>2, <4>1 DEF WriteEvent
      <4>3. QED
        BY <3>1, <4>2
    <3>3. CASE ~watching
      <4>1. unheard' = ~watching
        BY <1>1 DEF BeginWrite, FinishWrite
      <4>2. unheard'
        BY <3>3, <4>1
      <4>3. QED
        BY <4>2
    <3>4. QED
      BY <3>2, <3>3
  <2>2. UNCHANGED <<reload, crossed>>
    BY <1>1 DEF BeginWrite, FinishWrite
  <2>3. QED
    BY <2>1, <2>2 DEF Alone, Coming, Followed, Ahead, Loading
<1>2. CASE ReplaceFile
  BY <1>2 DEF ReplaceFile, Alone, Coming, Followed, Loading
<1>3. CASE WatchConfig \/ PlanRound \/ UNCHANGED confVars
  BY <1>3 DEF WatchConfig, PlanRound, confVars, Alone, Coming, Followed, Ahead, Loading
<1>4. CASE HearEvent
  BY <1>4 DEF HearEvent, Arms, Alone, Coming, Followed, Ahead, Loading
<1>5. ASSUME NEW r \in Reload, TimerFires(r) PROVE (Alone /\ Coming /\ Followed)'
  <2>1. /\ reload'[r].at = "started" /\ reload[r].at = "idle"
        /\ \A q \in Reload : q # r => reload'[q] = reload[q]
    BY <1>5 DEF TimerFires, ReloadOK, Idle
  <2>2. ~crossed' => \A q \in Reload : q # r => reload'[q] = Idle
    BY <1>5, <2>1 DEF TimerFires, Loading
  <2>3. QED
    BY <2>1, <2>2 DEF Alone, Coming, Followed, Loading, Idle
<1>6. ASSUME NEW r \in Reload, ReadFile(r) PROVE (Alone /\ Coming /\ Followed)'
  <2>1. /\ reload[r].at = "started" /\ reload'[r] = [at |-> "read", got |-> file]
        /\ \A q \in Reload : q # r => reload'[q] = reload[q]
        /\ UNCHANGED <<file, conf, events, timer, unheard, crossed>>
    BY <1>6 DEF ReadFile, ReloadOK
  <2>2. Loading' = Loading
    BY <2>1 DEF Loading, Idle
  <2>3. QED
    BY <2>1, <2>2 DEF Alone, Coming, Followed, Ahead
<1>7. ASSUME NEW r \in Reload, SetConfig(r) PROVE (Alone /\ Coming /\ Followed)'
  <2>1. /\ reload[r].at = "read" /\ reload'[r] = Idle
        /\ \A q \in Reload : q # r => reload'[q] = reload[q]
        /\ UNCHANGED <<file, events, timer, unheard, crossed>>
    BY <1>7 DEF SetConfig, ReloadOK
  <2>2. Loading' \subseteq Loading /\ r \in Loading
    BY <2>1 DEF Loading, Idle
  <2>3. Alone' /\ Followed'
    BY <2>1, <2>2 DEF Alone, Followed, Ahead, Idle
  <2>4. ASSUME ~unheard, ~crossed, ~Ahead PROVE Accepted(file) => conf' = Complete(file)
    <3>1. reload[r].got = file
      BY <2>1, <2>4 DEF Followed
    <3>2. QED
      BY <1>7, <3>1 DEF SetConfig
  <2>5. Coming'
    BY <2>1, <2>4 DEF Coming, Ahead
  <2>6. QED
    BY <2>3, <2>5
<1>8. QED
  BY <1>1, <1>2, <1>3, <1>4, <1>5, <1>6, <1>7 DEF ConfNext

-----------------------------------------------------------------------------

\* The strengthened invariant is an invariant of the configuration.
LEMMA ConfInvHolds == ConfSpec => []ConfInv
<1>1. ConfInv /\ [ConfNext]_confVars => ConfInv'
  BY PlanStep, ConfTypeStep, ComingStep DEF ConfInv
<1>2. QED
  BY ConfInvInit, <1>1, PTL DEF ConfSpec

\* Every variable has its type; a change of the file makes two Write events at
\* most (config.go:174-209, watcher.go:37-68).
THEOREM ConfTypeCorrect == ConfSpec => []ConfTypeOK
<1>1. ConfInv => ConfTypeOK
  BY DEF ConfInv
<1>2. QED
  BY ConfInvHolds, <1>1, PTL

\* The checks of a round have less time than the round, for any configuration
\* that checkConfig accepts (config.go:288-324, engine.go:347-349).
THEOREM ChecksFitTheRound == ConfSpec => []RoundOutlastsChecks
<1>1. ConfInv => RoundOutlastsChecks
  BY DEF ConfInv, InUse, Planned, Settings, RoundOutlastsChecks
<1>2. QED
  BY ConfInvHolds, <1>1, PTL

\* What is written, heard and read is in use once the watcher rests
\* (watcher.go:37-68, config.go:174-209).
THEOREM RestIsCurrent == ConfSpec => []QuietIsCurrent
<1>1. ConfInv => QuietIsCurrent
  <2>1. SUFFICES ASSUME ConfInv, events = 0, timer # "running", Loading = {}, ~unheard, ~crossed,
                        Accepted(file)
                 PROVE  conf = Complete(file)
    BY DEF QuietIsCurrent
  <2>2. \A r \in Reload : reload[r].at = "idle"
    BY <2>1 DEF Loading, Idle
  <2>3. QED
    BY <2>1, <2>2 DEF ConfInv, Coming, Ahead
<1>2. QED
  BY ConfInvHolds, <1>1, PTL
-----------------------------------------------------------------------------
(* ScoresView *)

\* Where the points in the tables are, or who will bring them to the view.
Shown ==
  ~behind /\ saving = "no" /\ refresh # "spawned" =>
    IF refresh = "reading" THEN snapshot = Cumulative
    ELSE zeroing = "truncated" \/ view = Cumulative

HasLast == roundRows # {} => \E n \in roundRows : \A m \in roundRows : m <= n

ViewInv == ViewTypeOK /\ Shown /\ HasLast

\* A step that leaves the tables alone leaves the query's answer alone.
LEMMA SameTables ==
  ASSUME UNCHANGED tableVars
  PROVE  Cumulative' = Cumulative
BY DEF tableVars, Cumulative, UpTo

\* The view of empty tables is empty.
LEMMA NoTables ==
  ASSUME checkRows = {}
  PROVE  Cumulative = NoEntries
BY DEF Cumulative, NoEntries

\* No round is saved yet.
LEMMA ViewInvInit == ASSUME ViewInit PROVE ViewInv
<1>1. ViewTypeOK
  <2>1. roundNo \in RoundNo /\ DOMAIN NoEntries = {}
    BY ViewAssumption DEF ViewInit, NoEntries, RoundNo
  <2>2. QED
    BY <2>1 DEF ViewInit, ViewTypeOK
<1>2. Shown
  BY NoTables DEF ViewInit, Shown
<1>3. HasLast
  BY DEF ViewInit, HasLast
<1>4. QED
  BY <1>1, <1>2, <1>3 DEF ViewInv

\* The loop's number stays one of the numbers.
LEMMA NumberStays ==
  ASSUME ViewInv, NextRound
  PROVE  roundNo' \in RoundNo
BY ViewAssumption DEF ViewInv, ViewTypeOK, NextRound, RoundNo

\* The last round that GetLastRound finds.
LEMMA LastIsLast ==
  ASSUME ViewInv
  PROVE  /\ LastRound \in RoundNo \cup {0}
         /\ \A n \in roundRows : n <= LastRound
<1>1. CASE roundRows = {}
  BY <1>1 DEF LastRound
<1>2. CASE roundRows # {}
  <2>1. \E n \in roundRows : \A m \in roundRows : m <= n
    BY <1>2 DEF ViewInv, HasLast
  <2>2. LastRound = CHOOSE n \in roundRows : \A m \in roundRows : m <= n
    BY <1>2 DEF LastRound
  <2>3. LastRound \in roundRows /\ \A m \in roundRows : m <= LastRound
    BY <2>1, <2>2
  <2>4. QED
    BY <2>3 DEF ViewInv, ViewTypeOK
<1>3. QED
  BY <1>1, <1>2

\* A round's rows are of teams that are, and its points are of its rows.
LEMMA SaveScoresTypes ==
  ASSUME ViewInv, SaveScores
  PROVE  /\ roundRows' \subseteq RoundNo /\ roundNo' \in RoundNo
         /\ checkRows' \subseteq roundRows' \X ViewTeam
         /\ earned' \subseteq checkRows' /\ charged' \subseteq roundRows' \X ViewTeam
<1> USE DEF ViewInv, ViewTypeOK
<1>1. CASE saving' = "saved"
  <2>1. PICK here \in SUBSET ViewTeam : \E passed \in SUBSET here :
          /\ checkRows' = checkRows \cup {roundNo} \X here
          /\ earned' = earned \cup {roundNo} \X passed
    BY <1>1 DEF SaveScores
  <2>2. UNCHANGED <<roundNo, charged>> /\ roundRows' = roundRows \cup {roundNo}
    BY <1>1 DEF SaveScores
  <2>3. QED
    BY <1>1, <2>1, <2>2
<1>2. CASE UNCHANGED <<roundRows, checkRows, earned>>
  BY <1>2, NumberStays DEF SaveScores
<1>3. QED
  BY <1>1, <1>2 DEF SaveScores

\* Every step keeps the types, the flag and the goroutine of the refresh included.
LEMMA ViewTypeStep == ASSUME ViewInv, [ViewNext]_viewVars PROVE ViewTypeOK'
<1>1. ViewTypeOK /\ Entry = RoundNo \X ViewTeam /\ checkRows \subseteq Entry
  BY DEF ViewInv, ViewTypeOK, Entry
<1>2. DOMAIN Cumulative = checkRows /\ DOMAIN NoEntries = {}
  BY DEF Cumulative, NoEntries
<1>3. CASE SaveScores
  BY <1>1, <1>3, SaveScoresTypes DEF SaveScores, ViewTypeOK, refreshVars
<1>4. CASE ChargePenalties
  BY <1>1, <1>4 DEF ChargePenalties, ViewTypeOK, refreshVars
<1>5. CASE SpawnRefresh
  BY <1>1, <1>5, NumberStays DEF SpawnRefresh, ViewTypeOK, tableVars
<1>6. CASE BeginRefresh
  BY <1>1, <1>2, <1>6 DEF BeginRefresh, ViewTypeOK, tableVars
<1>7. CASE EndRefresh
  BY <1>1, <1>2, <1>7 DEF EndRefresh, ViewTypeOK, tableVars, FlagAfterRefresh
<1>8. CASE TruncateScores
  BY <1>1, <1>8 DEF TruncateScores, ViewTypeOK, refreshVars
<1>9. CASE RefreshInReset
  BY <1>1, <1>2, <1>9 DEF RefreshInReset, ViewTypeOK, ViewAfterReset, tableVars, refreshVars
<1>10. CASE FirstRoundAgain
  BY <1>1, <1>10, ViewAssumption DEF FirstRoundAgain, ViewTypeOK, tableVars, refreshVars, RoundNo
<1>11. CASE ViewRestart
  <2>1. roundNo' \in RoundNo
    BY <1>11, LastIsLast, ViewAssumption DEF ViewRestart, RoundNo
  <2>2. QED
    BY <1>1, <1>2, <1>11, <2>1 DEF ViewRestart, ViewTypeOK, tableVars
<1>12. CASE UNCHANGED viewVars
  BY <1>1, <1>12 DEF viewVars, tableVars, refreshVars, ViewTypeOK
<1>13. QED
  BY <1>3, <1>4, <1>5, <1>6, <1>7, <1>8, <1>9, <1>10, <1>11, <1>12 DEF ViewNext

\* Who changes the tables, or the number of refreshes to come, leaves somebody to bring the points.
LEMMA ShownStep == ASSUME ViewInv, [ViewNext]_viewVars PROVE Shown'
<1>1. Shown
  BY DEF ViewInv
<1>2. CASE SaveScores
  <2>1. CASE saving' = "saved"
    BY <2>1 DEF Shown
  <2>2. CASE UNCHANGED <<checkRows, earned, saving>>
    <3>1. Cumulative' = Cumulative
      BY <2>2 DEF Cumulative, UpTo
    <3>2. QED
      BY <1>1, <1>2, <2>2, <3>1 DEF SaveScores, Shown, refreshVars
  <2>3. QED
    BY <1>2, <2>1, <2>2 DEF SaveScores
<1>3. CASE ChargePenalties
  BY <1>3 DEF ChargePenalties, Shown
<1>4. CASE SpawnRefresh
  BY <1>4 DEF SpawnRefresh, Shown
<1>5. CASE BeginRefresh
  BY <1>5, SameTables DEF BeginRefresh, Shown
<1>6. CASE EndRefresh
  BY <1>1, <1>6, SameTables DEF EndRefresh, Shown
<1>7. CASE TruncateScores
  BY <1>7 DEF TruncateScores, Shown, refreshVars
<1>8. CASE RefreshInReset
  BY <1>8, SameTables DEF RefreshInReset, ViewAfterReset, Shown, refreshVars
<1>9. CASE FirstRoundAgain
  BY <1>1, <1>9, SameTables DEF FirstRoundAgain, Shown, refreshVars
<1>10. CASE ViewRestart
  BY <1>10, SameTables DEF ViewRestart, Shown
<1>11. CASE UNCHANGED viewVars
  BY <1>1, <1>11, SameTables DEF viewVars, refreshVars, Shown
<1>12. QED
  BY <1>2, <1>3, <1>4, <1>5, <1>6, <1>7, <1>8, <1>9, <1>10, <1>11 DEF ViewNext

\* A round is added by itself, or all of them go.
LEMMA HasLastStep == ASSUME ViewInv, [ViewNext]_viewVars PROVE HasLast'
<1>1. HasLast /\ roundRows \subseteq Int /\ roundNo \in Int
  BY DEF ViewInv, ViewTypeOK, RoundNo
<1>2. ASSUME roundRows' = roundRows PROVE HasLast'
  BY <1>1, <1>2 DEF HasLast
<1>3. ASSUME roundRows' = {} PROVE HasLast'
  BY <1>3 DEF HasLast
<1>4. ASSUME roundRows' = roundRows \cup {roundNo} PROVE HasLast'
  <2>1. CASE \A m \in roundRows : m <= roundNo
    BY <1>1, <1>4, <2>1 DEF HasLast
  <2>2. CASE \E m \in roundRows : m > roundNo
    <3>1. PICK n \in roundRows : \A m \in roundRows : m <= n
      BY <1>1, <2>2 DEF HasLast
    <3>2. roundNo <= n
      BY <1>1, <2>2, <3>1
    <3>3. QED
      BY <1>4, <3>1, <3>2 DEF HasLast
  <2>3. QED
    BY <1>1, <2>1, <2>2
<1>5. QED
  BY <1>2, <1>3, <1>4 DEF ViewNext, SaveScores, ChargePenalties, SpawnRefresh, BeginRefresh, EndRefresh,
     TruncateScores, RefreshInReset, FirstRoundAgain, ViewRestart, tableVars, viewVars

\* The strengthened invariant is an invariant of the view.
LEMMA ViewInvHolds == ViewSpec => []ViewInv
<1>1. ViewInit => ViewInv
  BY ViewInvInit
<1>2. ViewInv /\ [ViewNext]_viewVars => ViewInv'
  BY ViewTypeStep, ShownStep, HasLastStep DEF ViewInv
<1>3. QED
  BY <1>1, <1>2, PTL DEF ViewSpec

\* Points and penalties are of rows and rounds there are, and the flag is up
\* exactly while a refresh is under way (engine.go:618-629).
THEOREM ViewTypeCorrect == ViewSpec => []ViewTypeOK
<1>1. ViewInv => ViewTypeOK
  BY DEF ViewInv
<1>2. QED
  BY ViewInvHolds, <1>1, PTL

-----------------------------------------------------------------------------
(* The loop of GetServiceCheckSumByRound *)

\* Induction, with a set in the place of the predicate.
LEMMA SetInduction ==
  ASSUME NEW T \in SUBSET Nat, 0 \in T, \A n \in T : n + 1 \in T
  PROVE  T = Nat
<1> DEFINE Rest == Nat \ T
<1>1. SUFFICES ASSUME Rest # {} PROVE FALSE
  OBVIOUS
<1>2. IsWellFoundedOn(OpToRel(<, Nat), Nat)
  BY NatLessThanWellFounded
<1>3. Rest \subseteq Nat
  OBVIOUS
<1> HIDE DEF Rest
<1>4. PICK x \in Rest : \A y \in Rest : ~ (<<y, x>> \in OpToRel(<, Nat))
  BY ONLY <1>1, <1>2, <1>3, WFMin
<1> USE DEF Rest
<1>5. x \in Nat /\ \A y \in Rest : ~ (y < x)
  BY <1>4 DEF OpToRel
<1>6. x # 0
  BY <1>4, <1>5
<1>7. x - 1 \in Nat /\ x - 1 < x /\ (x - 1) + 1 = x
  BY <1>5, <1>6
<1>8. x - 1 \in T
  BY <1>5, <1>7
<1>9. QED
  BY <1>4, <1>7, <1>8

\* The first n penalties that are taken off the entry of k.
Taken(rows, n, k) == {i \in 1 .. n : TakenOff(rows[i], k)}

\* What n iterations have made of the entries of the view.
Series(rows, n) ==
  [k \in {e \in ShownEntries : e \in DOMAIN view \/ Taken(rows, n, e) # {}} |->
     (IF k \in DOMAIN view THEN view[k] ELSE 0) - SlaPenalty * Cardinality(Taken(rows, n, k))]

\* A penalty more is taken off, or is not.
LEMMA TakenGrows ==
  ASSUME NEW rows, NEW n \in Nat, NEW k
  PROVE  /\ Taken(rows, 0, k) = {} /\ Cardinality(Taken(rows, 0, k)) = 0
         /\ IsFiniteSet(Taken(rows, n, k)) /\ Cardinality(Taken(rows, n, k)) \in Nat
         /\ IF TakenOff(rows[n + 1], k)
            THEN /\ Taken(rows, n + 1, k) # {}
                 /\ Cardinality(Taken(rows, n + 1, k)) = Cardinality(Taken(rows, n, k)) + 1
            ELSE Taken(rows, n + 1, k) = Taken(rows, n, k)
<1>1. Taken(rows, 0, k) = {}
  BY DEF Taken
<1>2. IsFiniteSet(Taken(rows, n, k)) /\ Cardinality(Taken(rows, n, k)) \in Nat
  <2>1. IsFiniteSet(1 .. n)
    BY FS_Interval
  <2>2. Taken(rows, n, k) \in SUBSET (1 .. n)
    BY DEF Taken
  <2>3. QED
    BY <2>1, <2>2, FS_Subset, FS_CardinalityType
<1>3. CASE TakenOff(rows[n + 1], k)
  <2>1. Taken(rows, n + 1, k) = Taken(rows, n, k) \cup {n + 1} /\ n + 1 \notin Taken(rows, n, k)
    BY <1>3 DEF Taken
  <2>2. Cardinality(Taken(rows, n, k) \cup {n + 1}) = Cardinality(Taken(rows, n, k)) + 1
    BY <1>2, <2>1, FS_AddElement
  <2>3. Cardinality(Taken(rows, n + 1, k)) = Cardinality(Taken(rows, n, k)) + 1
    BY <2>1, <2>2
  <2>4. QED
    BY <1>1, <1>2, <1>3, <2>1, <2>3, FS_EmptySet
<1>4. CASE ~TakenOff(rows[n + 1], k)
  <2>1. Taken(rows, n + 1, k) = Taken(rows, n, k)
    BY <1>4 DEF Taken
  <2>2. QED
    BY <1>1, <1>2, <1>4, <2>1, FS_EmptySet
<1>5. QED
  BY <1>3, <1>4

\* Penalties add up.
LEMMA Deduct ==
  ASSUME NEW points \in Int, NEW n \in Nat
  PROVE  /\ points - SlaPenalty * 0 = points
         /\ (points - SlaPenalty * n) - SlaPenalty = points - SlaPenalty * (n + 1)
         /\ (points - SlaPenalty * n) - 0 = points - SlaPenalty * n
<1>1. SlaPenalty \in Nat
  BY ViewAssumption
<1>2. SlaPenalty * (n + 1) = SlaPenalty * n + SlaPenalty /\ SlaPenalty * 0 = 0 /\ SlaPenalty * n \in Int
  BY <1>1
<1>3. QED
  BY <1>1, <1>2

\* An iteration makes of the entries after n penalties those after n + 1.
LEMMA OnePenaltyMore ==
  ASSUME NEW rows, NEW n \in Nat, \A k \in DOMAIN view : view[k] \in Int
  PROVE  Series(rows, n + 1) = TakeOff(Series(rows, n), rows[n + 1])
<1> DEFINE old == Series(rows, n)
           new == Series(rows, n + 1)
           points(k) == IF k \in DOMAIN view THEN view[k] ELSE 0
<1>1. DOMAIN old = {e \in ShownEntries : e \in DOMAIN view \/ Taken(rows, n, e) # {}}
  BY DEF Series
<1>2. DOMAIN new = {e \in ShownEntries : e \in DOMAIN view \/ Taken(rows, n + 1, e) # {}}
  BY DEF Series
<1>3. DOMAIN new = DOMAIN old \cup {e \in ShownEntries : TakenOff(rows[n + 1], e)}
  <2>1. ASSUME NEW e PROVE
          Taken(rows, n + 1, e) # {} <=> Taken(rows, n, e) # {} \/ TakenOff(rows[n + 1], e)
    <3>1. CASE TakenOff(rows[n + 1], e)
      BY <3>1, TakenGrows
    <3>2. CASE ~TakenOff(rows[n + 1], e)
      BY <3>2, TakenGrows
    <3>3. QED
      BY <3>1, <3>2
  <2> HIDE DEF old, new
  <2>2. QED
    BY <1>1, <1>2, <2>1
<1>4. ASSUME NEW k \in DOMAIN new
      PROVE  new[k] = (IF k \in DOMAIN old THEN old[k] ELSE 0)
                        - (IF TakenOff(rows[n + 1], k) THEN SlaPenalty ELSE 0)
  <2> DEFINE c == Cardinality(Taken(rows, n, k))
  <2>1. points(k) \in Int /\ c \in Nat
    <3>1. c \in Nat
      BY TakenGrows
    <3>2. points(k) \in Int
      OBVIOUS
    <3>3. QED
      BY <3>1, <3>2
  <2>2. (IF k \in DOMAIN old THEN old[k] ELSE 0) = points(k) - SlaPenalty * c
    <3>1. CASE k \in DOMAIN old
      BY <3>1 DEF Series
    <3>2. CASE k \notin DOMAIN old
      <4>1. k \notin DOMAIN view /\ Taken(rows, n, k) = {}
        BY <1>1, <1>2, <1>4, <3>2
      <4>2. points(k) = 0 /\ c = 0
        BY <4>1, FS_EmptySet
      <4>3. 0 - SlaPenalty * 0 = 0
        BY Deduct
      <4>4. QED
        BY <3>2, <4>2, <4>3
    <3>3. QED
      BY <3>1, <3>2
  <2>3. new[k] = points(k) - SlaPenalty * Cardinality(Taken(rows, n + 1, k))
    BY <1>4 DEF Series
  <2> HIDE DEF old, new, points
  <2>4. CASE TakenOff(rows[n + 1], k)
    <3>1. new[k] = points(k) - SlaPenalty * (c + 1)
      BY <2>3, <2>4, TakenGrows
    <3> HIDE DEF c
    <3>2. (points(k) - SlaPenalty * c) - SlaPenalty = points(k) - SlaPenalty * (c + 1)
      BY <2>1, Deduct
    <3>3. QED
      BY <2>2, <2>4, <3>1, <3>2
  <2>5. CASE ~TakenOff(rows[n + 1], k)
    <3>1. new[k] = points(k) - SlaPenalty * c
      BY <2>3, <2>5, TakenGrows
    <3> HIDE DEF c
    <3>2. (points(k) - SlaPenalty * c) - 0 = points(k) - SlaPenalty * c
      BY <2>1, Deduct
    <3>3. QED
      BY <2>2, <2>5, <3>1, <3>2
  <2>6. QED
    BY <2>4, <2>5
<1>5. new = [k \in DOMAIN new |-> new[k]]
  BY DEF Series
<1> HIDE DEF old, new
<1>6. new = TakeOff(old, rows[n + 1])
  BY <1>3, <1>4, <1>5 DEF TakeOff
<1>7. QED
  BY <1>6 DEF old, new

\* The entries that each iteration computes from the ones before.
PenaltyLoop(after, rows) ==
  [n \in 0 .. Cardinality(charged) |->
     IF n = 0 THEN [k \in ShownEntries \cap DOMAIN view |-> view[k]]
     ELSE TakeOff(after[n - 1], rows[n])]

\* The loop over all of them makes what is charged in all.
LEMMA LoopIsSeries ==
  ASSUME NEW rows, Cardinality(charged) \in Nat, \A k \in DOMAIN view : view[k] \in Int
  PROVE  ScoreSeries(rows) = Series(rows, Cardinality(charged))
<1> DEFINE N == Cardinality(charged)
           sum == [n \in 0 .. N |-> Series(rows, n)]
           after == CHOOSE f : f = PenaltyLoop(f, rows)
<1>1. N \in Nat
  OBVIOUS
<1>2. Series(rows, 0) = [k \in ShownEntries \cap DOMAIN view |-> view[k]]
  <2>1. \A k : Taken(rows, 0, k) = {} /\ Cardinality(Taken(rows, 0, k)) = 0
    BY TakenGrows
  <2>2. \A k \in DOMAIN view : view[k] - SlaPenalty * 0 = view[k]
    BY Deduct
  <2>3. QED
    BY <2>1, <2>2 DEF Series
<1>3. ASSUME NEW n \in 0 .. N, n # 0 PROVE sum[n] = TakeOff(sum[n - 1], rows[n])
  <2> DEFINE m == n - 1
  <2>1. m \in Nat /\ m \in 0 .. N /\ n = m + 1
    BY <1>1, <1>3
  <2> HIDE DEF m
  <2>2. Series(rows, m + 1) = TakeOff(Series(rows, m), rows[m + 1])
    BY <2>1, OnePenaltyMore
  <2>3. sum[n] = Series(rows, m + 1) /\ sum[m] = Series(rows, m)
    BY <2>1
  <2>4. QED
    BY <2>1, <2>2, <2>3 DEF m
<1>4. sum = PenaltyLoop(sum, rows)
  <2>1. sum[0] = [k \in ShownEntries \cap DOMAIN view |-> view[k]]
    BY <1>1, <1>2
  <2> HIDE DEF sum
  <2>2. \A n \in 0 .. N : sum[n] = PenaltyLoop(sum, rows)[n]
    BY <1>3, <2>1 DEF PenaltyLoop
  <2> USE DEF sum
  <2>3. QED
    BY <2>2 DEF PenaltyLoop
<1>5. after = PenaltyLoop(after, rows)
  <2> HIDE DEF sum
  <2>1. \E f : f = PenaltyLoop(f, rows)
    BY <1>4
  <2>2. QED
    BY <2>1
<1>6. ScoreSeries(rows) = after[N]
  BY DEF ScoreSeries, PenaltyLoop
<1> HIDE DEF sum, after
<1> DEFINE T == {n \in Nat : n \in 0 .. N => after[n] = sum[n]}
<1>7. 0 \in T
  BY <1>1, <1>4, <1>5 DEF PenaltyLoop
<1>8. ASSUME NEW n \in T PROVE n + 1 \in T
  <2>1. SUFFICES ASSUME n + 1 \in 0 .. N PROVE after[n + 1] = sum[n + 1]
    OBVIOUS
  <2>2. n \in 0 .. N /\ (n + 1) - 1 = n /\ n + 1 # 0 /\ after[n] = sum[n]
    BY <1>1, <2>1
  <2>3. after[n + 1] = PenaltyLoop(after, rows)[n + 1] /\ sum[n + 1] = PenaltyLoop(sum, rows)[n + 1]
    BY <1>4, <1>5
  <2>4. QED
    BY <2>1, <2>2, <2>3 DEF PenaltyLoop
<1>9. T = Nat
  <2>1. T \in SUBSET Nat
    OBVIOUS
  <2> HIDE DEF T
  <2>2. QED
    BY <1>7, <1>8, <2>1, SetInduction
<1>10. after[N] = sum[N]
  BY <1>1, <1>9
<1>11. QED
  BY <1>1, <1>6, <1>10 DEF sum

\* In whatever order the penalties come, those taken off an entry are those of
\* its team up to its round.
LEMMA AnyOrder ==
  ASSUME NEW rows \in Orders(charged), IsFiniteSet(charged), NEW k
  PROVE  Cardinality(Taken(rows, Cardinality(charged), k)) = Cardinality(UpTo(charged, k))
<1> DEFINE N == Cardinality(charged)
           A == Taken(rows, N, k)
           B == UpTo(charged, k)
           g == [i \in A |-> rows[i]]
<1>1. /\ rows \in [1 .. N -> charged]
      /\ \A i, j \in 1 .. N : rows[i] = rows[j] => i = j
      /\ \A c \in charged : \E i \in 1 .. N : rows[i] = c
  BY DEF Orders, Bijection, Injection, Surjection, IsInjective
<1>2. N \in Nat
  BY FS_CardinalityType
<1>3. /\ A \subseteq 1 .. N
      /\ \A i \in A : rows[i] \in B
      /\ \A i \in 1 .. N : rows[i] \in B => i \in A
      /\ B \subseteq charged
  BY <1>1 DEF Taken, UpTo, TakenOff
<1>4. IsFiniteSet(A)
  BY <1>2, TakenGrows
<1> HIDE DEF A, B, N
<1>5. g \in [A -> B] /\ (\A i, j \in A : g[i] = g[j] => i = j) /\ \A c \in B : \E i \in A : g[i] = c
  <2>1. ASSUME NEW c \in B PROVE \E i \in A : g[i] = c
    <3>1. PICK i \in 1 .. N : rows[i] = c
      BY <1>1, <1>3
    <3>2. QED
      BY <1>3, <3>1
  <2>2. QED
    BY <1>1, <1>3, <2>1
<1>6. g \in Bijection(A, B)
  <2> HIDE DEF g
  <2>1. QED
    BY <1>5 DEF Bijection, Injection, Surjection, IsInjective
<1>7. ExistsBijection(A, B)
  BY <1>6 DEF ExistsBijection
<1>8. Cardinality(A) = Cardinality(B)
  BY <1>4, <1>7, FS_Bijection
<1>9. QED
  BY <1>8 DEF A, B, N

\* There are finitely many points and penalties.
LEMMA FiniteScores ==
  ASSUME ViewInv
  PROVE  /\ IsFiniteSet(charged) /\ Cardinality(charged) \in Nat
         /\ \A k : Cardinality(UpTo(earned, k)) \in Nat
<1>1. IsFiniteSet(RoundNo) /\ IsFiniteSet(ViewTeam)
  BY ViewAssumption, FS_Interval DEF RoundNo
<1>2. IsFiniteSet(Entry)
  BY <1>1, FS_Product DEF Entry
<1>3. charged \in SUBSET Entry /\ earned \in SUBSET Entry
  BY DEF ViewInv, ViewTypeOK, Entry
<1>4. IsFiniteSet(charged) /\ Cardinality(charged) \in Nat
  BY <1>2, <1>3, FS_Subset, FS_CardinalityType
<1>5. ASSUME NEW k PROVE Cardinality(UpTo(earned, k)) \in Nat
  <2>1. UpTo(earned, k) \in SUBSET Entry
    BY <1>3 DEF UpTo
  <2>2. QED
    BY <1>2, <2>1, FS_Subset, FS_CardinalityType
<1>6. QED
  BY <1>4, <1>5

\* At rest the graph shows of every row what the team earned up to its round
\* less what it was charged, in whatever order the penalties are returned, and
\* nothing of before a reset, unless a refresh was skipped or failed
\* (servicechecks.go:45-127, engine.go:618-629).
THEOREM GraphIsScore == ViewSpec => []SeriesIsScore
<1>1. ASSUME ViewInv PROVE SeriesIsScore
  <2>1. SUFFICES ASSUME ScoresAtRest, ~behind
                 PROVE  /\ DOMAIN view = checkRows
                        /\ \A rows \in Orders(charged) : \A k \in checkRows :
                             /\ k \in DOMAIN ScoreSeries(rows)
                             /\ ScoreSeries(rows)[k] = Cardinality(UpTo(earned, k))
                                                         - SlaPenalty * Cardinality(UpTo(charged, k))
    BY DEF SeriesIsScore
  <2>2. view = Cumulative
    BY <1>1, <2>1 DEF ViewInv, Shown, ScoresAtRest
  <2>3. DOMAIN view = checkRows /\ \A k \in checkRows : view[k] = Cardinality(UpTo(earned, k))
    BY <2>2 DEF Cumulative
  <2>4. \A k \in DOMAIN view : view[k] \in Int
    BY <1>1, <2>3, FiniteScores
  <2>5. ASSUME NEW k \in checkRows PROVE k \in ShownEntries
    <3>1. k \in roundRows \X ViewTeam /\ roundRows \subseteq RoundNo
      BY <1>1 DEF ViewInv, ViewTypeOK
    <3>2. QED
      BY <1>1, <3>1, LastIsLast DEF ShownEntries, Entry
  <2>6. ASSUME NEW rows \in Orders(charged), NEW k \in checkRows
        PROVE  /\ k \in DOMAIN ScoreSeries(rows)
               /\ ScoreSeries(rows)[k] = Cardinality(UpTo(earned, k))
                                           - SlaPenalty * Cardinality(UpTo(charged, k))
    <3>1. ScoreSeries(rows) = Series(rows, Cardinality(charged))
      BY <1>1, <2>4, FiniteScores, LoopIsSeries
    <3>2. Cardinality(Taken(rows, Cardinality(charged), k)) = Cardinality(UpTo(charged, k))
      BY <1>1, FiniteScores, AnyOrder
    <3>3. QED
      BY <2>3, <2>5, <3>1, <3>2 DEF Series
  <2>7. QED
    BY <2>3, <2>6
<1>2. QED
  BY ViewInvHolds, <1>1, PTL

-----------------------------------------------------------------------------
(* The four components side by side *)

\* Whichever part a behaviour is about, each component only does what its own
\* specification allows: it takes one of its steps or stays as it is.
LEMMA PartsAreComponents == WebSpec => CredSpec /\ InjSpec /\ ViewSpec /\ ConfSpec
<1>1. WebInit => CredInit /\ InjInit /\ ViewInit /\ ConfInit
  BY DEF WebInit
<1>2. WebNext => /\ CredNext \/ UNCHANGED credVars
                 /\ InjNext \/ UNCHANGED injVars
                 /\ ViewNext \/ UNCHANGED viewVars
                 /\ ConfNext \/ UNCHANGED confVars
  BY DEF WebNext
<1>3. UNCHANGED webVars => UNCHANGED credVars /\ UNCHANGED injVars /\ UNCHANGED viewVars /\ UNCHANGED confVars
  BY DEF webVars
<1>4. [WebNext]_webVars =>
        [CredNext]_credVars /\ [InjNext]_injVars /\ [ViewNext]_viewVars /\ [ConfNext]_confVars
  BY <1>2, <1>3
<1>5. QED
  BY <1>1, <1>4, PTL DEF WebSpec, CredSpec, InjSpec, ViewSpec, ConfSpec

\* The types of the four components hold in every behaviour of their sum, for
\* any teams, lists, requests, contents of the file and bounds: with them what
\* the theorems say of each component, they say of the specification the run
\* explores.
THEOREM WebTypeCorrect == WebSpec => []WebTypeOK
<1>1. CredTypeOK /\ InjTypeOK /\ ViewTypeOK /\ ConfTypeOK => WebTypeOK
  BY DEF WebTypeOK
<1>2. QED
  BY <1>1, PartsAreComponents, CredTypeCorrect, InjTypeCorrect, ViewTypeCorrect, ConfTypeCorrect, PTL

=============================================================================
