---------------------------- MODULE ConfigReload ----------------------------
(***************************************************************************)
(* The configuration file, the watcher that reloads it and the engine loop *)
(* that reads the settings of a round from it (engine/config/watcher.go,   *)
(* engine/config/config.go, engine/engine.go).                             *)
(*                                                                         *)
(* Every Write event restarts a timer; when it fires, a goroutine of its   *)
(* own reads, checks and assigns.  Stopping a timer that fired stops no    *)
(* reload, so two may be under way at once.                                *)
(*                                                                         *)
(* The content of the file is the three settings a round is planned with,  *)
(* 0 for one that is absent, or Garbled: what cannot be decoded, or misses *)
(* something required.  The assignment of the whole configuration is one   *)
(* step here; a reader between two of its words is undefined in Go.        *)
(***************************************************************************)
EXTENDS Integers, FiniteSets

CONSTANTS
  Content,      \* what may be written: [delay, jitter, timeout : Nat], in seconds
  Garbled,      \* any content that is refused for another reason
  Reload,       \* goroutines that reload
  MaxChanges    \* bound: changes of the file

ASSUME ContentAssumption ==
  /\ Content \subseteq [delay : Nat, jitter : Nat, timeout : Nat] /\ Garbled \notin Content
  /\ MaxChanges \in Nat

VARIABLES
  file,       \* the content of event.conf
  halfWritten,  \* an editor is between truncating and writing
  conf,       \* the settings in use
  watching,   \* WatchConfig has added the directory
  events,     \* Write events nobody has received
  timer,      \* the debounce timer runs
  reload,     \* where each reload is, and what it has read
  plan,       \* the round the engine loop is planning
  \* history, and a counter that only the bound reads
  unheard,    \* the last change made no Write event
  crossed,    \* two reloads were under way at once
  changes

confVars == <<file, halfWritten, conf, watching, events, timer, reload, plan, unheard,
              crossed, changes>>

-----------------------------------------------------------------------------

Idle == [at |-> "idle", got |-> Garbled]

OrDefault(value, default) == IF value = 0 THEN default ELSE value

\* checkConfig's defaults.
Complete(c) ==
  LET delay == OrDefault(c.delay, 60) IN
    [delay |-> delay, jitter |-> OrDefault(c.jitter, 5),
     timeout |-> OrDefault(c.timeout, delay \div 2)]

\* checkConfig's verdict on what it completed; the wrong one would look at the
\* longest round instead of the shortest.
AcceptedLoosely(c) ==
  c # Garbled /\ LET s == Complete(c) IN s.jitter < s.delay /\ s.timeout < s.delay + s.jitter
Accepted(c) ==
  c # Garbled /\ LET s == Complete(c) IN s.jitter < s.delay /\ s.timeout < s.delay - s.jitter

\* A Write event restarts the timer; the wrong one only if there never was one.
ArmsOnce == timer = "none"
Arms == TRUE

Loading == {r \in Reload : reload[r] # Idle}

NoPlan == [at |-> "jitter", length |-> 0, mixed |-> FALSE]

\* NewEngine has loaded the first configuration.
ConfInit ==
  /\ file \in {c \in Content : Accepted(c)} /\ halfWritten = FALSE
  /\ conf = Complete(file) /\ watching = FALSE
  /\ events = 0 /\ timer = "none"
  /\ reload = [r \in Reload |-> Idle] /\ plan = NoPlan
  /\ unheard = FALSE /\ crossed = FALSE /\ changes = 0

-----------------------------------------------------------------------------
(* The administrator's editor *)

Change == changes < MaxChanges /\ changes' = changes + 1

WriteEvent == events' = IF watching THEN events + 1 ELSE events

\* Writing takes two steps; in between, a part of it is there to be read.
BeginWrite ==
  /\ ~halfWritten /\ Change
  /\ halfWritten' = TRUE /\ file' \in Content \cup {Garbled}
  /\ WriteEvent /\ unheard' = ~watching
  /\ UNCHANGED <<conf, watching, timer, reload, plan, crossed>>

FinishWrite ==
  /\ halfWritten
  /\ halfWritten' = FALSE /\ file' \in Content \cup {Garbled}
  /\ WriteEvent /\ unheard' = ~watching
  /\ UNCHANGED <<conf, watching, timer, reload, plan, crossed, changes>>

\* Some editors write another file and rename it: there is no Write event.
ReplaceFile ==
  /\ ~halfWritten /\ Change
  /\ file' \in Content \cup {Garbled} /\ unheard' = TRUE
  /\ UNCHANGED <<halfWritten, conf, watching, events, timer, reload, plan, crossed>>

-----------------------------------------------------------------------------
(* WatchConfig and SetConfig *)

WatchConfig ==
  /\ ~watching
  /\ watching' = TRUE
  /\ UNCHANGED <<file, halfWritten, conf, events, timer, reload, plan, unheard, crossed,
                 changes>>

HearEvent ==
  /\ events > 0
  /\ events' = events - 1
  /\ timer' = IF Arms THEN "running" ELSE timer
  /\ UNCHANGED <<file, halfWritten, conf, watching, reload, plan, unheard, crossed, changes>>

TimerFires(r) ==
  /\ timer = "running" /\ reload[r] = Idle
  /\ timer' = "fired"
  /\ reload' = [reload EXCEPT ![r].at = "started"]
  /\ crossed' = (Loading # {})
  /\ UNCHANGED <<file, halfWritten, conf, watching, events, plan, unheard, changes>>

ReadFile(r) ==
  /\ reload[r].at = "started"
  /\ reload' = [reload EXCEPT ![r] = [at |-> "read", got |-> file]]
  /\ UNCHANGED <<file, halfWritten, conf, watching, events, timer, plan, unheard, crossed,
                 changes>>

\* A configuration that is refused changes nothing.
SetConfig(r) ==
  /\ reload[r].at = "read"
  /\ reload' = [reload EXCEPT ![r] = Idle]
  /\ IF Accepted(reload[r].got)
       THEN /\ conf' = Complete(reload[r].got)
            /\ plan' = [plan EXCEPT !.mixed = plan.at # "jitter"]
       ELSE UNCHANGED <<conf, plan>>
  /\ UNCHANGED <<file, halfWritten, watching, events, timer, unheard, crossed, changes>>

-----------------------------------------------------------------------------
(* rvb plans a round: it reads the configuration four times *)

PlanOn(where, length) == plan' = [plan EXCEPT !.at = where, !.length = length]

PlanRound ==
  /\ \/ plan.at = "jitter" /\ \E n \in 0 .. 2 * conf.jitter - 1 : PlanOn("less", n)
     \/ plan.at = "less" /\ PlanOn("delay", plan.length - conf.jitter)
     \/ plan.at = "delay" /\ PlanOn("checks", plan.length + conf.delay)
     \/ plan.at = "checks" /\ plan' = NoPlan
  /\ UNCHANGED <<file, halfWritten, conf, watching, events, timer, reload, unheard, crossed,
                 changes>>

ConfNext ==
  \/ BeginWrite \/ FinishWrite \/ ReplaceFile \/ WatchConfig \/ HearEvent \/ PlanRound
  \/ \E r \in Reload : TimerFires(r) \/ ReadFile(r) \/ SetConfig(r)

ConfSpec == ConfInit /\ [][ConfNext]_confVars

-----------------------------------------------------------------------------
(* Properties *)

ConfTypeOK ==
  /\ file \in Content \cup {Garbled}
  /\ conf \in {Complete(c) : c \in Content}
  /\ events \in 0 .. 2 * MaxChanges /\ timer \in {"none", "running", "fired"}
  /\ reload \in [Reload -> [at : {"idle", "started", "read"}, got : Content \cup {Garbled}]]
  /\ plan.at \in {"jitter", "less", "delay", "checks"} /\ plan.length \in Int

\* When the file is written, the events are heard and the reloads are over, the
\* engine uses the file as it is, whatever was half-written, refused or
\* debounced on the way: unless the last change made no Write event, or two
\* reloads crossed (watcher.go:37-68, config.go:174-209).
QuietIsCurrent ==
  /\ ~halfWritten /\ events = 0 /\ timer # "running" /\ Loading = {}
  /\ ~unheard /\ ~crossed /\ Accepted(file)
  => conf = Complete(file)

\* The checks of a round have less time than the round, for every jitter the
\* loop may draw and every configuration checkConfig accepts, defaults included;
\* unless a reload came between two of the loop's reads (config.go:288-324,
\* engine.go:347-349).
RoundOutlastsChecks ==
  plan.at = "checks" /\ ~plan.mixed => conf.timeout < plan.length

=============================================================================
