# Quotient: a specification of the scoring engine

Quotient scores attack-and-defence exercises. Every minute or so its engine
opens a *round*: it asks runner processes to check every service of every team,
collects the verdicts, stores them and derives uptimes, SLA penalties and
graphs. This directory holds TLA+ models of that machinery, the TLC
configurations that check them on small instances, and proofs that hold for all
instances. Source paths are relative to the repository root.

## 1. Inventory

| component | state | operations | talks to |
|---|---|---|---|
| engine loop, `engine/engine.go` | `CurrentRound`, `NextRoundStartTime`, the locals of `rvb()` | open a round, enqueue tasks, collect results, save, sleep | Redis lists `tasks`, `results`; channel `events`; database |
| runners, `runner/runner.go` | one goroutine per popped task | pop, run the check (attempts, deadline), push the result, exit on a reset event | the Redis lists, `task:*` keys |
| rounds and checks tables, `engine/db/rounds.go`, `servicechecks.go` | rounds, checks | `CreateRound` (one transaction), `GetLastRound`, loads and sums | engine, web |
| uptime and SLA accounting, `engine.go` 574-614, `slas.go` | `UptimePerService` (under `uptimeMu`), `SlaPerService`, SLA rows | count a check, insert an SLA row, rebuild from the rows at start | database, web readers |
| engine control, `engine.go` 78-173, 288-333 | `IsEnginePaused`, `EnginePauseWg`, subscriptions, the generations of the loop goroutine | `Start`, pause, resume, `ResetScores`, `waitForReset` | web handlers, Redis events |
| views and graphs, `servicechecks.go` 45-128, `rounds.go` 54 | materialized view `cumulative_scores`, `Refreshing` | refresh unless one is running, cumulative series | web |
| credentials, `engine/credentials.go`, `db/credentials.go` | originals, team copies, history, a mutex per team | seed, update in bulk, reset | web, enqueue loop |
| injects and submissions | injects, versioned submissions, files | create, update, delete, submit | web |
| configuration, `engine/config` | the whole configuration, replaced by a file watcher | validate, default, reload | everyone |
| sessions, `www/api/oidc.go` | session table with expiry | login, refresh, clean up | web |
| service checks, `engine/checks` | none | 16 protocols behind one timeout wrapper | scored machines |
| toggles, red team, announcements, front end | single rows, templates | simple handlers | web |

What is hard here, by component (PROJECT.json `hazards` has each at its line):

* **Engine loop and runners.** Nothing acknowledges anything: a push may fail
  silently, a runner may die with tasks in hand, a result may come rounds late,
  and the list it comes through outlives the server. The round number is the
  only thing that tells results apart, and a restart reuses it. *Correct* means:
  a saved round has exactly the results it asked for, one per pair; saved rounds
  are numbered upwards and never change; no fault stops the loop.
* **Accounting.** The rows are committed first and counted afterwards; a crash
  falls between; the live counters and their reconstruction are different
  algorithms; a reset truncates and clears at any time. *Correct* means: the
  maps are the history of the rows, and there is one penalty per completed
  streak.
* **Control.** A reset leaves the old loop goroutine to notice by itself, while
  a new one starts on the same fields; pause and resume are check-then-act.
* **Engine and control together.** A reset deletes the lists, sends its event and
  sets the number back in steps of their own, while the old loop may be blocked
  on the list the next loop will read and runners may still push into it. *Correct*
  means: numbers that begin again mix no results up, and the old loop and the old
  runners take nothing from the new round.
* **One runner.** Attempts in goroutines that may never report, a deadline, two
  writes at the end. *Correct* means: a task is taken once and answered once or
  never, a pass is one that an attempt made, and every task taken is settled.
* **Credentials.** Seeding row by row that stops at the first error, a mutex map
  replaced by the next `Start`, a row and its history in two statements. *Correct*
  means: the history leads to the password in use, and nobody is left without
  credentials.
* **Injects.** Rows and files written in turn, versions read before the insert.
  *Correct* means: a submission that was acknowledged is there with its own
  version and file, and a directory is what its row says.
* **Views and configuration.** A refresh that is skipped, a file that is read
  half-written, settings replaced under their readers. *Correct* means: at rest
  what is shown is what is stored, and the checks of a round fit into it.

## 2. Modules

| module | models | source |
|---|---|---|
| `RoundEngine` | the loop, the runners, the Redis lists, the rounds table, crashes | `engine.go` 78-170, 344-572; `runner.go`; `rounds.go` |
| `RoundLog` | what the loop promises: an append-only numbered log of rounds | abstract |
| `MCRoundEngine` | instances of `RoundEngine` | |
| `RoundEngineProofs` | theorems about `RoundEngine` | |
| `ScoreLedger` | check rows, SLA rows, the two maps, `ResetScores` and the second `Start` | `engine.go` 78-93, 303-333, 538-614; `servicechecks.go` 147-180, 279-306; `slas.go`; `db.go` 151-163 |
| `MCScoreLedger` | instances of `ScoreLedger` | |
| `ScoreLedgerProofs` | theorems about `ScoreLedger` | |
| `EngineControl` | `Start`, `waitForReset`, the loop goroutines, subscriptions, wait groups, pause and resume requests, `ResetScores` beside them | `engine.go` 58-200, 288-333, 473-525; `admin.go` 17-39 |
| `MCEngineControl` | instances of `EngineControl` | |
| `EngineControlProofs` | theorems about `EngineControl` | |
| `Handover` | `ResetScores` beside rounds: two loops, their lists and blocked clients, the runners that exit | `engine.go` 78-170, 302-333, 344-572; `runner.go` 57-147 |
| `SeasonLog` | what a score reset promises: rounds numbered from 1 between one reset and the next | abstract |
| `MCHandover` | instances of `Handover` | |
| `HandoverProofs` | theorems about `Handover` | |
| `RunnerTask` | one runner process: the goroutine of each task, its attempts, push and status key | `runner.go` 57-260; `checks.go` 140-180 |
| `TaskFate` | what the engine relies on in a runner | abstract |
| `RunnerTaskProofs` | theorems about `RunnerTask`, its refinement of `TaskFate` among them | |
| `Credentials` | seeding, updates and resets, their mutexes and history | `engine/credentials.go`; `db/credentials.go` |
| `Injects` | the handlers that write injects and submissions, rows and files | `www/api/injects.go`, `submissions.go`; `db/injects.go`, `submissions.go` |
| `ScoresView` | the materialized view, its refreshes, the reset, the series of the score graph | `servicechecks.go` 45-128; `engine.go` 618-629; `db.go` 60-163 |
| `ConfigReload` | the file, the watcher, checking and assigning, the reads of one round | `config.go`; `watcher.go`; `engine.go` 347-349 |
| `MCWeb` | instances of the last four, side by side | |
| `CredentialsProofs`, `InjectsProofs` | theorems about `Credentials` and `Injects` | |
| `WebProofs` | theorems about `ConfigReload` and `ScoresView`, and about `MCWeb` as a whole | |

How they fit together: `RoundEngine` is the whole cycle with one loop and with
faults; `EngineControl` is several loops without the inside of a round;
`Handover` is where the two meet, several loops *with* the inside of a round.
`RunnerTask` is the inside of what both call a runner, and `TaskFate` is the
contract between them. `ScoreLedger` begins where a round is saved. The four
components of `MCWeb` share no state with the loop or with one another except
where their text says so.

### RoundEngine

`tasks` and `results` are the Redis lists as sequences (RPush is `Append`, BLPop
takes `Head`). `todo` is what the two nested enqueue loops have still to visit:
their order is any order, which over-approximates the code's. `runners` counts
the enqueued pairs, `collected` is the local `results`. A task and its result
carry the round number, the pair and `start`, a ghost that numbers the round
starts: no guard reads it.

One action is one step that others can interleave with: a pair skipped or
enqueued, a result popped, the save (`CreateRound` is one transaction, and the
loop's `CurrentRound++` follows with nothing of the model in between), the sleep.
`Discard` is the deadline inside the collection loop: the code empties its
results, `processCollectedResults` returns at once, and the number is used up.
`Restart` is `Start` after the process died at any point: the locals are lost,
the Redis lists stay, `CurrentRound` follows the last saved round. Runners pop
concurrently, hold a set of tasks and push in any order, at any time, or never.

Time is one flag, `expired`: the deadline has passed. A push of the enqueue loop
after the deadline always fails, as its context has expired; one before may fail.
Redis and database errors, lost pushes and runner crashes draw on `MaxFaults`.
The wait group and reset events are left to `EngineControl`: no pause and no
reset happens in this module. `LLen` before the deletion of stale tasks
is taken to succeed. Retries inside the Redis client, which could push twice,
are not modelled.

### RoundLog

Four actions: open the next number, record it with one verdict per pair, leave
it out, go back to the number after the last recorded one. `Log` in
`RoundEngine` is the refinement mapping: the log is the saved rounds, each as
the function from pairs to verdicts that its rows define. A number that was
opened again may be recorded as `Garbled`, which is what a crash can do to it
(see the findings); every other round is proper.

### ScoreLedger

`checks` is the table in order of insertion; `batch` is the part of the saved
round that is not yet counted. `SaveRound` commits the rows, `Lock` takes
`uptimeMu`, the four `Apply...` actions are the branches of one iteration of the
counting loop, `Unlock` ends it. `ResetScores` is the chain `ResetTables`,
`PublishReset`, `WipeUptimes` (needs the lock), `WipeSlas` (does not take it),
or `ResetAborts` where a statement after the truncation fails; beside its last
steps `Start` runs again (`ReloadUptimes`, `ReloadSlas`) if it was waiting when
the event was published. `Restart` is a crash anywhere and both loads. For each
SLA row the code reads `CurrentRound` again, which the reset or the second `Start`
may have set since the round was saved (`Renumber`): the row then names a round
that need not be there.

`LoadSLAs` is stated in closed form (what the map held, plus the trailing
streak, modulo the threshold; zero first if there is a success). `CountRows` is
the loop over the rows, and `LoadSLAsIsTheLoop` says that they are the same.
A batch may hold two checks of one pair: the engine run `engine_one_per_round`
shows that such rounds are saved. CreateSLA fails when no round has the number it is given, which
the foreign key from SLA rows to rounds makes certain. Two overlapping calls of
`ResetScores`, and a second round being counted at the same time by a second
loop goroutine, are not modelled here.

### EngineControl

Every call of `Start` makes a loop goroutine, a subscription and a wait group;
all three bear the number `gen` of the call. The loop of an earlier call is not
stopped: it goes on (`loop[g]`) until it reads the reset from its subscription
(`ReadMessage`, or `QuitRound` inside a round), meets the closed channel
(`ReadClosed`: the message is nil and the process panics) or stays blocked on a
group nobody releases any more. `EnginePauseWg` is the group the field holds
now, `held` the counter of each group, `waitsOn` the group a loop blocked on.

`Start` is cut at every write another goroutine can see: the flag is lowered,
the group made, the flag raised, the hold taken. So are `PauseEngine` and
`ResumeEngine` (two writes each, after their test), and `ResetScores` (the
tables, the event, the round number). Delivery of a published message takes any
time: `OpenRound` may overtake a message that is in `inbox`, and `CloseChannel`,
some time after `Start` returned, drops what was not delivered. `heard` is the
one message `waitForReset` is after; it hears only what is published while it is
subscribed. A round is opened, saved or not, and counted; `RoundEngine` has the
inside of it. There is one `ResetScores` at a time, and no Redis or database
call fails in this module.

The wait group follows Go's: a release to zero frees all waiters, a waiter that
finds the group held again when it runs panics ("reused"), a release below zero
panics in the request's goroutine, where `net/http` recovers it.

`overlapped`, `crossed`, `missed`, `dropped` and `passed` are history: no guard
reads them.

### Handover

`ResetScores` is five steps (`Truncate`, `DeleteTasks`, `DeleteResults`,
`PublishReset`, `ResetNumber`), `Start` after it two. A reset may begin at any
time, while `Start` is not yet back in `waitForReset` too: it then ends the loop
and starts none (EngineControl has what becomes of that). A round reads the length
of `tasks` (`Open`) and deletes the list in a second step (`Clear`), with whatever
has come into it in between. Each loop goroutine `g` has
the locals of its own `rvb()`, among them a second subscription (`roundInbox`),
but all share `CurrentRound`, which is read again for every task and every
result: that is what the code does, and what makes the old loop dangerous.
`waiters` is the order in which Redis serves clients blocked on one list, so
`Push` hands the result to the longest waiting loop, whichever that is. A message
is `sent`, then `told` some time later (`Deliver`), and stays told when another is
published (`AfterPublish`). A client whose time is up leaves the queue from its
place (`LeaveQueue`). `after` counts the results a round takes once its message
is told. No call fails here and the server does not crash: `RoundEngine` has that.
`crossed` and `late` are history; they record that a reset met a round, and that a
runner pushed what it had after the list was deleted. Three more histories are about
the round of the latest loop and begin anew with each: `stolen`, the tasks of it that
an older loop took, `killed`, those a runner exited with, and `disturbed`, that it
met one of the things that can cost it any number of tasks (a list deleted or the
number changed under it, an older loop that opened a round beside it or took from it
before it had the reset's message).

### SeasonLog

The other end of the same story, for whoever reads scores: a round is opened,
recorded or left out; between two rounds the log is erased, and once it is empty
the numbers begin again. The refinement mapping of `ImplementsSeasonLog` looks at the
latest loop only. `SeasonRounds` maps the number of each saved round to the opening
that all its results are of, and to 0 if there is none: a round that mixes
openings, or lacks a pair, implements nothing. `SeasonNumber` is the loop's number,
one ahead between the save and `CurrentRound++`; `SeasonOpening` is the opening under
way. The log is spoilt once a reset met a round (`crossed`) or a runner pushed behind
the deletion of its list (`late`).

### RunnerTask and TaskFate

`phase` is where the goroutine of a task is; `running` its `Run` goroutines, any
of which may never report; `channel` the buffered channel with one place. `Push`
and `ShowResult` are two writes, and `Exit` ends everything in hand. The status
key has a time to live, and one that is not positive is none at all
(`RunningDrops`). Deliveries of one check share the key, and `key.by` is the one that
wrote it; each has its own deadline, since a server that crashed enqueues the check
again with a new one (`Deadline`). The error of writing the key is ignored in the
code, at the start (`BeginUnshown`) and at the end (`ShowFails`).
The refinement mapping of `ImplementsTaskFate` reads: a task is in hand until it
is pushed, given up or lost with the process.

### Credentials

A credential list is the set of its usernames. `seeding` walks through the two
branches of `EnsureCredentialsSeeded`: everything for a first start
(`originals`, `teams`), or new teams (`newTeams`) and new lists (`newLists`,
`spread`) for a later one. An error stops it where it is, with the rows
written so far; so does a query that fails before anything is written
(`SeedQueryFails`). The watcher may bring a new list (`AddList`), and the file of a
list may get more usernames (`GrowList`): the code reads it only while the table has
nothing of the list, so what comes later stays out (`grown`). A request looks its mutex up twice as the code does: to lock,
and, in the deferred call, to unlock (`Ask`, `AcquireMutex`); if `Start` replaced
the map in between, the unlock is of a mutex nobody holds, and that ends the
process (`credFatal`). An update writes row and history in this order, a reset
in the other. The map itself is read and written without a lock in the code; Go
detects such an access and aborts, which here is `CredCrash`.

### Injects

Five kinds of request in steps of one statement or one pass over a directory;
a pass may stop anywhere (`WriteFiles`, `RemoveFiles`), before the directory of a new
inject is made too (`WriteNewFiles`), and a submission after it has truncated a file
that was there (`StoreFile`). The foreign key of
submissions refuses a submission of a deleted inject and the deletion of an
inject with a submission. `Save` of gorm inserts what it does not find, under a
new number (`SaveInject`), and such an inject never gets a directory. `rivals`
are teams with two submissions of one inject at once, `muddled` injects with two
administrators at once or a request that failed: what is claimed excepts them.

### ScoresView

`SaveScores`, `ChargePenalties` and `SpawnRefresh` are the end of a round; the
refresh goroutine reads (`BeginRefresh`) and replaces (`EndRefresh`) the view.
PostgreSQL keeps a TRUNCATE waiting for a refresh that reads, and a refresh for
another. `ScoreSeries` is what `GetServiceCheckSumByRound` returns: its loop takes
the penalties off the entries of the view one row after the other (`TakeOff`), and
makes an entry where there is none. The query groups the penalties and asks for no
order, so its rows are any of `Orders`.

### ConfigReload

A configuration is the three times that `checkConfig` relates; everything else
it could refuse is `Garbled`. An editor truncates and writes (`BeginWrite`,
`FinishWrite`), or renames another file into place, which makes no Write event.
Every Write event restarts the timer, which when it fires starts a reload in its
own goroutine (`ReadFile`, `SetConfig`). `PlanRound` is the four reads of
the configuration in `rvb()`. A jitter below zero, which `checkConfig` accepts and
`rand.Intn` panics on, is not among the settings.

### MCWeb

A behaviour is about one of the four components, chosen in its first state; the
others stay in theirs. Their states then add up and do not multiply. Teams and
request goroutines are given the same model values in each, for symmetry.

## 3. Runs

| run | instance | checks |
|---|---|---|
| `engine_restart` | 2 teams, 1 service, 1 runner, rounds 1-2, one crash, one fault | `TypeOK`, `OneResultPerPair`, `RoundNumberIsNew`, `ImplementsRoundLog` |
| `engine_faults` | 2 teams, 2 runners, rounds 1-3, every check fails, two faults, no crash, fairness | `NothingVanishes`, `SavedRoundIsComplete`, `RoundCloses` |
| `engine_one_per_round` | 2 teams, one crash | finding: `ChecksAreOnePerRound` fails |
| `engine_stop` | two faults, fairness | finding: `StoppedEngineRestarts` fails |
| `ledger` | 2 pairs, threshold 2, up to 5 rows ever saved, one crash, one reset, one fault | `TypeOK`, `UptimeIsHistory`, `CounterIsStreak`, `PenaltyPerViolation`, `LoadSLAsIsTheLoop` |
| `ledger_reset` | as `ledger`, no crash | finding: `ResetClears` fails |
| `control` | paused start, 2 starts, 1 reset, 2 rounds, 2 requests that may overlap | `TypeOK`, `FlagTellsHold`, `NumberIsNewAfterReset`, `PauseHolds` |
| `control_live` | 2 starts, 1 reset, 2 rounds, 1 request, fairness | `StaleLoopsEnd`, `UnpausedRuns` |
| `control_missed` | 1 reset, 1 round, fairness | finding: `ResetStartsLoopAgain` fails |
| `handover` | 2 pairs, 1 runner, 2 starts, 1 reset, 2 rounds | `TypeOK`, `FreshAfterReset`, `LossesAccountedFor`, `OneMoreAtMost`, `ImplementsSeasonLog` |
| `runner` | 2 deliveries, 3 attempts, 2 faults, fairness | `TypeOK`, `AttemptsApart`, `VerdictIsEarned`, `ShownIsPushed`, `ImplementsTaskFate`, `TakenIsSettled`, `RunningEnds` |
| `web` | see below | `WebTypeOK`; credentials: `HistoryIsComplete`, `SeedingHeals`, `OnePcrPerTeam`; injects: `EverySubmissionKept`, `DirectoryMatchesRow`, `DeletedStaysDeleted`; view: `SeriesIsScore`; configuration: `QuietIsCurrent`, `RoundOutlastsChecks` |

*Bounds.* Two pairs are what it takes to confuse the results of two pairs, or to
fill the count with two of one; two rounds and one crash let results of the first
start of a round reach its second start; three rounds let a result skip a round.
Five rows and a threshold of two let a streak complete twice, break, and
complete across a crash. Round numbers, crashes and faults are capped in the
guards that raise them (`MaxRounds`, `MaxRestarts`, `MaxFaults`, `MaxChecks`,
`MaxRound`, `MaxResets`). Teams, runners and pairs are symmetric where a
configuration says so, and only for safety.

One reset and two starts put a replaced loop beside a new one; a third would only
repeat that. Two rounds let both loops be in one at once, and two requests on two
goroutines are a pause and a resume, in sequence or interleaved (`MaxStarts`,
`MaxResets`, `MaxOpens`, `MaxRequests`).

One reset, two starts and two rounds put a round of the old loop beside one of
the new in every relative order; two pairs let one be stolen and the other not.
One check that is delivered twice, with three attempts, has a first, a middle and
a last attempt, and two goroutines with deadlines of their own writing one key; two
faults let a push fail and the process exit.

The `web` run. Credentials: two teams, a list of one username that may grow to two,
or has both from the start (seeding can stop inside it), and another list of one, one
new password, two request goroutines, three
seedings, and three events among requests, failures, reloads, restarts and
crashes. Injects: two teams, one file name, two goroutines, two inject numbers,
four requests, one failure or crash. View: two teams, two rounds, two events among
resets, crashes and failing refreshes. Configuration: two changes of the file,
each in two steps, four contents of which one is refused and one gets a
default that is refused, and two reload goroutines. A third event of the view or
a third reload repeats what two do.

*Deadlock* checking is off in every configuration: the loop may have returned
for good, and at the bounds it stops.

*Fairness* (`FairSpec`): weak fairness of the loop's own steps together
(`EngineStep`), because the goroutine runs whenever it is not blocked, and of
`Deadline`, because time passes. Runners, faults and crashes get none. In
`EngineControl`: weak fairness of each goroutine's own steps (main, each loop, a
request or a `ResetScores` once begun) and of the client's goroutine that closes
a channel. Nobody has to reset, pause or resume, and no message has to be
delivered before the loop looks. In `RunnerTask`: weak fairness of each task's
goroutine, of the deadline and of Redis dropping a key whose time has come. A
`Run` need not report, no runner has to take a task, nothing has to fail or exit.

### Properties that need an explanation

* `SavedRoundIsComplete` (action property) says what a save may do: as many
  results as pairs were counted and, for a number opened once, of exactly those
  pairs and measured for exactly this start.
* `NothingVanishes` relates five places: without a fault, each pair waited for
  is in the queue, with a runner, in the results list or collected.
* `UptimeIsHistory`, `CounterIsStreak` and `PenaltyPerViolation` compare the
  maps and the SLA rows with the rows counted so far, in every state: between
  commit and count too. They are claimed while no reset has met a round's
  processing and none has stopped half-way (`Calm`); what happens otherwise is
  the run `ledger_reset`. `unpaid` collects the pairs whose SLA insert failed or
  was overtaken by a crash: for these there may be fewer rows, never more.
* `PauseHolds` names the loops that may still open a round under a hold: those
  that were between their wait and their select when it was taken (`passed`). It
  holds with overlapping requests and with loops that a reset replaced, because
  a loop reads the field anew in every iteration.
* `FlagTellsHold` and `UnpausedRuns` are claimed for requests that do not
  overlap one another nor `Start`'s own writes (`overlapped`): two requests that
  pass the unlocked test together take the hold twice, and one resume then
  lowers the flag of an engine that stays held.
* `StaleLoopsEnd` excepts a reset that was dropped when the subscription was
  closed (`dropped`): the loop then panics on the closed channel. A loop that
  was blocked on a pause when the reset came stays blocked for good.

* `FreshAfterReset` excepts what the code really leaves open: a reset that meets a
  round (`crossed`), and a push into the new list by a runner that has not exited yet
  (`late`). `OneMoreAtMost` has no exception.
* `LossesAccountedFor` is about resets that meet a round. An old loop still blocked on
  the list takes a result of the new round, and an exiting runner loses the tasks in
  its hands: both happen in the run. The property says that nothing else is lost, and
  that each older loop takes one result at most. It excepts rounds that met something
  worse (`disturbed`). One of these is an old loop that has not even been *told* of the
  reset: it goes on popping from the new round's results, and the filter on the round
  number lets it, since both loops read one `CurrentRound`.
* `ImplementsSeasonLog` (refinement) says in one formula what these are
  for: with loops, lists, messages and runners beside one another, the scores a
  reader sees are those of one round after the other, from 1 again after each reset,
  and nothing else ever changes them.
* Every exception named in this list for `handover` and `web` is needed: without
  it TLC finds a state that violates the property in the same instance. With the
  exceptions the properties say that nothing else goes wrong.
* `SeedingHeals` speaks of a seeding that ran through. It excepts a failure that
  left a list or a team half done (`halfSeeded`), which no later start completes:
  a team with one credential counts as seeded. It excepts the usernames that came into
  a list after it was seeded (`grown`) for the same reason. A failing query, and a
  failure between two lists or two teams, does heal.
* `HistoryIsComplete` and `OnePcrPerTeam` hold until a second `Start` replaces a
  mutex in use (`swapped`).
* `EverySubmissionKept` excepts two submissions of one team at once (`rivals`):
  both may get one version and one file.
* `SeriesIsScore` compares the loop that builds the graph, for every order of the
  penalties, with what the tables say was earned and charged. It is claimed at rest
  and while no refresh was skipped or failed since the last good one (`behind`). It
  is about rounds with a row of the team: a round that was left out shows its
  penalties alone, or has no entry.
* `QuietIsCurrent` excepts a change without a Write event and reloads that
  crossed: the one that read the older file may then assign last.

### Findings

* `engine_one_per_round`: a crash makes the loop open a round number twice, and
  a result of the first attempt is then accepted, in place of one of the
  second, against the comment in `db/servicechecks.go:129`.
* `engine_stop`: an error of `GetTeams` ends the loop goroutine for good,
  against the comment in `main.go:55`.
* `ledger_reset`: a reset that meets the counting of a round leaves counts in
  memory, against the comment in `engine.go:302`.
* `control_missed`: a reset published before `waitForReset` has subscribed ends
  the loop and starts no other, against the comment in `engine.go:173-176`.

## 4. Proofs

Every safety property that a passing run checks on its small instance is also
proved for all values of the constants, the refinements and the action
properties included. No theorem about a specification has a hypothesis of its own;
the assumptions are those of the modules, which TLC evaluates in every run. Most of
the properties are not inductive: each section says what its inductive invariant
(`IInv`; `CredInv`, `InjInv`, `ConfInv`, `ViewInv` in the parts of `MCWeb`) adds and
why. The proofs show that it holds at first, one lemma per part of it for the step
with a case for each action, and the property from it.

| module | theorem | property |
|---|---|---|
| `RoundEngineProofs` | `TypeCorrect`, `RoundNumberStaysNew`, `SavedOncePerPair`, `NothingIsLost` | `TypeOK`, `RoundNumberIsNew`, `OneResultPerPair`, `NothingVanishes` |
| | `SavesAreComplete` | the action property `SavedRoundIsComplete` |
| | `Implements` | the refinement `ImplementsRoundLog` |
| `EngineControlProofs` | `TypeCorrect`, `FlagIsTrue`, `NumberStaysNew` | `TypeOK`, `FlagTellsHold`, `NumberIsNewAfterReset` |
| | `PauseKeepsHolding` | the action property `PauseHolds` |
| `HandoverProofs` | `TypeCorrect`, `LoopsLookInTime`, `RoundsAreFresh`, `LossesHaveCauses` | `TypeOK`, `OneMoreAtMost`, `FreshAfterReset`, `LossesAccountedFor` |
| | `ResetsMakeSeasons` | the refinement `ImplementsSeasonLog` |
| `RunnerTaskProofs` | `TypeCorrect`, `AttemptsStayApart`, `VerdictsAreEarned`, `ShownAfterPush` | `TypeOK`, `AttemptsApart`, `VerdictIsEarned`, `ShownIsPushed` |
| | `Implements` | the refinement `ImplementsTaskFate` |
| `ScoreLedgerProofs` | `TypeCorrect`, `UptimesAreHistory`, `CountersAreStreaks`, `PenaltiesArePaid` | `TypeOK`, `UptimeIsHistory`, `CounterIsStreak`, `PenaltyPerViolation` |
| | `LoadIsTheLoop`, `OwnOrderCounts` | `LoadSLAsIsTheLoop`; what order of the rows that loop needs |
| `CredentialsProofs` | `CredTypeCorrect`, `OneAtATime`, `HistoryLinksUp`, `SeedingIsComplete` | `CredTypeOK`, `OnePcrPerTeam`, `HistoryIsComplete`, `SeedingHeals` |
| `InjectsProofs` | `InjTypeCorrect`, `SubmissionsAreKept`, `DirectoriesMatch`, `DeletedInjectsStay` | `InjTypeOK`, `EverySubmissionKept`, `DirectoryMatchesRow`, `DeletedStaysDeleted` |
| `WebProofs` | `ConfTypeCorrect`, `ChecksFitTheRound`, `RestIsCurrent` | `ConfTypeOK`, `RoundOutlastsChecks`, `QuietIsCurrent` |
| | `ViewTypeCorrect`, `GraphIsScore` | `ViewTypeOK`, `SeriesIsScore` |
| | `WebTypeCorrect` | `WebTypeOK` |

### RoundEngine

For every finite set of teams and services, every set of runners, and all bounds
(`BoundsAssumption`, `VerdictAssumption`, `FiniteAssumption`).
`OneResultPerPair` speaks of saved rounds only, and a round is saved from results
that came through three other places. `IInv` adds what those places hold:

* `Apart` and `NoTaskTwice`: a task is at one place at a time (queued, with one
  runner, in the results list, collected) and there once.
* `Known`: every outstanding task was enqueued by a start of its round that has
  happened, and the current start has none for a pair still in `todo`.
* `OwnStart`: while a number opened once is running, whatever bears its number
  comes from its own start; so two results of one pair would be one task twice.
* `CollectedHere`, `OpenIsOpened`: what is collected bears the current number,
  and that number counts as opened.

Each action moves one task from a place to the next (`TakeKeepsApart`,
`PushKeepsApart`, `CollectKeepsApart`), adds one for a pair that leaves `todo`
(`EnqueueKeepsApart`), or forgets some (`ForgettingKeepsApart`); the lemmas on
`Append` and `Tail` (`AppendFacts`, `TailFacts`) carry the sequences.
`RoundNumberIsNew` is kept beside it: only a save adds a number, and it moves the
loop past it.

`NothingVanishes` follows from `NothingLost`, which says at which place the task
of each counted pair is, and `CountedOn`, that the loop counts as many results as
pairs it enqueued. The save then finds as many different pairs as it asked for,
so the same ones (`CollectedIsComplete`, on the cardinality of finite sets): that
is `SavedRoundIsComplete`. For the refinement, the end of an iteration records a
round that the log allows (`SavedIsRecordable`, `ClosingIsLogged`), a restart goes
back to the number after the last, and every other step stutters (`LogStep`).

### EngineControl

For any number of starts, resets, rounds and requests (`ControlBoundsAssumption`,
`StartPausedAssumption`). `PauseInv` says which wait groups exist (`Groups`,
`NotStarted`), that a blocked loop's group is held (`BlockedIsHeld`: otherwise a
release of one group could free a waiter of another under a hold), and that under
a hold every loop past its wait is in `passed` (`HoldIsOn`), from which `PauseHolds`
follows. `FlagInv` follows a request that is alone through its two writes
(`RequestAgrees`) and `Start` through its four (`StartAgrees`); outside both it is
`FlagTellsHold`. For `NumberIsNewAfterReset`, `NumberInv` follows a reset that meets
no round (`ResetIsClean`: the table stays empty till the number is set back, and no
loop is in a round) and the one loop that can save
(`BelowOrCounting`: the saved numbers are below the field's, or a loop is about to
raise it).

### Handover

For any finite set of pairs and any runners, starts, resets and rounds
(`HandoverBoundsAssumption`, `PairAssumption`). `IInv` has two halves. `Always` holds
whatever a reset meets: a replaced loop is gone or has a message (`Replaced`), the
locals of `rvb()` come and go with the round (`Locals`), Redis queues just the blocked
clients (`Queue`), and a round that took a result under its message looks before the
next pop (`OneMore`, hence `OneMoreAtMost`). On this half alone rests `LossesAccountedFor`,
with two facts of its own: in a round that met nothing worse, each task the latest
loop enqueued is on its way to it, went with a runner or was taken by an older loop
(`Kept`), and an older loop that took one did so after its message was told and takes
no second (`TookOne`). It holds for rounds with an older loop beside them, a reset that
met a round included. The other half is claimed of resets that meet no round:

* `Serial`: one loop at most is in a round, it is the latest, and no message is on
  its way to it.
* `Apart` and `Known`: a task is in one place, and of a pair that was enqueued.
* `Numbered` and `CollectedHere`: unless a push comes late, everything that may still
  become a result has a number below the round's, or its number and its opening. It
  is inductive across `ResetNumber`, which lowers the number, because of
* `Emptied`: by then the lists are empty and every runner with a task in hand is
  about to exit.

A save therefore finds one result of each pair, all of its own opening
(`CollectedIsComplete`), which is `FreshAfterReset`.

For the refinement the invariant grows by two facts about numbers: a round in
progress is of an opening there was (`Opened`), and while the log is not spoilt the
saved numbers lie below the latest loop's (`Rising`). Then every step of `Handover` is
one of `SeasonLog` or leaves its variables alone (`SeasonStep`): `Save` records, the
`Count` after it and all else of lists, messages and runners stutters (`SeasonLoop`,
`SeasonStays`), `Truncate` erases and `ResetNumber` renumbers, both with no round open
(`SeasonReset`, `NoneOpen`).

### RunnerTask

For any deliveries, number of attempts and faults (`AttemptsAssumption`,
`RunnerBoundsAssumption`). One channel serves all attempts of a task, and a `Run` that
was given up may still report. So `IInv` records what a task has heard: until its
deadline all attempts before the present one have failed (`Failed`), and the present
one runs, has its report in the channel (`OneReport`) or is the result (`Heard`).
After it only a pass must be backed by a report (`Backed`). `PushedLast`
relates the two writes at the end.

### ScoreLedger

For any pairs, any threshold and all bounds (`ThresholdAssumption`,
`LedgerBoundsAssumption`). What maps and SLA rows must hold is a function of the rows
counted so far. The lemmas say how each of these grows with one row (`OfAppend`,
`StreakAppend`, `ViolationsAppend`); `Aligned` says that the batch is what of the
table is not yet counted, so that counting a check moves just the next row into the
prefix; `Idle`, `Emptied` and `Wiped` follow a reset that misses the rounds until both
maps are empty.

`LoadIsTheLoop` is an induction over the rows, of any number. The library's induction
theorems take a predicate as a parameter, which no prover here instantiates;
`SetInduction` takes the set of the numbers it holds of instead, and follows from
the well-foundedness of `<`. `LoadRow` says that the closed form grows with a row
as the loop does, and `LoopIsLoad` that whatever grows so is the closed form.
`OwnOrderCounts` follows: rows of other pairs may be anywhere among those of a pair,
as the query, which asks for no order, may return them.

### Credentials

For any teams, requests and events; a list of usernames is finite and not empty, and
`NoPassword` is no password (`CredBoundsAssumption`, `CredlistAssumption`,
`NewPasswordAssumption`). That the configured lists share no username is no assumption
about the constants but a condition on the start and on each change of them, and
part of the invariant (`Listed`). While no mutex in use was replaced, a
request at work holds the one mutex of its team (`Owned`), so what it has read stays
true until it writes (`Unwritten`) and its line of the history links up with the last
one (`Recorded`). `SeedingHeals` needs that the originals of a list are there as a
whole or not at all, but for what came into it later (`Whole`), that a team has all of the originals or nothing
(`Copied`, `Filled`), and that what the seeding still has to visit covers what it wants
(`Visited`).

### Injects

For any teams, file names, handlers, requests and faults (`InjectBoundsAssumption`).
What a handler has read is true only while it works alone. `InjInv` is
`HandlerOK /\ Administered /\ Submitted`. `Tracked` says, for every inject nobody muddled,
what the handler at work on it may count on at each of its steps, and `Apart` that
there is one at most. For every inject and team without rivals, the version a
handler has read is above any in the table (`Newer`), and the row it inserted is there
or was deleted with its inject, and is not answered yet (`Stored`). Numbers of injects are never given twice
(`Given`), and versions are fewer than requests (`FewVersions`).

### ConfigReload and ScoresView

For any settings made of natural numbers and any reloads and changes
(`ContentAssumption`); for any teams, penalty, rounds and events (`ViewAssumption`).
`RoundOutlastsChecks` needs that the settings in use were accepted (`InUse`) and how far
the length of the round has come (`Planned`). `QuietIsCurrent` needs to know who still
has to bring the file: an event or the timer (`Ahead`), or a reload that has not
read or has read this very file (`Coming`); and that one which has read another
file is followed by such a reload (`Followed`; `Alone` without crossing). `FewEvents`
bounds the Write events. `SeriesIsScore` needs the same of the view: unless it is
behind it holds the points of the tables, or a refresh that reads has got them, or one is
to come (`Shown`); and the series has a last round to end at (`HasLast`). That the loop
over the penalties leaves `Series`, the points less all penalties taken off an entry,
is an induction over them (`OnePenaltyMore`, `LoopIsSeries`), and in any order those
are the penalties of the team up to the round (`AnyOrder`). Teams are finite in number
(`ViewAssumption`).

### MCWeb

Whichever component a behaviour is about, it is one of every component's own
specification, as the others stand still (`PartsAreComponents`). So what is proved of
the components holds of the behaviours the run explores, `WebTypeOK` first.

### Model-checked only

* The liveness properties `RoundCloses`, `StaleLoopsEnd`, `UnpausedRuns`, `TakenIsSettled`
  and `RunningEnds`: fairness is out of the prover's reach.
* That the findings' properties are violated: their counterexamples come from TLC.

## 5. Plan and limits

All modules of the plan are written, and all safety properties that the runs check
are proved. What is left would be new statements: that the maps of `ScoreLedger`
implement an abstract ledger which counts a row when it is saved, and that
`EngineControl` and `Handover` agree on the steps they share.

### Not modelled

* *A threshold that changes at run time.* In `ScoreLedger` it is a constant. The
  `slathreshold` of a service (`README.md:324`) is read nowhere, so there is
  nothing to model of it.
* *Two overlapping calls of `ResetScores`.*
* *The order of a pair's rows* in what the database returns to `LoadSLAs`: the query
  leaves it open and the model takes it to be that of insertion. The order among
  different pairs does not matter (`OwnOrderCounts`).
* *A failing `GetLastRound`*: what gorm does with a round numbered 0 is outside the
  repository.
* *Sessions and logins* (`www/api/oidc.go`, `authentication.go`): tokens,
  cryptography and library calls; they touch no state of the engine.
* *Team and service toggles, red team, announcements, competition data*: handlers
  of one statement, without state of their own. A toggle is one of the reasons of
  `SkipPair` in `RoundEngine`.
* *Individual checks* (`engine/checks`): network input and output. A check is a
  verdict; the goroutine and deadline around it are in `RunnerTask`.
* *Routing, middleware, templates and browser code*: `static/assets/custom.js`
  switches the colour theme, and the other scripts under `static/` are third-party
  libraries. None takes part in scoring.
* *The koth round*: an empty stub.
* *Torn reads of the configuration*: `SetConfig` assigns a large structure without a
  lock. The model makes this one step; a reader in the middle of it is a data race
  with no defined outcome, and `RoundOutlastsChecks` excepts a reload between two
  reads as well (`mixed`).
