---------------------------- MODULE Credentials ----------------------------
(***************************************************************************)
(* The credentials the checks log in with: their seeding from the          *)
(* configured lists, the changes teams and administrators ask for, and the *)
(* history of those changes (engine/credentials.go, engine/db/credentials  *)
(* .go).                                                                   *)
(*                                                                         *)
(* Every Start seeds what is missing, row by row, and stops at the first   *)
(* error.  It makes a new mutex for every team first, also where requests  *)
(* use the old ones.  A request looks the mutex up when it locks, and once *)
(* more, for its deferred unlock, when it has the lock.  It writes each    *)
(* credential and its line of history in two statements.                   *)
(*                                                                         *)
(* A list is the set of its usernames, to which its file may add; another  *)
(* list has others.  Seeding inserts rows nobody else writes, so what one  *)
(* call inserts before it ends or fails is one step.                       *)
(* The names of this module bear a prefix where another module may be read *)
(* beside it.                                                              *)
(***************************************************************************)
EXTENDS Integers, Sequences, FiniteSets

CONSTANTS
  CredTeam,        \* teams
  Credlist,        \* what the file of a credential list may hold: usernames
  NewPassword,     \* what requests ask for
  PcrRequest,      \* goroutines of the web server that serve requests
  MaxSeedings,     \* bound: calls of Start
  MaxCredEvents    \* bound: requests, calls of Start after the first, changes of
                   \* the lists, failing statements and crashes together

ASSUME CredBoundsAssumption ==
  MaxSeedings \in Nat \ {0} /\ MaxCredEvents \in Nat

ASSUME CredlistAssumption == \A list \in Credlist : IsFiniteSet(list) /\ list # {}

VARIABLES
  configured,   \* the lists of the configuration
  teams,        \* the rows of the team table
  originals,    \* the usernames in the table of originals
  creds,        \* the password of each team and username, or NoPassword
  pcrs,         \* the history of each team and username, oldest first
  seeding,      \* where EnsureCredentialsSeeded is
  toSeed, toFill,  \* the lists and teams its loop has still to visit
  wanted,       \* the usernames configured when it began, but for those in ...
  grown,        \* ... that came into a list after it was seeded (history)
  credMutex,    \* the mutex each team has in the map; 0 is none
  credHeld,     \* the mutexes held
  pcr,          \* what each request is doing
  credFatal,    \* the process died of an unlock of an unlocked mutex
  \* history, and counters that only the bounds read
  halfSeeded, torn, swapped, seedings, credEvents

seedVars == <<seeding, toSeed, toFill, wanted, grown, seedings>>
rowVars  == <<originals, creds, pcrs>>
lockVars == <<credMutex, credHeld>>

credVars == <<configured, teams, rowVars, seedVars, lockVars, pcr, credFatal,
              halfSeeded, torn, swapped, credEvents>>

-----------------------------------------------------------------------------

Username == UNION Credlist

Original == "original"

NoPassword == "none"

ASSUME NewPasswordAssumption == NoPassword \notin NewPassword

Password == NewPassword \cup {Original}

Disjoint(lists) == \A one, other \in lists : one = other \/ one \cap other = {}

NoPcr == [at |-> "idle"]

CredEvent == credEvents < MaxCredEvents /\ credEvents' = credEvents + 1

\* Beside decisions of the code stand the wrong ones that the checks tell
\* them from.

\* FirstOrCreate leaves the row that is there.
Overwritten(old, new) == new
FirstOrCreated(old, new) == IF old = NoPassword THEN new ELSE old

\* A start after the first fills the teams that have nothing.
NobodyIsNew(t) == FALSE
HasNothing(t) == \A n \in Username : creds[t, n] = NoPassword

\* Lock takes the mutex.
WithoutLock(mutexes, m) == mutexes
Locked(mutexes, m) == mutexes \cup {m}

CredInit ==
  /\ configured \in {lists \in SUBSET Credlist : lists # {} /\ Disjoint(lists)}
  /\ teams \in (SUBSET CredTeam) \ {{}}
  /\ originals = {}
  /\ creds = [c \in CredTeam \X Username |-> NoPassword]
  /\ pcrs = [c \in CredTeam \X Username |-> <<>>]
  /\ seeding = "mutexes" /\ toSeed = {} /\ toFill = {} /\ seedings = 1
  /\ wanted = {} /\ grown = {}
  /\ credMutex = [t \in CredTeam |-> 0] /\ credHeld = {}
  /\ pcr = [r \in PcrRequest |-> NoPcr] /\ credFatal = FALSE
  /\ halfSeeded = FALSE /\ torn = {} /\ swapped = FALSE
  /\ credEvents = 0

-----------------------------------------------------------------------------
(* EnsureCredentialsSeeded *)

SeedTo(where, lists, some) == seeding' = where /\ toSeed' = lists /\ toFill' = some

MakeMutexes ==
  /\ seeding = "mutexes"
  /\ credMutex' = [t \in CredTeam |-> IF t \in teams THEN seedings ELSE credMutex[t]]
  /\ swapped' = (swapped \/ \E r \in PcrRequest : pcr[r].at # "idle")
  /\ SeedTo("check", {}, {}) /\ wanted' = (UNION configured) \ grown
  /\ UNCHANGED <<configured, teams, rowVars, grown, seedings, credHeld, pcr, credFatal, halfSeeded,
                 torn, credEvents>>

CheckSeeded ==
  /\ seeding = "check"
  /\ IF originals = {} THEN SeedTo("originals", configured, {})
                       ELSE SeedTo("newTeams", {}, teams)
  /\ UNCHANGED <<configured, teams, rowVars, wanted, grown, seedings, lockVars, pcr, credFatal,
                 halfSeeded, torn, swapped, credEvents>>

\* SeedOriginalCredentials: all of the list, or some of it and an error.
SeedOriginals(list, next, some) ==
  \E done \in SUBSET (list \ originals) :
    /\ originals' = originals \cup done
    /\ IF list \subseteq originals'
         THEN SeedTo(next, toSeed \ {list}, some) /\ UNCHANGED <<halfSeeded, credEvents>>
         ELSE /\ CredEvent /\ SeedTo("done", {}, {})
              /\ halfSeeded' = (halfSeeded \/ done # {})

\* SeedTeamCredentials: a copy of every original there is, or of some.
FillTeam(t, next) ==
  \E done \in SUBSET originals :
    /\ creds' = [c \in DOMAIN creds |->
                   IF c[1] = t /\ c[2] \in done
                     THEN FirstOrCreated(creds[c], Original) ELSE creds[c]]
    /\ IF done = originals
         THEN SeedTo(next, toSeed, toFill \ {t}) /\ UNCHANGED <<halfSeeded, credEvents>>
         ELSE /\ CredEvent /\ SeedTo("done", {}, {})
              /\ halfSeeded' = (halfSeeded \/ done # {} \/ seeding = "spread")

SeedFirst ==
  /\ seeding = "originals"
  /\ IF toSeed = {}
       THEN SeedTo("teams", {}, teams) /\ UNCHANGED <<originals, halfSeeded, credEvents>>
       ELSE \E list \in toSeed : SeedOriginals(list, "originals", {})
  /\ UNCHANGED <<configured, teams, creds, pcrs, wanted, grown, seedings, lockVars, pcr, credFatal,
                 torn, swapped>>

FillFirst ==
  /\ seeding = "teams"
  /\ IF toFill = {}
       THEN SeedTo("done", {}, {}) /\ UNCHANGED <<creds, halfSeeded, credEvents>>
       ELSE \E t \in toFill : FillTeam(t, "teams")
  /\ UNCHANGED <<configured, teams, originals, pcrs, wanted, grown, seedings, lockVars, pcr, credFatal,
                 torn, swapped>>

FillNewTeams ==
  /\ seeding = "newTeams"
  /\ \/ /\ toFill = {} /\ SeedTo("newLists", configured, {})
        /\ UNCHANGED <<creds, halfSeeded, credEvents>>
     \/ \E t \in toFill :
          IF HasNothing(t)
            THEN FillTeam(t, "newTeams")
            ELSE SeedTo("newTeams", {}, toFill \ {t}) /\ UNCHANGED <<creds, halfSeeded, credEvents>>
  /\ UNCHANGED <<configured, teams, originals, pcrs, wanted, grown, seedings, lockVars, pcr, credFatal,
                 torn, swapped>>

SeedNewLists ==
  /\ seeding = "newLists"
  /\ \/ /\ toSeed = {} /\ SeedTo("done", {}, {})
        /\ UNCHANGED <<originals, halfSeeded, credEvents>>
     \/ \E list \in toSeed :
          IF list \cap originals = {}
            THEN SeedOriginals(list, "spread", teams)
            ELSE SeedTo("newLists", toSeed \ {list}, {})
                 /\ UNCHANGED <<originals, halfSeeded, credEvents>>
  /\ UNCHANGED <<configured, teams, creds, pcrs, wanted, grown, seedings, lockVars, pcr, credFatal,
                 torn, swapped>>

SpreadNewList ==
  /\ seeding = "spread"
  /\ IF toFill = {}
       THEN SeedTo("newLists", toSeed, {}) /\ UNCHANGED <<creds, halfSeeded, credEvents>>
       ELSE \E t \in toFill : FillTeam(t, "spread")
  /\ UNCHANGED <<configured, teams, originals, pcrs, wanted, grown, seedings, lockVars, pcr, credFatal,
                 torn, swapped>>

\* A score reset makes main() call Start again.
SeedAgain ==
  /\ seeding = "done" /\ CredEvent /\ seedings < MaxSeedings
  /\ seedings' = seedings + 1
  /\ SeedTo("mutexes", {}, {})
  /\ UNCHANGED <<configured, teams, rowVars, wanted, grown, lockVars, pcr, credFatal,
                 halfSeeded, torn, swapped>>

\* A query for the teams, the originals or a team's rows fails, before anything
\* is inserted: the seeding is over.
SeedQueryFails ==
  /\ \/ seeding \in {"mutexes", "check"}
     \/ seeding = "newTeams" /\ toFill # {}
     \/ seeding = "newLists" /\ toSeed # {}
  /\ CredEvent /\ SeedTo("done", {}, {})
  /\ UNCHANGED <<configured, teams, rowVars, wanted, grown, seedings, lockVars, pcr, credFatal,
                 halfSeeded, torn, swapped>>

\* The watcher brings a list more.
AddList ==
  /\ CredEvent
  /\ \E list \in Credlist : /\ list \cap UNION configured = {}
                            /\ configured' = configured \cup {list}
  /\ UNCHANGED <<teams, rowVars, seedVars, lockVars, pcr, credFatal, halfSeeded, torn,
                 swapped>>

\* The file of a list gets more usernames. It is read only while the table of
\* originals has nothing of the list.
GrowList ==
  /\ CredEvent
  /\ \E list \in configured, more \in Credlist :
       /\ list \subseteq more /\ more # list /\ (more \ list) \cap UNION configured = {}
       /\ configured' = (configured \ {list}) \cup {more}
       /\ toSeed' = IF list \in toSeed THEN (toSeed \ {list}) \cup {more} ELSE toSeed
       /\ grown' = IF list \cap originals = {} THEN grown ELSE grown \cup (more \ list)
  /\ UNCHANGED <<teams, rowVars, seeding, toFill, wanted, seedings, lockVars, pcr, credFatal,
                 halfSeeded, torn, swapped>>

-----------------------------------------------------------------------------
(* UpdateCredentials and ResetCredentials *)

GoOn(r, where) == pcr' = [pcr EXCEPT ![r].at = where]

\* The request looks its team's mutex up. One that is not there is a panic,
\* which the HTTP server recovers: the request ends as if it had not been.
Ask(r) ==
  /\ pcr[r] = NoPcr /\ CredEvent
  /\ \E t \in CredTeam, list \in configured, kind \in {"update", "reset"} :
       /\ credMutex[t] # 0
       /\ \E names \in (SUBSET list) \ {{}}, password \in NewPassword :
            /\ kind = "reset" => names = list
            /\ pcr' = [pcr EXCEPT ![r] =
                 [at |-> "lock", kind |-> kind, team |-> t, names |-> names, name |-> "",
                  old |-> [n \in names |-> NoPassword], mutex |-> <<t, credMutex[t]>>,
                  new |-> IF kind = "reset" THEN Original ELSE password]]
  /\ UNCHANGED <<configured, teams, rowVars, seedVars, lockVars, credFatal, halfSeeded, torn,
                 swapped>>

\* Lock returns; the deferred call keeps the mutex that is in the map now. A
\* reset goes on to read its rows and their originals.
AcquireMutex(r) ==
  /\ pcr[r].at = "lock" /\ pcr[r].mutex \notin credHeld
  /\ credHeld' = Locked(credHeld, pcr[r].mutex)
  /\ LET t == pcr[r].team
         found == IF pcr[r].kind = "update" THEN pcr[r].names
                  ELSE {n \in pcr[r].names \cap originals : creds[t, n] # NoPassword} IN
       pcr' = [pcr EXCEPT ![r].at = "next", ![r].mutex = <<t, credMutex[t]>>,
                          ![r].names = found, ![r].old = [n \in found |-> creds[t, n]]]
  /\ UNCHANGED <<configured, teams, rowVars, seedVars, credMutex, credFatal, halfSeeded, torn,
                 swapped, credEvents>>

\* The next username. An update reads its row now, and skips one that is not
\* there; it writes the row first and the history after, a reset the reverse.
NextName(r) ==
  /\ pcr[r].at = "next"
  /\ \E n \in pcr[r].names :
       LET row == creds[pcr[r].team, n] IN
         IF pcr[r].kind = "update" /\ row = NoPassword
           THEN pcr' = [pcr EXCEPT ![r].names = @ \ {n}]
           ELSE pcr' = [pcr EXCEPT ![r].names = @ \ {n}, ![r].name = n,
                          ![r].old[n] = IF pcr[r].kind = "update" THEN row ELSE @,
                          ![r].at = IF pcr[r].kind = "update" THEN "save" ELSE "log"]
  /\ UNCHANGED <<configured, teams, rowVars, seedVars, lockVars, credFatal, halfSeeded, torn,
                 swapped, credEvents>>

First(r) == pcr[r].at = IF pcr[r].kind = "update" THEN "save" ELSE "log"

\* After the first of the two statements comes the other.
After(r) == IF First(r) THEN (IF pcr[r].kind = "update" THEN "log" ELSE "save") ELSE "next"

SaveRow(r) ==
  /\ pcr[r].at = "save"
  /\ creds' = [creds EXCEPT ![<<pcr[r].team, pcr[r].name>>] = pcr[r].new]
  /\ GoOn(r, After(r))
  /\ UNCHANGED <<configured, teams, originals, pcrs, seedVars, lockVars, credFatal, halfSeeded,
                 torn, swapped, credEvents>>

LogChange(r) ==
  /\ pcr[r].at = "log"
  /\ pcrs' = [pcrs EXCEPT ![<<pcr[r].team, pcr[r].name>>] =
                Append(@, [old |-> pcr[r].old[pcr[r].name], new |-> pcr[r].new])]
  /\ GoOn(r, After(r))
  /\ UNCHANGED <<configured, teams, originals, creds, seedVars, lockVars, credFatal, halfSeeded,
                 torn, swapped, credEvents>>

\* A statement fails: the request gives up, half-way through a change or not.
StatementFails(r) ==
  /\ pcr[r].at \in {"save", "log"} /\ CredEvent
  /\ torn' = IF First(r) THEN torn ELSE torn \cup {<<pcr[r].team, pcr[r].name>>}
  /\ GoOn(r, "unlock")
  /\ UNCHANGED <<configured, teams, rowVars, seedVars, lockVars, credFatal, halfSeeded, swapped>>

\* The deferred Unlock; of a mutex nobody holds it is fatal to the process.
ReleaseMutex(r) ==
  /\ pcr[r].at = "unlock" \/ (pcr[r].at = "next" /\ pcr[r].names = {})
  /\ credHeld' = credHeld \ {pcr[r].mutex}
  /\ credFatal' = (pcr[r].mutex \notin credHeld)
  /\ pcr' = [pcr EXCEPT ![r] = NoPcr]
  /\ UNCHANGED <<configured, teams, rowVars, seedVars, credMutex, halfSeeded, torn, swapped,
                 credEvents>>

-----------------------------------------------------------------------------

\* The server dies and is started again, with the teams there are by then.
CredCrash ==
  /\ CredEvent /\ seedings < MaxSeedings
  /\ seedings' = seedings + 1 /\ SeedTo("mutexes", {}, {})
  /\ teams' \in {more \in SUBSET CredTeam : teams \subseteq more}
  /\ credMutex' = [t \in CredTeam |-> 0] /\ credHeld' = {}
  /\ pcr' = [r \in PcrRequest |-> NoPcr]
  /\ torn' = torn \cup {<<pcr[r].team, pcr[r].name>> :
                         r \in {q \in PcrRequest : pcr[q].at \in {"save", "log"} /\ ~First(q)}}
  /\ halfSeeded' = (halfSeeded \/ seeding = "spread")
  /\ UNCHANGED <<configured, rowVars, wanted, grown, credFatal, swapped>>

SeedStep ==
  \/ MakeMutexes \/ CheckSeeded \/ SeedFirst \/ FillFirst \/ FillNewTeams
  \/ SeedNewLists \/ SpreadNewList \/ SeedAgain \/ SeedQueryFails

PcrStep(r) ==
  \/ Ask(r) \/ AcquireMutex(r) \/ NextName(r) \/ SaveRow(r) \/ LogChange(r)
  \/ StatementFails(r) \/ ReleaseMutex(r)

CredNext ==
  /\ ~credFatal
  /\ SeedStep \/ AddList \/ GrowList \/ CredCrash \/ \E r \in PcrRequest : PcrStep(r)

CredSpec == CredInit /\ [][CredNext]_credVars

-----------------------------------------------------------------------------
(* Properties *)

CredTypeOK ==
  /\ configured \subseteq Credlist /\ teams \subseteq CredTeam /\ originals \subseteq Username
  /\ wanted \subseteq Username /\ grown \subseteq Username
  /\ creds \in [CredTeam \X Username -> Password \cup {NoPassword}]
  /\ pcrs \in [CredTeam \X Username -> Seq([old : Password, new : Password])]
  /\ toSeed \subseteq configured /\ toFill \subseteq teams
  /\ credMutex \in [CredTeam -> 0 .. MaxSeedings]
  /\ credHeld \subseteq CredTeam \X (1 .. MaxSeedings)
  /\ torn \subseteq CredTeam \X Username

\* A request is between the two statements of a change.
Changing(t, n) ==
  \E r \in PcrRequest : /\ pcr[r].at \in {"save", "log"} /\ ~First(r)
                        /\ pcr[r].team = t /\ pcr[r].name = n

\* The history of every credential is the way from its original to the
\* password it has, change by change, through seedings, restarts and requests
\* of both kinds: unless a change stopped between its two statements, or Start
\* replaced a mutex in use (db/credentials.go:30-40, 92-165).
HistoryIsComplete ==
  ~swapped => \A t \in CredTeam, n \in Username :
    <<t, n>> \in torn \/ Changing(t, n) \/
      LET h == pcrs[t, n] IN
        IF h = <<>>
          THEN creds[t, n] \in {NoPassword, Original}
          ELSE /\ h[1].old = Original /\ h[Len(h)].new = creds[t, n]
               /\ \A i \in 1 .. Len(h) - 1 : h[i].new = h[i + 1].old

\* A seeding that visits everything it has to leaves no team without a
\* credential: not of the lists configured when it began and not of any list
\* seeded before, whatever failed then; except for usernames that came into a
\* list after it was seeded, and unless an earlier seeding stopped inside a
\* list or a team, or before a new list was with every team
\* (engine/credentials.go:34-119).
SeedingHeals ==
  /\ \/ seeding = "newLists" /\ toSeed = {}
     \/ seeding = "teams" /\ toFill = {}
  /\ ~halfSeeded
  => \A t \in teams, n \in wanted \cup originals : creds[t, n] # NoPassword

\* One request at a time works on a team's credentials, and none dies of its
\* own unlock, unless Start replaced the mutex of a request under way
\* (engine/credentials.go:30, 140-141, 209-210).
OnePcrPerTeam ==
  ~swapped => /\ ~credFatal
              /\ \A q, r \in PcrRequest :
                   (/\ pcr[q].at \notin {"idle", "lock"} /\ pcr[r].at \notin {"idle", "lock"}
                    /\ pcr[q].team = pcr[r].team) => q = r

=============================================================================
