------------------------------ MODULE Injects ------------------------------
(***************************************************************************)
(* Injects and the submissions of teams: rows in the database beside files *)
(* on disk, written by HTTP handlers that run at the same time and hold no *)
(* lock (engine/db/injects.go, engine/db/submissions.go, www/api/injects   *)
(* .go, www/api/submissions.go).                                           *)
(*                                                                         *)
(* A handler reads, writes rows and writes files in steps of its own; one  *)
(* that fails or dies leaves what it has done.  The database refuses a     *)
(* submission of an inject that is not there, and the deletion of an       *)
(* inject that has one (the foreign key), and never gives a number twice.  *)
(* A handler that refuses its request changes nothing and is left out.     *)
(* Submissions bear the same file name: the worst case.                    *)
(***************************************************************************)
EXTENDS Integers, FiniteSets

CONSTANTS
  InjTeam,         \* teams
  FileName,        \* names of the files of injects
  Handler,         \* goroutines of the web server that serve requests
  MaxInjects,      \* bound: numbers of injects
  MaxInjRequests,  \* bound: requests
  MaxInjFaults     \* bound: failing calls and crashes

ASSUME InjectBoundsAssumption == {MaxInjects, MaxInjRequests, MaxInjFaults} \subseteq Nat

VARIABLES
  \* the database
  injRows,    \* the file names of the injects there are, by number
  subRows,    \* submissions: [inject, team, version, upload]
  nextInject, \* the sequence of inject numbers
  \* the disk
  injDirs,    \* the injects with a directory
  injFiles,   \* pairs of an inject and the name of a file in its directory
  subFiles,   \* submission files: [inject, team, version, upload], one per version
  \* the web server
  handler,    \* what each handler is doing
  \* history, and counters that only the bounds read
  accepted,   \* the submissions that were answered with success
  rivals,     \* pairs of inject and team with two submissions at once
  muddled,    \* injects with two administrators' requests at once, or a failed one
  deleted,    \* injects whose row was deleted
  emptied,    \* submissions deleted with their inject
  injRequests, injFaults

diskVars == <<injDirs, injFiles, subFiles>>

injHistory == <<accepted, rivals, muddled, deleted, emptied>>

injVars == <<injRows, subRows, nextInject, diskVars, handler, injHistory, injRequests,
             injFaults>>

-----------------------------------------------------------------------------

InjectId == 1 .. MaxInjects

Upload == 1 .. MaxInjRequests

Submission == [inject : InjectId, team : InjTeam, version : Upload, upload : Upload]

Resting == [kind |-> "none", at |-> "rest"]

\* A new request, which is the count-th.
Request(r, what) ==
  /\ handler[r] = Resting /\ injRequests < MaxInjRequests
  /\ injRequests' = injRequests + 1
  /\ handler' = [handler EXCEPT ![r] = what]

InjFault == injFaults < MaxInjFaults /\ injFaults' = injFaults + 1

Proceed(r, where) == handler' = [handler EXCEPT ![r].at = where]

Answer(r) == handler' = [handler EXCEPT ![r] = Resting]

\* The administrators' requests under way that work on inject i.
WorkOn(i) == {r \in Handler : handler[r].kind \in {"create", "update", "delete"}
                                /\ handler[r].inject = i}

\* The submissions under way of a team to inject i.
Submitting(i, t) == {r \in Handler : /\ handler[r].kind = "submit"
                                     /\ handler[r].inject = i /\ handler[r].team = t}

Path(s) == <<s.inject, s.team, s.version>>

SubmissionsOf(i, t) == {s \in subRows : s.inject = i /\ s.team = t}

\* BeforeCreate: the version after the highest there is. A wrong one forgets
\* that the highest is taken.
HighestVersion(i, t) ==
  IF SubmissionsOf(i, t) = {} THEN 1
  ELSE CHOOSE v \in {s.version : s \in SubmissionsOf(i, t)} :
         \A s \in SubmissionsOf(i, t) : s.version <= v
NextVersion(i, t) ==
  IF SubmissionsOf(i, t) = {} THEN 1
  ELSE 1 + CHOOSE v \in {s.version : s \in SubmissionsOf(i, t)} :
             \A s \in SubmissionsOf(i, t) : s.version <= v

\* The names an update leaves in the row once it has removed files. A wrong one
\* keeps those of the row.
KeepsNames(names, removed) == names
RemainingNames(names, removed) == names \ removed

\* The number under which an update of an inject it did not find is saved: a
\* new one. A wrong one takes the number of the request.
NumberAsked(r) == handler[r].asked
NumberSaved(r) == nextInject

InjInit ==
  /\ injRows = [i \in {} |-> {}] /\ subRows = {} /\ nextInject = 1
  /\ injDirs = {} /\ injFiles = {} /\ subFiles = {}
  /\ handler = [r \in Handler |-> Resting]
  /\ accepted = {} /\ rivals = {} /\ muddled = {} /\ deleted = {} /\ emptied = {}
  /\ injRequests = 0 /\ injFaults = 0

-----------------------------------------------------------------------------
(* CreateSubmission *)

\* The inject is there, and open.
BeginSubmission(r) ==
  /\ \E i \in DOMAIN injRows, t \in InjTeam :
       /\ Request(r, [kind |-> "submit", at |-> "version", inject |-> i, team |-> t,
                      version |-> 0, upload |-> injRequests + 1])
       /\ rivals' = IF Submitting(i, t) # {} THEN rivals \cup {<<i, t>>} ELSE rivals
  /\ UNCHANGED <<injRows, subRows, nextInject, diskVars, accepted, muddled, deleted, emptied,
                 injFaults>>

ReadVersion(r) ==
  /\ handler[r].at = "version"
  /\ handler' = [handler EXCEPT ![r].at = "insert",
                   ![r].version = NextVersion(handler[r].inject, handler[r].team)]
  /\ UNCHANGED <<injRows, subRows, nextInject, diskVars, injHistory, injRequests, injFaults>>

RowOf(r) == [inject |-> handler[r].inject, team |-> handler[r].team,
             version |-> handler[r].version, upload |-> handler[r].upload]

InsertSubmission(r) ==
  /\ handler[r].at = "insert"
  /\ IF handler[r].inject \in DOMAIN injRows
       THEN subRows' = subRows \cup {RowOf(r)} /\ Proceed(r, "store")
       ELSE Answer(r) /\ UNCHANGED subRows
  /\ UNCHANGED <<injRows, nextInject, diskVars, injHistory, injRequests, injFaults>>

\* SafeCreate truncates a file that is there. Failing before or after it, the
\* row stays behind.
StoreFile(r) ==
  /\ handler[r].at = "store"
  /\ LET others == {s \in subFiles : Path(s) # Path(RowOf(r))} IN
       \/ /\ subFiles' = others \cup {RowOf(r)}
          /\ accepted' = accepted \cup {RowOf(r)} /\ UNCHANGED injFaults
       \/ InjFault /\ subFiles' \in {subFiles, others} /\ UNCHANGED accepted
  /\ Answer(r)
  /\ UNCHANGED <<injRows, subRows, nextInject, injDirs, injFiles, rivals, muddled, deleted,
                 emptied, injRequests>>

-----------------------------------------------------------------------------
(* CreateInject and UpdateInject *)

Muddle(i) == muddled' = muddled \cup {i}

MuddleIfShared(i) == muddled' = IF WorkOn(i) # {} THEN muddled \cup {i} ELSE muddled

CreateInject(r) ==
  /\ nextInject \in InjectId
  /\ \E some \in SUBSET FileName :
       /\ Request(r, [kind |-> "create", at |-> "files", inject |-> nextInject, files |-> some])
       /\ injRows' = [i \in DOMAIN injRows \cup {nextInject} |->
                        IF i = nextInject THEN some ELSE injRows[i]]
  /\ nextInject' = nextInject + 1
  /\ UNCHANGED <<subRows, diskVars, accepted, rivals, muddled, deleted, emptied, injFaults>>

Stop(r) == InjFault /\ Muddle(handler[r].inject) /\ Answer(r)

\* The files of a request written to the directory, or some and an error, the
\* last of them perhaps without its content.
WriteFiles(r, next) ==
  \E done \in SUBSET handler[r].files :
    /\ injFiles' = injFiles \cup {handler[r].inject} \X done
    /\ \/ done = handler[r].files /\ next /\ UNCHANGED <<muddled, injFaults>>
       \/ Stop(r)

\* The directory is made first, or it is not and there are no files.
WriteNewFiles(r) ==
  /\ handler[r].at = "files"
  /\ \/ injDirs' = injDirs \cup {handler[r].inject} /\ WriteFiles(r, Answer(r))
     \/ Stop(r) /\ UNCHANGED <<injDirs, injFiles>>
  /\ UNCHANGED <<injRows, subRows, nextInject, subFiles, accepted, rivals, deleted, emptied,
                 injRequests>>

\* The row is read; an inject that is not there is the zero inject, 0.
BeginUpdate(r) ==
  /\ \E asked \in InjectId, keep, some \in SUBSET FileName :
       LET i == IF asked \in DOMAIN injRows THEN asked ELSE 0 IN
         /\ Request(r, [kind |-> "update", at |-> "remove", inject |-> i, asked |-> asked,
                        keep |-> keep, files |-> some,
                        names |-> IF i = 0 THEN {} ELSE injRows[i]])
         /\ MuddleIfShared(i)
  /\ UNCHANGED <<injRows, subRows, nextInject, diskVars, accepted, rivals, deleted, emptied,
                 injFaults>>

\* What is in the directory and not to be kept goes, or some of it.
RemoveFiles(r) ==
  /\ handler[r].at = "remove"
  /\ LET i == handler[r].inject
         old == {n \in FileName \ handler[r].keep : <<i, n>> \in injFiles} IN
       \E done \in SUBSET old :
         /\ injFiles' = injFiles \ ({i} \X done)
         /\ IF done = old
              THEN /\ handler' = [handler EXCEPT ![r].at = "add",
                                    ![r].names = RemainingNames(@, old)]
                   /\ UNCHANGED <<muddled, injFaults>>
              ELSE Stop(r)
  /\ UNCHANGED <<injRows, subRows, nextInject, injDirs, subFiles, accepted, rivals, deleted,
                 emptied, injRequests>>

\* New files need the directory, which an inject saved by an update never has.
AddFiles(r) ==
  /\ handler[r].at = "add"
  /\ IF handler[r].files # {} /\ handler[r].inject \notin injDirs
       THEN Answer(r) /\ UNCHANGED <<injFiles, muddled, injFaults>>
       ELSE WriteFiles(r, handler' = [handler EXCEPT ![r].at = "save",
                                        ![r].names = @ \cup handler[r].files])
  /\ UNCHANGED <<injRows, subRows, nextInject, injDirs, subFiles, accepted, rivals, deleted,
                 emptied, injRequests>>

\* gorm's Save updates the row, and inserts it when there is none.
SaveInject(r) ==
  /\ handler[r].at = "save"
  /\ \/ LET new == handler[r].inject = 0
            i == IF new THEN NumberSaved(r) ELSE handler[r].inject IN
          /\ i \in InjectId
          /\ injRows' = [j \in DOMAIN injRows \cup {i} |->
                           IF j = i THEN handler[r].names ELSE injRows[j]]
          /\ nextInject' = IF new THEN nextInject + 1 ELSE nextInject
          /\ UNCHANGED <<muddled, injFaults>>
     \/ InjFault /\ Muddle(handler[r].inject) /\ UNCHANGED <<injRows, nextInject>>
  /\ Answer(r)
  /\ UNCHANGED <<subRows, diskVars, accepted, rivals, deleted, emptied, injRequests>>

-----------------------------------------------------------------------------
(* DeleteInject *)

BeginDelete(r) ==
  /\ \E i \in DOMAIN injRows :
       /\ Request(r, [kind |-> "delete", at |-> "submissions", inject |-> i])
       /\ MuddleIfShared(i)
  /\ UNCHANGED <<injRows, subRows, nextInject, diskVars, accepted, rivals, deleted, emptied,
                 injFaults>>

DeleteSubmissions(r) ==
  /\ handler[r].at = "submissions"
  /\ subRows' = {s \in subRows : s.inject # handler[r].inject}
  /\ emptied' = emptied \cup {s \in subRows : s.inject = handler[r].inject}
  /\ Proceed(r, "inject")
  /\ UNCHANGED <<injRows, nextInject, diskVars, accepted, rivals, muddled, deleted,
                 injRequests, injFaults>>

\* A submission since refuses it: the inject stays, without the others.
DeleteRow(r) ==
  /\ handler[r].at = "inject"
  /\ LET i == handler[r].inject IN
       \/ /\ \A s \in subRows : s.inject # i
          /\ injRows' = [j \in DOMAIN injRows \ {i} |-> injRows[j]]
          /\ deleted' = deleted \cup {i} /\ Proceed(r, "directory") /\ UNCHANGED injFaults
       \/ /\ \/ \E s \in subRows : s.inject = i
                /\ UNCHANGED injFaults
             \/ InjFault
          /\ Answer(r) /\ UNCHANGED <<injRows, deleted>>
  /\ UNCHANGED <<subRows, nextInject, diskVars, accepted, rivals, muddled, emptied,
                 injRequests>>

RemoveDirectory(r) ==
  /\ handler[r].at = "directory"
  /\ LET i == handler[r].inject
         old == {f \in injFiles : f[1] = i} IN
       \/ /\ injFiles' = injFiles \ old /\ injDirs' = injDirs \ {i}
          /\ UNCHANGED <<muddled, injFaults>>
       \/ /\ InjFault /\ Muddle(i)
          /\ \E done \in SUBSET old : injFiles' = injFiles \ done
          /\ UNCHANGED injDirs
  /\ Answer(r)
  /\ UNCHANGED <<injRows, subRows, nextInject, subFiles, accepted, rivals, deleted, emptied,
                 injRequests>>

-----------------------------------------------------------------------------

\* The server dies and is started again; nothing of this is undone. Dying while
\* files are written is failing there first.
InjCrash ==
  /\ InjFault
  /\ handler' = [r \in Handler |-> Resting]
  /\ muddled' = muddled \cup {i \in InjectId : WorkOn(i) # {}}
  /\ UNCHANGED <<injRows, subRows, nextInject, diskVars, accepted, rivals, deleted, emptied,
                 injRequests>>

InjNext ==
  \/ InjCrash
  \/ \E r \in Handler :
       \/ BeginSubmission(r) \/ ReadVersion(r) \/ InsertSubmission(r) \/ StoreFile(r)
       \/ CreateInject(r) \/ WriteNewFiles(r)
       \/ BeginUpdate(r) \/ RemoveFiles(r) \/ AddFiles(r) \/ SaveInject(r)
       \/ BeginDelete(r) \/ DeleteSubmissions(r) \/ DeleteRow(r) \/ RemoveDirectory(r)

InjSpec == InjInit /\ [][InjNext]_injVars

-----------------------------------------------------------------------------
(* Properties *)

InjTypeOK ==
  /\ DOMAIN injRows \subseteq InjectId /\ \A i \in DOMAIN injRows : injRows[i] \subseteq FileName
  /\ subRows \cup subFiles \cup accepted \subseteq Submission
  /\ \A s \in subRows : s.inject \in DOMAIN injRows
  /\ injDirs \subseteq InjectId /\ injFiles \subseteq injDirs \X FileName
  /\ rivals \subseteq InjectId \X InjTeam
  /\ deleted \subseteq InjectId /\ emptied \subseteq Submission

\* Every submission a team was told is in has its row, a version no other row
\* has, and its own file under that version, through updates of the inject,
\* later submissions, failures and crashes: unless a teammate submitted to the
\* inject at the same time, or it was deleted with the inject (submissions.go:
\* 34-56, www/api/submissions.go:57-100).
EverySubmissionKept ==
  \A s \in accepted :
    s \in emptied \/ <<s.inject, s.team>> \in rivals \/
      /\ s \in subRows \cap subFiles
      /\ \A other \in subRows : Path(other) = Path(s) => other = s

\* The directory of an inject holds the files its row names and no other, and
\* nothing is left of the directory of one that is deleted; while no request
\* works on it, and if never two did at once or one stopped half-way
\* (www/api/injects.go:175-210, 290-345, 379-385).
DirectoryMatchesRow ==
  \A i \in InjectId : WorkOn(i) # {} \/ i \in muddled \/
    IF i \in DOMAIN injRows
      THEN {n \in FileName : <<i, n>> \in injFiles} = injRows[i]
      ELSE i \notin injDirs

\* A deleted inject does not come back, though an update saves what it does not
\* find: only if the two were under way at once (db/injects.go:54-74,
\* www/api/injects.go:234-240, 345).
DeletedStaysDeleted == deleted \cap DOMAIN injRows \subseteq muddled

=============================================================================
