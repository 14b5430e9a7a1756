--------------------------- MODULE InjectsProofs ---------------------------
(***************************************************************************)
(* Proofs about Injects, for any teams, file names and handlers, and any   *)
(* number of injects, requests, failures and crashes.                      *)
(*                                                                         *)
(* What a handler has read is only true while it works alone.  Tracked     *)
(* says, for every inject nobody muddled, what the handler at work on it   *)
(* may count on at each of its steps; Apart, that there is one at most.    *)
(* For submissions, Newer and Stored are the same thing: for every inject  *)
(* and team without rivals, the version a handler has read is higher than  *)
(* any in the table, and the row it has inserted is there, or was deleted  *)
(* with all of its inject, and not answered yet.  Numbers of injects are never given twice       *)
(* (Given), and versions are fewer than the requests (FewVersions).        *)
(***************************************************************************)
EXTENDS Injects, FiniteSetTheorems, TLAPS

\* What a handler may be doing.
SubmitWork == [kind : {"submit"}, at : {"version", "insert", "store"}, inject : Nat,
               team : InjTeam, version : Nat, upload : Nat]
CreateWork == [kind : {"create"}, at : {"files"}, inject : Nat, files : SUBSET FileName]
UpdateWork == [kind : {"update"}, at : {"remove", "add", "save"}, inject : Nat, asked : Nat,
               keep : SUBSET FileName, files : SUBSET FileName, names : SUBSET FileName]
DeleteWork == [kind : {"delete"}, at : {"submissions", "inject", "directory"}, inject : Nat]

HandlerOK ==
  handler \in [Handler -> {Resting} \cup SubmitWork \cup CreateWork \cup UpdateWork \cup DeleteWork]

\* Numbers below the sequence's have been given to an inject.
Given(i) == 1 <= i /\ i < nextInject

RowsOK ==
  /\ nextInject \in Nat /\ 1 <= nextInject /\ nextInject <= MaxInjects + 1
  /\ injRows \in [DOMAIN injRows -> SUBSET FileName]
  /\ \A i \in DOMAIN injRows : i \in Nat /\ Given(i)
  /\ \A i \in injDirs \cup deleted : i \in Nat /\ Given(i)
  /\ injFiles \subseteq injDirs \X FileName

\* A handler works on a number that was given; only an update on 0, and then
\* it has no names to save.
WorkGiven ==
  \A r \in Handler : handler[r] # Resting =>
    \/ Given(handler[r].inject)
    \/ handler[r].kind = "update" /\ handler[r].inject = 0 /\ handler[r].names = {}

\* Two administrators' handlers on one inject have muddled it.
Apart ==
  \A i \in Nat : \A q, r \in WorkOn(i) : q # r => i \in muddled

-----------------------------------------------------------------------------
(* The directory of an inject *)

Disk(i) == {n \in FileName : <<i, n>> \in injFiles}

Match(i) == IF i \in DOMAIN injRows THEN Disk(i) = injRows[i] ELSE i \notin injDirs

\* What the only handler at work on inject i may count on.
CountsOn(r, i) ==
  /\ handler[r].at = "files" =>
       i \in DOMAIN injRows /\ injRows[i] = handler[r].files /\ i \notin injDirs
  /\ handler[r].at = "remove" =>
       i \in DOMAIN injRows /\ Disk(i) = injRows[i] /\ Disk(i) = handler[r].names
  /\ handler[r].at = "add" =>
       /\ i \in DOMAIN injRows /\ Disk(i) = handler[r].names
       /\ i \notin injDirs => injRows[i] = {}
  /\ handler[r].at = "save" => i \in DOMAIN injRows /\ Disk(i) = handler[r].names
  /\ handler[r].at \in {"submissions", "inject"} =>
       i \in DOMAIN injRows /\ Disk(i) = injRows[i]
  /\ handler[r].at = "directory" => i \notin DOMAIN injRows

Tracked(i) ==
  i \notin muddled => /\ WorkOn(i) = {} => Match(i)
                      /\ \A r \in WorkOn(i) : CountsOn(r, i)

AllTracked == \A i \in Nat : Given(i) => Tracked(i)

-----------------------------------------------------------------------------
(* Submissions *)

IsSubmission(s) ==
  /\ s = [inject |-> s.inject, team |-> s.team, version |-> s.version, upload |-> s.upload]
  /\ s.inject \in Nat /\ Given(s.inject) /\ s.team \in InjTeam
  /\ s.version \in Nat /\ 1 <= s.version /\ s.upload \in Nat

Upcoming == {r \in Handler : handler[r].at = "version"}

\* A version, and every handler that will read one, came with a request.
FewVersions ==
  /\ injRequests \in Nat /\ injRequests <= MaxInjRequests
  /\ IsFiniteSet(Upcoming) /\ Cardinality(Upcoming) <= injRequests
  /\ \A s \in subRows \cup subFiles \cup accepted \cup emptied :
       /\ IsSubmission(s) /\ 1 <= s.upload /\ s.upload <= injRequests
       /\ s.version + Cardinality(Upcoming) <= injRequests
  /\ \A r \in Handler : handler[r].kind = "submit" =>
       /\ 1 <= handler[r].upload /\ handler[r].upload <= injRequests
       /\ handler[r].at # "version" =>
            /\ 1 <= handler[r].version
            /\ handler[r].version + Cardinality(Upcoming) <= injRequests

\* The table has a highest version, for the next one to be after it.
Topped ==
  \A i \in Nat, t \in InjTeam : SubmissionsOf(i, t) # {} =>
    \E top \in SubmissionsOf(i, t) : \A s \in SubmissionsOf(i, t) : s.version <= top.version

\* Rows are of injects there are.
Rooted == \A s \in subRows : s.inject \in DOMAIN injRows

\* Two handlers on one submission are rivals.
RivalsKnown ==
  /\ rivals \subseteq Nat \X InjTeam /\ \A p \in rivals : Given(p[1])
  /\ \A i \in Nat, t \in InjTeam : <<i, t>> \notin rivals =>
       \A q, r \in Submitting(i, t) : q = r

\* Versions without rivals.
Unique(i, t) == \A s, o \in SubmissionsOf(i, t) : s.version = o.version => s = o

Newer(i, t) ==
  \A r \in Submitting(i, t) : handler[r].at = "insert" =>
    \A s \in SubmissionsOf(i, t) : s.version < handler[r].version

Stored(i, t) ==
  \A r \in Submitting(i, t) : handler[r].at = "store" =>
    /\ RowOf(r) \in subRows \/ (RowOf(r) \in emptied /\ SubmissionsOf(i, t) = {})
    /\ RowOf(r) \notin accepted \ emptied

Kept(i, t) ==
  \A s \in accepted : s.inject = i /\ s.team = t /\ s \notin emptied => s \in subRows \cap subFiles

Versioned ==
  \A i \in Nat, t \in InjTeam :
    <<i, t>> \notin rivals => Unique(i, t) /\ Newer(i, t) /\ Stored(i, t) /\ Kept(i, t)

-----------------------------------------------------------------------------

\* An update of an inject deleted meanwhile is one of two at once.
UpdatesLive ==
  \A r \in Handler : handler[r].kind = "update" /\ handler[r].inject # 0 =>
    handler[r].inject \in DOMAIN injRows \/ handler[r].inject \in muddled

\* What the administrators' requests keep, and what submissions keep.
Administered ==
  RowsOK /\ WorkGiven /\ Apart /\ AllTracked /\ UpdatesLive /\ DeletedStaysDeleted

Submitted == FewVersions /\ Topped /\ Rooted /\ RivalsKnown /\ Versioned

InjInv == HandlerOK /\ Administered /\ Submitted

-----------------------------------------------------------------------------
(* The handlers *)

\* Where a handler is says what it is doing.
LEMMA AtWork ==
  ASSUME HandlerOK, NEW r \in Handler
  PROVE  /\ handler[r].at \in {"version", "insert", "store"} => handler[r] \in SubmitWork
         /\ handler[r].at = "files" => handler[r] \in CreateWork
         /\ handler[r].at \in {"remove", "add", "save"} => handler[r] \in UpdateWork
         /\ handler[r].at \in {"submissions", "inject", "directory"} => handler[r] \in DeleteWork
         /\ handler[r].kind = "submit" => handler[r] \in SubmitWork
         /\ handler[r].kind = "create" => handler[r] \in CreateWork
         /\ handler[r].kind = "update" => handler[r] \in UpdateWork
         /\ handler[r].kind = "delete" => handler[r] \in DeleteWork
         /\ handler[r] # Resting => handler[r].kind \in {"submit", "create", "update", "delete"}
<1>1. handler[r] \in {Resting} \cup SubmitWork \cup CreateWork \cup UpdateWork \cup DeleteWork
  BY DEF HandlerOK
<1>2. QED
  BY <1>1 DEF Resting, SubmitWork, CreateWork, UpdateWork, DeleteWork

LEMMA WorkNat ==
  ASSUME HandlerOK, NEW r \in Handler, handler[r] # Resting
  PROVE  handler[r].inject \in Nat
<1>1. handler[r] \in SubmitWork \cup CreateWork \cup UpdateWork \cup DeleteWork
  BY DEF HandlerOK
<1>2. QED
  BY <1>1 DEF SubmitWork, CreateWork, UpdateWork, DeleteWork

\* A step of one handler.
OnlyMoves(r, work) ==
  /\ handler'[r] = work
  /\ \A q \in Handler : q # r => handler'[q] = handler[q]

LEMMA Moves ==
  ASSUME HandlerOK, NEW r \in Handler,
         NEW work \in {Resting} \cup SubmitWork \cup CreateWork \cup UpdateWork \cup DeleteWork,
         handler' = [handler EXCEPT ![r] = work]
  PROVE  HandlerOK' /\ OnlyMoves(r, work)
BY DEF HandlerOK, OnlyMoves

\* A step that changes two fields of the handler's record.
LEMMA MovesTo ==
  ASSUME HandlerOK, NEW r \in Handler,
         NEW work \in {Resting} \cup SubmitWork \cup CreateWork \cup UpdateWork \cup DeleteWork,
         handler' = [q \in Handler |-> handler'[q]], OnlyMoves(r, work)
  PROVE  HandlerOK'
<1>1. \A q \in Handler : handler'[q] \in {Resting} \cup SubmitWork \cup CreateWork \cup UpdateWork
                                        \cup DeleteWork
  BY DEF HandlerOK, OnlyMoves
<1>2. QED
  BY <1>1 DEF HandlerOK

LEMMA Answers ==
  ASSUME HandlerOK, NEW r \in Handler, Answer(r)
  PROVE  HandlerOK' /\ OnlyMoves(r, Resting)
BY Moves DEF Answer

\* The requests that begin.
LEMMA BeginSubmissionMoves ==
  ASSUME HandlerOK, RowsOK, injRequests \in Nat, NEW r \in Handler, BeginSubmission(r)
  PROVE  HandlerOK' /\ \E i \in DOMAIN injRows, t \in InjTeam :
           /\ OnlyMoves(r, [kind |-> "submit", at |-> "version", inject |-> i, team |-> t,
                            version |-> 0, upload |-> injRequests + 1])
           /\ rivals' = rivals \/ rivals' = rivals \cup {<<i, t>>}
           /\ \A q \in Handler : q \in Submitting(i, t) => <<i, t>> \in rivals'
<1>1. PICK i \in DOMAIN injRows, t \in InjTeam :
        /\ Request(r, [kind |-> "submit", at |-> "version", inject |-> i, team |-> t,
                       version |-> 0, upload |-> injRequests + 1])
        /\ rivals' = IF Submitting(i, t) # {} THEN rivals \cup {<<i, t>>} ELSE rivals
  BY DEF BeginSubmission
<1>a. /\ rivals' = rivals \/ rivals' = rivals \cup {<<i, t>>}
      /\ \A q \in Handler : q \in Submitting(i, t) => <<i, t>> \in rivals'
  BY <1>1
<1> DEFINE work == [kind |-> "submit", at |-> "version", inject |-> i, team |-> t,
                    version |-> 0, upload |-> injRequests + 1]
<1>2. work \in SubmitWork
  BY DEF SubmitWork, RowsOK
<1>3. handler' = [handler EXCEPT ![r] = work]
  BY <1>1 DEF Request
<1> HIDE DEF work
<1>4. HandlerOK' /\ OnlyMoves(r, work)
  BY <1>2, <1>3, Moves
<1>5. QED
  BY <1>a, <1>4 DEF work

LEMMA CreateInjectMoves ==
  ASSUME HandlerOK, RowsOK, NEW r \in Handler, CreateInject(r)
  PROVE  HandlerOK' /\ \E some \in SUBSET FileName :
           /\ OnlyMoves(r, [kind |-> "create", at |-> "files", inject |-> nextInject,
                            files |-> some])
           /\ injRows' = [i \in DOMAIN injRows \cup {nextInject} |->
                            IF i = nextInject THEN some ELSE injRows[i]]
<1>1. PICK some \in SUBSET FileName :
        /\ Request(r, [kind |-> "create", at |-> "files", inject |-> nextInject, files |-> some])
        /\ injRows' = [i \in DOMAIN injRows \cup {nextInject} |->
                         IF i = nextInject THEN some ELSE injRows[i]]
  BY DEF CreateInject
<1>2. [kind |-> "create", at |-> "files", inject |-> nextInject, files |-> some] \in CreateWork
  BY DEF CreateWork, RowsOK
<1>3. HandlerOK' /\ OnlyMoves(r, [kind |-> "create", at |-> "files", inject |-> nextInject,
                                  files |-> some])
  BY <1>1, <1>2, Moves DEF Request
<1>4. QED
  BY <1>1, <1>3

LEMMA BeginUpdateMoves ==
  ASSUME HandlerOK, RowsOK, NEW r \in Handler, BeginUpdate(r)
  PROVE  HandlerOK' /\ \E i, asked \in Nat, keep, some, names \in SUBSET FileName :
           /\ i \in DOMAIN injRows \/ i = 0
           /\ names = IF i = 0 THEN {} ELSE injRows[i]
           /\ OnlyMoves(r, [kind |-> "update", at |-> "remove", inject |-> i, asked |-> asked,
                            keep |-> keep, files |-> some, names |-> names])
           /\ MuddleIfShared(i)
<1>1. PICK asked \in InjectId, keep, some \in SUBSET FileName :
        LET i == IF asked \in DOMAIN injRows THEN asked ELSE 0 IN
         /\ Request(r, [kind |-> "update", at |-> "remove", inject |-> i, asked |-> asked,
                        keep |-> keep, files |-> some,
                        names |-> IF i = 0 THEN {} ELSE injRows[i]])
         /\ MuddleIfShared(i)
  BY DEF BeginUpdate
<1> DEFINE i == IF asked \in DOMAIN injRows THEN asked ELSE 0
<1> DEFINE names == IF i = 0 THEN {} ELSE injRows[i]
<1>2. asked \in Nat
  BY InjectBoundsAssumption DEF InjectId
<1>3. i \in Nat /\ (i \in DOMAIN injRows \/ i = 0)
  BY <1>2
<1>4. names \in SUBSET FileName
  BY <1>3 DEF RowsOK
<1>5. handler' = [handler EXCEPT ![r] = [kind |-> "update", at |-> "remove", inject |-> i,
                    asked |-> asked, keep |-> keep, files |-> some, names |-> names]]
  BY <1>1 DEF Request
<1>6. MuddleIfShared(i) /\ (names = IF i = 0 THEN {} ELSE injRows[i])
  BY <1>1
<1> HIDE DEF i, names
<1>7. [kind |-> "update", at |-> "remove", inject |-> i, asked |-> asked, keep |-> keep,
       files |-> some, names |-> names] \in UpdateWork
  BY <1>2, <1>3, <1>4 DEF UpdateWork
<1>8. HandlerOK' /\ OnlyMoves(r, [kind |-> "update", at |-> "remove", inject |-> i,
                   asked |-> asked, keep |-> keep, files |-> some, names |-> names])
  BY <1>5, <1>7, Moves
<1>9. QED
  BY <1>2, <1>3, <1>4, <1>6, <1>8

LEMMA BeginDeleteMoves ==
  ASSUME HandlerOK, RowsOK, NEW r \in Handler, BeginDelete(r)
  PROVE  HandlerOK' /\ \E i \in DOMAIN injRows :
           /\ OnlyMoves(r, [kind |-> "delete", at |-> "submissions", inject |-> i])
           /\ MuddleIfShared(i)
<1>1. PICK i \in DOMAIN injRows :
        /\ Request(r, [kind |-> "delete", at |-> "submissions", inject |-> i])
        /\ MuddleIfShared(i)
  BY DEF BeginDelete
<1>2. [kind |-> "delete", at |-> "submissions", inject |-> i] \in DeleteWork
  BY DEF DeleteWork, RowsOK
<1>3. HandlerOK' /\ OnlyMoves(r, [kind |-> "delete", at |-> "submissions", inject |-> i])
  BY <1>1, <1>2, Moves DEF Request
<1>4. QED
  BY <1>1, <1>3

\* The next version is 1, or the one after the highest.
LEMMA NextVersionIs ==
  ASSUME Topped, FewVersions, NEW i \in Nat, NEW t \in InjTeam
  PROVE  \/ SubmissionsOf(i, t) = {} /\ NextVersion(i, t) = 1
         \/ \E top \in SubmissionsOf(i, t) :
              /\ NextVersion(i, t) = top.version + 1
              /\ \A s \in SubmissionsOf(i, t) : s.version <= top.version
<1>1. CASE SubmissionsOf(i, t) = {}
  BY <1>1 DEF NextVersion
<1>2. CASE SubmissionsOf(i, t) # {}
  <2> DEFINE Versions == {s.version : s \in SubmissionsOf(i, t)}
  <2> DEFINE highest == CHOOSE v \in Versions : \A s \in SubmissionsOf(i, t) : s.version <= v
  <2>1. \E v \in Versions : \A s \in SubmissionsOf(i, t) : s.version <= v
    BY <1>2 DEF Topped
  <2>2. highest \in Versions /\ \A s \in SubmissionsOf(i, t) : s.version <= highest
    BY <2>1
  <2>3. NextVersion(i, t) = 1 + highest
    BY <1>2 DEF NextVersion
  <2> HIDE DEF highest
  <2>4. PICK top \in SubmissionsOf(i, t) : highest = top.version
    BY <2>2
  <2>5. top.version \in Nat
    BY <2>4 DEF FewVersions, IsSubmission, SubmissionsOf
  <2>6. QED
    BY <2>2, <2>3, <2>4, <2>5
<1>3. QED
  BY <1>1, <1>2

\* The later steps of a submission.
SubmitRecord(r, where, v) ==
  [kind |-> "submit", at |-> where, inject |-> handler[r].inject, team |-> handler[r].team,
   version |-> v, upload |-> handler[r].upload]

LEMMA SubmitFields ==
  ASSUME NEW work \in SubmitWork, NEW v
  PROVE  [[work EXCEPT !.at = "insert"] EXCEPT !.version = v]
           = [kind |-> "submit", at |-> "insert", inject |-> work.inject, team |-> work.team,
              version |-> v, upload |-> work.upload]
<1> DEFINE next == [work EXCEPT !.at = "insert"]
<1>1. next \in SubmitWork
  BY DEF SubmitWork
<1>2. /\ next.kind = "submit" /\ next.at = "insert" /\ next.inject = work.inject
      /\ next.team = work.team /\ next.upload = work.upload
  BY DEF SubmitWork
<1> HIDE DEF next
<1>3. [next EXCEPT !.version = v]
        = [kind |-> "submit", at |-> next.at, inject |-> next.inject, team |-> next.team,
           version |-> v, upload |-> next.upload]
  BY <1>1, <1>2 DEF SubmitWork
<1>4. QED
  BY <1>2, <1>3 DEF next

LEMMA ReadVersionMoves ==
  ASSUME HandlerOK, Topped, FewVersions, NEW r \in Handler, ReadVersion(r)
  PROVE  /\ HandlerOK' /\ handler[r] \in SubmitWork
         /\ OnlyMoves(r, SubmitRecord(r, "insert", NextVersion(handler[r].inject, handler[r].team)))
<1> DEFINE i == handler[r].inject  t == handler[r].team  v == NextVersion(i, t)
<1>1. handler[r] \in SubmitWork
  BY AtWork DEF ReadVersion
<1>2. i \in Nat /\ t \in InjTeam /\ handler[r].upload \in Nat
  BY <1>1 DEF SubmitWork
<1>3. v \in Nat
  <2>1. ASSUME NEW top \in SubmissionsOf(i, t) PROVE top.version \in Nat
    BY DEF FewVersions, IsSubmission, SubmissionsOf
  <2>2. QED
    BY <1>2, <2>1, NextVersionIs
<1>4. handler' = [handler EXCEPT ![r].at = "insert", ![r].version = v]
  BY DEF ReadVersion
<1> HIDE DEF v
<1>5. SubmitRecord(r, "insert", v) \in SubmitWork
  BY <1>2, <1>3 DEF SubmitRecord, SubmitWork
<1>6. HandlerOK' /\ OnlyMoves(r, SubmitRecord(r, "insert", v))
  <2>1. DOMAIN handler = Handler /\ handler = [q \in Handler |-> handler[q]]
    BY DEF HandlerOK
  <2>2. handler' = [q \in Handler |-> handler'[q]]
    BY <1>4, <2>1
  <2>3. \A q \in Handler : q # r => handler'[q] = handler[q]
    BY <1>4, <2>1
  <2>4. handler'[r] = SubmitRecord(r, "insert", v)
    <3>1. handler'[r] = [[handler[r] EXCEPT !.at = "insert"] EXCEPT !.version = v]
      BY <1>4, <2>1
    <3>2. [[handler[r] EXCEPT !.at = "insert"] EXCEPT !.version = v] = SubmitRecord(r, "insert", v)
      BY <1>1, SubmitFields DEF SubmitRecord
    <3>3. QED
      BY <3>1, <3>2
  <2>5. OnlyMoves(r, SubmitRecord(r, "insert", v))
    BY <2>3, <2>4 DEF OnlyMoves
  <2>6. QED
    BY <1>5, <2>2, <2>5, MovesTo
<1>7. QED
  BY <1>1, <1>6 DEF v

LEMMA InsertMoves ==
  ASSUME HandlerOK, NEW r \in Handler, InsertSubmission(r)
  PROVE  /\ HandlerOK' /\ handler[r] \in SubmitWork
         /\ \/ /\ OnlyMoves(r, SubmitRecord(r, "store", handler[r].version))
               /\ handler[r].inject \in DOMAIN injRows
               /\ subRows' = subRows \cup {RowOf(r)}
            \/ OnlyMoves(r, Resting) /\ UNCHANGED subRows
<1>1. handler[r] \in SubmitWork
  BY AtWork DEF InsertSubmission
<1>2. CASE Proceed(r, "store")
  <2>1. SubmitRecord(r, "store", handler[r].version) \in SubmitWork
    BY <1>1 DEF SubmitRecord, SubmitWork
  <2>2. handler' = [handler EXCEPT ![r] = SubmitRecord(r, "store", handler[r].version)]
    <3>1. handler[r] = [kind |-> "submit", at |-> handler[r].at, inject |-> handler[r].inject,
                        team |-> handler[r].team, version |-> handler[r].version,
                        upload |-> handler[r].upload]
      BY <1>1 DEF SubmitWork
    <3>2. handler' = [handler EXCEPT ![r] = [handler[r] EXCEPT !.at = "store"]]
      BY <1>2 DEF Proceed, HandlerOK
    <3>3. [handler[r] EXCEPT !.at = "store"] = SubmitRecord(r, "store", handler[r].version)
      BY <3>1 DEF SubmitRecord
    <3>4. QED
      BY <3>2, <3>3
  <2>3. HandlerOK' /\ OnlyMoves(r, SubmitRecord(r, "store", handler[r].version))
    BY <2>1, <2>2, Moves
  <2>4. CASE handler[r].inject \in DOMAIN injRows
    BY <1>1, <2>3, <2>4 DEF InsertSubmission
  <2>5. CASE handler[r].inject \notin DOMAIN injRows
    BY <1>1, <2>5, Answers DEF InsertSubmission
  <2>6. QED
    BY <2>4, <2>5
<1>3. CASE Answer(r) /\ UNCHANGED subRows
  BY <1>1, <1>3, Answers
<1>4. QED
  BY <1>2, <1>3 DEF InsertSubmission

\* The later steps of the administrators' requests.
UpdateRecord(r, where, some) ==
  [kind |-> "update", at |-> where, inject |-> handler[r].inject, asked |-> handler[r].asked,
   keep |-> handler[r].keep, files |-> handler[r].files, names |-> some]

LEMMA UpdateFields ==
  ASSUME NEW work \in UpdateWork, NEW where \in {"add", "save"}, NEW some
  PROVE  [[work EXCEPT !.at = where] EXCEPT !.names = some]
           = [kind |-> "update", at |-> where, inject |-> work.inject, asked |-> work.asked,
              keep |-> work.keep, files |-> work.files, names |-> some]
<1> DEFINE next == [work EXCEPT !.at = where]
<1>1. next \in UpdateWork
  BY DEF UpdateWork
<1>2. /\ next.kind = "update" /\ next.at = where /\ next.inject = work.inject
      /\ next.asked = work.asked /\ next.keep = work.keep /\ next.files = work.files
  BY DEF UpdateWork
<1> HIDE DEF next
<1>3. [next EXCEPT !.names = some]
        = [kind |-> "update", at |-> next.at, inject |-> next.inject, asked |-> next.asked,
           keep |-> next.keep, files |-> next.files, names |-> some]
  BY <1>1, <1>2 DEF UpdateWork
<1>4. QED
  BY <1>2, <1>3 DEF next

LEMMA UpdateMoves ==
  ASSUME HandlerOK, NEW r \in Handler, handler[r] \in UpdateWork,
         NEW where \in {"add", "save"}, NEW some \in SUBSET FileName,
         handler' = [handler EXCEPT ![r].at = where, ![r].names = some]
  PROVE  HandlerOK' /\ OnlyMoves(r, UpdateRecord(r, where, some))
<1>1. UpdateRecord(r, where, some) \in UpdateWork
  BY DEF UpdateRecord, UpdateWork
<1>2. DOMAIN handler = Handler /\ handler = [q \in Handler |-> handler[q]]
  BY DEF HandlerOK
<1>3. handler' = [q \in Handler |-> handler'[q]]
  BY <1>2
<1>4. \A q \in Handler : q # r => handler'[q] = handler[q]
  BY <1>2
<1>5. handler'[r] = UpdateRecord(r, where, some)
  <2>1. handler'[r] = [[handler[r] EXCEPT !.at = where] EXCEPT !.names = some]
    BY <1>2
  <2>2. QED
    BY <2>1, UpdateFields DEF UpdateRecord
<1>6. OnlyMoves(r, UpdateRecord(r, where, some))
  BY <1>4, <1>5 DEF OnlyMoves
<1>7. QED
  BY <1>1, <1>3, <1>6, MovesTo

LEMMA DeleteMoves ==
  ASSUME HandlerOK, NEW r \in Handler, handler[r] \in DeleteWork,
         NEW where \in {"inject", "directory"}, Proceed(r, where)
  PROVE  /\ HandlerOK'
         /\ OnlyMoves(r, [kind |-> "delete", at |-> where, inject |-> handler[r].inject])
<1>1. [kind |-> "delete", at |-> where, inject |-> handler[r].inject] \in DeleteWork
  BY DEF DeleteWork
<1>2. handler' = [handler EXCEPT ![r] = [kind |-> "delete", at |-> where,
                                         inject |-> handler[r].inject]]
  <2>1. handler[r] = [kind |-> "delete", at |-> handler[r].at, inject |-> handler[r].inject]
    BY DEF DeleteWork
  <2>2. handler' = [handler EXCEPT ![r] = [handler[r] EXCEPT !.at = where]]
    BY DEF Proceed, HandlerOK
  <2>3. [handler[r] EXCEPT !.at = where] = [kind |-> "delete", at |-> where,
                                            inject |-> handler[r].inject]
    BY <2>1
  <2>4. QED
    BY <2>2, <2>3
<1>3. QED
  BY <1>1, <1>2, Moves

-----------------------------------------------------------------------------
(* Injects and their directories *)

AdminKinds == {"create", "update", "delete"}

\* A step that leaves the row and the directory of an inject as they are.
Untouched(i) ==
  /\ i \in DOMAIN injRows' <=> i \in DOMAIN injRows
  /\ i \in DOMAIN injRows => injRows'[i] = injRows[i]
  /\ i \in injDirs' <=> i \in injDirs
  /\ Disk(i)' = Disk(i)

\* A step that touches neither an inject nor a handler at work on it.
LEMMA TrackedFrame ==
  ASSUME NEW r \in Handler, NEW work, OnlyMoves(r, work), NEW i,
         r \notin WorkOn(i), ~(work.kind \in AdminKinds /\ work.inject = i),
         Untouched(i), i \in muddled => i \in muddled', Tracked(i)
  PROVE  Tracked(i)'
<1>1. WorkOn(i)' = WorkOn(i) /\ \A q \in WorkOn(i) : handler'[q] = handler[q]
  BY DEF WorkOn, OnlyMoves, AdminKinds
<1>2. SUFFICES ASSUME i \notin muddled'
               PROVE  /\ WorkOn(i)' = {} => Match(i)'
                      /\ \A q \in WorkOn(i)' : CountsOn(q, i)'
  BY DEF Tracked
<1>3. /\ WorkOn(i) = {} => Match(i)
      /\ \A q \in WorkOn(i) : CountsOn(q, i)
  BY <1>2 DEF Tracked
<1>4. WorkOn(i)' = {} => Match(i)'
  BY <1>1, <1>3 DEF Match, Untouched
<1>5. ASSUME NEW q \in WorkOn(i)' PROVE CountsOn(q, i)'
  BY <1>1, <1>3, <1>5 DEF CountsOn, Untouched
<1>6. QED
  BY <1>4, <1>5

\* The only handler at work on an inject has moved.
LEMMA TrackedMove ==
  ASSUME NEW r \in Handler, NEW work, OnlyMoves(r, work), NEW i \in Nat, Apart',
         work.kind \in AdminKinds => work.inject = i,
         i \notin muddled' /\ work.kind \in AdminKinds => CountsOn(r, i)',
         i \notin muddled' /\ work.kind \notin AdminKinds => r \in WorkOn(i) /\ Match(i)',
         Apart, muddled \subseteq muddled'
  PROVE  Tracked(i)'
<1>1. SUFFICES ASSUME i \notin muddled'
               PROVE  /\ WorkOn(i)' = {} => Match(i)'
                      /\ \A q \in WorkOn(i)' : CountsOn(q, i)'
  BY DEF Tracked
<1>2. CASE work.kind \in AdminKinds
  <2>1. r \in WorkOn(i)'
    BY <1>2 DEF WorkOn, OnlyMoves, AdminKinds
  <2>2. \A q \in WorkOn(i)' : q = r
    BY <1>1, <2>1 DEF Apart
  <2>3. QED
    BY <1>1, <1>2, <2>1, <2>2
<1>3. CASE work.kind \notin AdminKinds
  <2>1. r \in WorkOn(i) /\ Match(i)'
    BY <1>1, <1>3
  <2>2. \A q \in WorkOn(i) : q = r
    BY <1>1, <2>1 DEF Apart
  <2>3. WorkOn(i)' = {}
    BY <1>3, <2>2 DEF WorkOn, OnlyMoves, AdminKinds
  <2>4. QED
    BY <2>1, <2>3
<1>4. QED
  BY <1>2, <1>3

\* Who comes to an inject that another works on muddles it.
LEMMA ApartMove ==
  ASSUME NEW r \in Handler, NEW work, OnlyMoves(r, work), Apart, muddled \subseteq muddled',
         work.kind \in AdminKinds =>
           \/ handler[r].kind \in AdminKinds /\ handler[r].inject = work.inject
           \/ WorkOn(work.inject) = {} \/ work.inject \in muddled'
  PROVE  Apart'
<1>1. SUFFICES ASSUME NEW i \in Nat, NEW p \in WorkOn(i)', NEW q \in WorkOn(i)', p # q
               PROVE  i \in muddled'
  BY DEF Apart
<1>2. CASE p # r /\ q # r
  BY <1>1, <1>2 DEF Apart, WorkOn, OnlyMoves
<1>3. ASSUME NEW o \in Handler, o # r, o \in WorkOn(i)', r \in WorkOn(i)'
      PROVE  i \in muddled'
  <2>1. o \in WorkOn(i)
    BY <1>3 DEF WorkOn, OnlyMoves
  <2>2. work.kind \in AdminKinds /\ work.inject = i
    BY <1>3 DEF WorkOn, OnlyMoves, AdminKinds
  <2>3. CASE handler[r].kind \in AdminKinds /\ handler[r].inject = work.inject
    BY <1>1, <1>3, <2>1, <2>2, <2>3 DEF Apart, WorkOn, AdminKinds
  <2>4. QED
    BY <2>1, <2>2, <2>3
<1>4. p \in Handler /\ q \in Handler
  BY DEF WorkOn
<1>5. QED
  BY <1>1, <1>2, <1>3, <1>4

\* What files added to a directory, and taken from it, leave of all.
LEMMA DiskAdd ==
  ASSUME NEW j, NEW done \in SUBSET FileName, injFiles' = injFiles \cup {j} \X done, NEW i
  PROVE  Disk(i)' = IF i = j THEN Disk(i) \cup done ELSE Disk(i)
BY DEF Disk

LEMMA DiskRemove ==
  ASSUME NEW j, NEW done, injFiles' = injFiles \ ({j} \X done), NEW i
  PROVE  Disk(i)' = IF i = j THEN Disk(i) \ done ELSE Disk(i)
BY DEF Disk

\* Numbers that were given stay so.
LEMMA WorkGivenMove ==
  ASSUME HandlerOK, WorkGiven, NEW r \in Handler, NEW work, OnlyMoves(r, work),
         nextInject \in Nat, nextInject' \in Nat, nextInject <= nextInject',
         work # Resting =>
           \/ work.inject \in Nat /\ Given(work.inject)'
           \/ work.kind = "update" /\ work.inject = 0 /\ work.names = {}
  PROVE  WorkGiven'
<1>1. ASSUME NEW q \in Handler, q # r, handler'[q] # Resting
      PROVE  \/ Given(handler[q].inject)'
             \/ handler'[q].kind = "update" /\ handler'[q].inject = 0 /\ handler'[q].names = {}
  <2>1. handler'[q] = handler[q]
    BY <1>1 DEF OnlyMoves
  <2>2. handler[q].inject \in Nat
    BY <1>1, <2>1, WorkNat
  <2>3. QED
    BY <1>1, <2>1, <2>2 DEF WorkGiven, Given
<1>2. QED
  BY <1>1 DEF WorkGiven, OnlyMoves

\* A submission's step leaves injects alone.
LEMMA SubmissionsApart ==
  ASSUME Administered, NEW r \in Handler, NEW work, OnlyMoves(r, work),
         handler[r].kind \notin AdminKinds, work.kind \notin AdminKinds,
         work # Resting => Given(work.inject),
         UNCHANGED <<injRows, nextInject, injDirs, injFiles, muddled, deleted>>
  PROVE  Administered'
<1> USE DEF Administered
<1>1. RowsOK'
  BY DEF RowsOK, Given
<1>2. WorkGiven'
  BY DEF WorkGiven, OnlyMoves, Given
<1>3. Apart'
  BY ApartMove
<1>4. AllTracked'
  <2>1. ASSUME NEW i \in Nat, Given(i) PROVE Tracked(i)'
    <3>1. r \notin WorkOn(i) /\ Tracked(i)
      BY <2>1 DEF WorkOn, AdminKinds, AllTracked
    <3>2. Untouched(i)
      BY DEF Disk, Untouched
    <3>3. QED
      BY <3>1, <3>2, TrackedFrame
  <2>2. QED
    BY <2>1 DEF AllTracked, Given
<1>5. UpdatesLive'
  BY DEF UpdatesLive, OnlyMoves, AdminKinds
<1>6. DeletedStaysDeleted'
  BY DEF DeletedStaysDeleted
<1>7. QED
  BY <1>1, <1>2, <1>3, <1>4, <1>5, <1>6

\* Injects other than the one a handler works on.
LEMMA OthersTracked ==
  ASSUME Administered, NEW r \in Handler, NEW work, OnlyMoves(r, work), NEW j,
         handler[r].kind \in AdminKinds => handler[r].inject = j,
         work.kind \in AdminKinds => work.inject = j,
         muddled \subseteq muddled',
         \A i \in Nat : i # j => Untouched(i),
         NEW i \in Nat, i # j, Given(i)
  PROVE  Tracked(i)'
<1>1. r \notin WorkOn(i)
  BY DEF WorkOn, AdminKinds
<1>2. Tracked(i)
  BY DEF Administered, AllTracked
<1>3. QED
  BY <1>1, <1>2, TrackedFrame

\* CreateInject: nobody works on a number that was not given yet.
LEMMA CreateInjectStep ==
  ASSUME HandlerOK, Administered, NEW r \in Handler, CreateInject(r)
  PROVE  Administered'
<1> USE DEF Administered
<1>0. PICK n \in Nat : n = nextInject
  BY DEF RowsOK
<1>1. PICK some \in SUBSET FileName :
        /\ OnlyMoves(r, [kind |-> "create", at |-> "files", inject |-> n, files |-> some])
        /\ injRows' = [i \in DOMAIN injRows \cup {n} |-> IF i = n THEN some ELSE injRows[i]]
  BY <1>0, CreateInjectMoves
<1> DEFINE work == [kind |-> "create", at |-> "files", inject |-> n, files |-> some]
<1>2. /\ 1 <= n /\ n <= MaxInjects /\ nextInject' = n + 1
      /\ UNCHANGED <<injDirs, injFiles, muddled, deleted>> /\ handler[r] = Resting
  BY <1>0, InjectBoundsAssumption DEF CreateInject, Request, InjectId, diskVars, RowsOK
<1>3. /\ DOMAIN injRows' = DOMAIN injRows \cup {n} /\ injRows'[n] = some
      /\ \A i \in DOMAIN injRows : i # n => injRows'[i] = injRows[i]
  BY <1>1
<1>4. n \notin DOMAIN injRows /\ n \notin injDirs /\ n \notin deleted /\ ~Given(n)
  BY <1>0 DEF RowsOK, Given
<1>5. \A i \in Nat : Given(i)' <=> Given(i) \/ i = n
  BY <1>0, <1>2 DEF Given
<1>6. WorkOn(n) = {}
  BY <1>2, <1>4 DEF WorkOn, WorkGiven, Resting
<1>7. RowsOK'
  <2>1. injRows' \in [DOMAIN injRows' -> SUBSET FileName]
    BY <1>1, <1>3 DEF RowsOK
  <2>2. QED
    BY <1>2, <1>3, <1>5, <2>1, InjectBoundsAssumption DEF RowsOK
<1>8. OnlyMoves(r, work) /\ work.kind = "create" /\ work.at = "files" /\ work.inject = n
      /\ work.files = some
  BY <1>1
<1> HIDE DEF work
<1>9. WorkGiven'
  <2>1. Given(n)'
    BY <1>2, <1>5
  <2>2. QED
    BY <1>0, <1>2, <1>8, <2>1, WorkGivenMove
<1>10. Apart'
  BY <1>2, <1>6, <1>8, ApartMove
<1>11. AllTracked'
  <2>1. Tracked(n)'
    <3>1. CountsOn(r, n)'
      BY <1>2, <1>3, <1>4, <1>8 DEF CountsOn, OnlyMoves
    <3>2. QED
      BY <1>2, <1>8, <1>10, <3>1, TrackedMove DEF AdminKinds
  <2>2. ASSUME NEW i \in Nat, i # n, Given(i) PROVE Tracked(i)'
    <3>1. \A k \in Nat : k # n => Untouched(k)
      BY <1>2, <1>3 DEF Disk, Untouched
    <3>2. QED
      BY <1>2, <1>3, <1>8, <2>2, <3>1, OthersTracked DEF Resting, AdminKinds
  <2>3. QED
    BY <1>5, <2>1, <2>2 DEF AllTracked
<1>12. UpdatesLive'
  BY <1>2, <1>3, <1>8 DEF UpdatesLive, OnlyMoves
<1>13. DeletedStaysDeleted'
  BY <1>2, <1>3, <1>4 DEF DeletedStaysDeleted
<1>14. QED
  BY <1>7, <1>9, <1>10, <1>11, <1>12, <1>13

\* What a handler may count on.
LEMMA Knows ==
  ASSUME HandlerOK, Administered, NEW r \in Handler, handler[r].kind \in AdminKinds
  PROVE  /\ handler[r].inject \in Nat /\ r \in WorkOn(handler[r].inject)
         /\ handler[r].kind # "update" => Given(handler[r].inject)
         /\ Given(handler[r].inject) /\ handler[r].inject \notin muddled
              => CountsOn(r, handler[r].inject)
<1>1. handler[r] # Resting
  BY DEF AdminKinds, Resting
<1>2. handler[r].inject \in Nat /\ r \in WorkOn(handler[r].inject)
  BY <1>1, WorkNat DEF WorkOn, AdminKinds
<1>3. handler[r].kind # "update" => Given(handler[r].inject)
  BY <1>1 DEF Administered, WorkGiven
<1>4. Given(handler[r].inject) /\ handler[r].inject \notin muddled => CountsOn(r, handler[r].inject)
  BY <1>2 DEF Administered, AllTracked, Tracked
<1>5. QED
  BY <1>2, <1>3, <1>4

\* A step of a handler at work on inject j that deletes no row, and adds one to
\* a muddled inject only.
LEMMA WorkStep ==
  ASSUME HandlerOK, Administered, NEW r \in Handler, NEW work, OnlyMoves(r, work), NEW j \in Nat,
         handler[r].kind \in AdminKinds => handler[r].inject = j,
         work.kind \in AdminKinds =>
           /\ work.inject = j
           /\ Given(j) \/ (work.kind = "update" /\ j = 0 /\ work.names = {})
           /\ handler[r].kind \in AdminKinds \/ WorkOn(j) = {} \/ j \in muddled'
           /\ work.kind = "update" /\ j # 0 => j \in DOMAIN injRows \/ j \in muddled'
           /\ Given(j) /\ j \notin muddled' => CountsOn(r, j)',
         work.kind \notin AdminKinds =>
           /\ work = Resting
           /\ Given(j) /\ j \notin muddled' => r \in WorkOn(j) /\ Match(j)',
         RowsOK', UNCHANGED <<nextInject, deleted>>,
         DOMAIN injRows \subseteq DOMAIN injRows',
         DOMAIN injRows' \subseteq DOMAIN injRows \cup muddled',
         muddled \subseteq muddled', \A i \in Nat : i # j => Untouched(i)
  PROVE  Administered'
<1> USE DEF Administered
<1>1. nextInject \in Nat /\ \A i \in Nat : Given(i)' <=> Given(i)
  BY DEF RowsOK, Given
<1>2. WorkGiven'
  <2>1. CASE work.kind \in AdminKinds
    <3>1. \/ work.inject \in Nat /\ Given(work.inject)'
          \/ work.kind = "update" /\ work.inject = 0 /\ work.names = {}
      BY <1>1, <2>1
    <3>2. QED
      BY <1>1, <3>1, WorkGivenMove
  <2>2. CASE work.kind \notin AdminKinds
    BY <1>1, <2>2, WorkGivenMove
  <2>3. QED
    BY <2>1, <2>2
<1>3. Apart'
  BY ApartMove
<1>4. AllTracked'
  <2>1. Given(j) => Tracked(j)'
    BY <1>3, TrackedMove
  <2>2. ASSUME NEW i \in Nat, i # j, Given(i) PROVE Tracked(i)'
    BY <2>2, OthersTracked
  <2>3. QED
    BY <1>1, <2>1, <2>2 DEF AllTracked
<1>5. UpdatesLive'
  <2>1. ASSUME NEW q \in Handler, q # r, handler'[q].kind = "update", handler'[q].inject # 0
        PROVE  handler'[q].inject \in DOMAIN injRows' \/ handler'[q].inject \in muddled'
    BY <2>1 DEF UpdatesLive, OnlyMoves
  <2>2. work.kind = "update" /\ work.inject # 0
          => work.inject \in DOMAIN injRows' \/ work.inject \in muddled'
    BY DEF AdminKinds
  <2>3. QED
    BY <2>1, <2>2 DEF UpdatesLive, OnlyMoves
<1>6. DeletedStaysDeleted'
  BY DEF DeletedStaysDeleted
<1>7. QED
  BY <1>2, <1>3, <1>4, <1>5, <1>6

LEMMA WriteNewFilesStep ==
  ASSUME HandlerOK, Administered, NEW r \in Handler, WriteNewFiles(r)
  PROVE  HandlerOK' /\ Administered'
<1>1. handler[r] \in CreateWork
  BY AtWork DEF WriteNewFiles
<1>2. handler[r].kind \in AdminKinds /\ handler[r].kind = "create" /\ handler[r].at = "files"
      /\ handler[r].files \subseteq FileName
  BY <1>1 DEF AdminKinds, CreateWork
<1>3. PICK j \in Nat : j = handler[r].inject
  BY <1>2, Knows
<1>4. Answer(r) /\ UNCHANGED <<injRows, nextInject, deleted>>
  BY DEF WriteNewFiles, WriteFiles, Stop
<1>5. PICK done \in SUBSET handler[r].files :
        /\ injFiles' = injFiles \cup {j} \X done
        /\ injDirs' = injDirs \cup {j} \/ (injDirs' = injDirs /\ done = {})
        /\ \/ done = handler[r].files /\ injDirs' = injDirs \cup {j} /\ muddled' = muddled
           \/ muddled' = muddled \cup {j}
  <2>1. CASE injDirs' = injDirs \cup {j} /\ WriteFiles(r, Answer(r))
    <3>1. PICK done \in SUBSET handler[r].files :
            /\ injFiles' = injFiles \cup {j} \X done
            /\ \/ done = handler[r].files /\ muddled' = muddled
               \/ muddled' = muddled \cup {j}
      BY <1>3, <2>1 DEF WriteFiles, Stop, Muddle
    <3>2. QED
      BY <2>1, <3>1
  <2>2. CASE Stop(r) /\ UNCHANGED <<injDirs, injFiles>>
    <3>1. injFiles' = injFiles \cup {j} \X {} /\ injDirs' = injDirs /\ muddled' = muddled \cup {j}
      BY <1>3, <2>2 DEF Stop, Muddle
    <3>2. QED
      BY <3>1
  <2>3. QED
    BY <1>3, <2>1, <2>2 DEF WriteNewFiles
<1>6. HandlerOK' /\ OnlyMoves(r, Resting)
  BY <1>4, Answers
<1>7. Given(j) /\ r \in WorkOn(j) /\ (j \notin muddled => CountsOn(r, j))
  BY <1>2, <1>3, Knows
<1>8. RowsOK'
  <2>1. injDirs' \subseteq injDirs \cup {j} /\ injDirs \subseteq injDirs'
    BY <1>5
  <2>2. injFiles' \subseteq injDirs' \X FileName
    BY <1>2, <1>5, <2>1 DEF RowsOK, Administered
  <2>3. ASSUME NEW i \in injDirs' \cup deleted' PROVE i \in Nat /\ Given(i)'
    <3>1. i = j \/ i \in injDirs \cup deleted
      BY <1>4, <2>1
    <3>2. QED
      BY <1>4, <1>7, <3>1 DEF RowsOK, Given, Administered
  <2>4. QED
    BY <1>4, <2>2, <2>3 DEF RowsOK, Given, Administered
<1>9. \A i : Disk(i)' = IF i = j THEN Disk(i) \cup done ELSE Disk(i)
  BY <1>2, <1>5, DiskAdd
<1>10. \A i \in Nat : i # j => Untouched(i)
  BY <1>4, <1>5, <1>9 DEF Untouched
<1>11. j \notin muddled' => Match(j)'
  <2>1. SUFFICES ASSUME j \notin muddled' PROVE Match(j)'
    OBVIOUS
  <2>2. done = handler[r].files /\ j \notin muddled
    BY <1>5, <2>1
  <2>3. j \in DOMAIN injRows /\ injRows[j] = handler[r].files /\ j \notin injDirs
    BY <1>2, <1>7, <2>2 DEF CountsOn
  <2>4. Disk(j) = {}
    BY <2>3 DEF Disk, Administered, RowsOK
  <2>5. QED
    BY <1>4, <1>5, <1>9, <2>2, <2>3, <2>4 DEF Match
<1>12. muddled \subseteq muddled'
  BY <1>5
<1>13. Resting.kind \notin AdminKinds
  BY DEF Resting, AdminKinds
<1>14. Administered'
  BY <1>3, <1>4, <1>6, <1>7, <1>8, <1>10, <1>11, <1>12, <1>13, WorkStep
<1>15. QED
  BY <1>6, <1>14

\* Who begins to work on an inject alone finds the directory as the row has it.
LEMMA AloneFinds ==
  ASSUME Administered, NEW j \in Nat, Given(j), MuddleIfShared(j), j \notin muddled'
  PROVE  WorkOn(j) = {} /\ Match(j)
BY DEF MuddleIfShared, Administered, AllTracked, Tracked

LEMMA BeginUpdateStep ==
  ASSUME HandlerOK, Administered, NEW r \in Handler, BeginUpdate(r)
  PROVE  HandlerOK' /\ Administered'
<1>0. RowsOK
  BY DEF Administered
<1>1. PICK j, asked \in Nat, keep, some, names \in SUBSET FileName :
        /\ j \in DOMAIN injRows \/ j = 0
        /\ names = IF j = 0 THEN {} ELSE injRows[j]
        /\ OnlyMoves(r, [kind |-> "update", at |-> "remove", inject |-> j, asked |-> asked,
                         keep |-> keep, files |-> some, names |-> names])
        /\ MuddleIfShared(j)
  BY <1>0, BeginUpdateMoves
<1>2. HandlerOK'
  BY <1>0, BeginUpdateMoves
<1>3. /\ UNCHANGED <<injRows, nextInject, injDirs, injFiles, deleted>> /\ handler[r] = Resting
  BY DEF BeginUpdate, Request, diskVars
<1> DEFINE work == [kind |-> "update", at |-> "remove", inject |-> j, asked |-> asked,
                    keep |-> keep, files |-> some, names |-> names]
<1>4. /\ OnlyMoves(r, work) /\ work.kind = "update" /\ work.at = "remove" /\ work.inject = j
      /\ work.names = names
  BY <1>1
<1> HIDE DEF work
<1>5. \A i : Disk(i)' = Disk(i)
  BY <1>3 DEF Disk
<1>6. RowsOK' /\ \A i \in Nat : Untouched(i)
  BY <1>0, <1>3, <1>5 DEF RowsOK, Given, Untouched
<1>7. Given(j) \/ (j = 0 /\ names = {})
  BY <1>0, <1>1 DEF RowsOK
<1>8. /\ muddled \subseteq muddled'
      /\ WorkOn(j) = {} \/ j \in muddled'
  BY <1>1 DEF MuddleIfShared
<1>9. Given(j) /\ j \notin muddled' => CountsOn(r, j)'
  <2>1. SUFFICES ASSUME Given(j), j \notin muddled' PROVE CountsOn(r, j)'
    OBVIOUS
  <2>2. j # 0 /\ j \in DOMAIN injRows /\ names = injRows[j]
    BY <1>1, <2>1 DEF Given
  <2>3. Disk(j) = injRows[j]
    BY <1>1, <2>1, <2>2, AloneFinds DEF Match
  <2>4. handler'[r].at = "remove" /\ handler'[r].names = names
    BY <1>4 DEF OnlyMoves
  <2>5. QED
    BY <1>3, <1>5, <2>2, <2>3, <2>4 DEF CountsOn
<1>10. work.kind \in AdminKinds /\ handler[r].kind \notin AdminKinds
  BY <1>3, <1>4 DEF AdminKinds, Resting
<1>11. Administered'
  BY <1>1, <1>3, <1>4, <1>6, <1>7, <1>8, <1>9, <1>10, WorkStep
<1>12. QED
  BY <1>2, <1>11

LEMMA BeginDeleteStep ==
  ASSUME HandlerOK, Administered, NEW r \in Handler, BeginDelete(r)
  PROVE  HandlerOK' /\ Administered'
<1>0. RowsOK
  BY DEF Administered
<1>1. PICK j \in DOMAIN injRows :
        /\ OnlyMoves(r, [kind |-> "delete", at |-> "submissions", inject |-> j])
        /\ MuddleIfShared(j)
  BY <1>0, BeginDeleteMoves
<1>2. HandlerOK'
  BY <1>0, BeginDeleteMoves
<1>3. /\ UNCHANGED <<injRows, nextInject, injDirs, injFiles, deleted>> /\ handler[r] = Resting
  BY DEF BeginDelete, Request, diskVars
<1> DEFINE work == [kind |-> "delete", at |-> "submissions", inject |-> j]
<1>4. /\ OnlyMoves(r, work) /\ work.kind = "delete" /\ work.at = "submissions"
      /\ work.inject = j
  BY <1>1
<1> HIDE DEF work
<1>5. \A i : Disk(i)' = Disk(i)
  BY <1>3 DEF Disk
<1>6. RowsOK' /\ \A i \in Nat : Untouched(i)
  BY <1>0, <1>3, <1>5 DEF RowsOK, Given, Untouched
<1>7. j \in Nat /\ Given(j)
  BY <1>0 DEF RowsOK
<1>8. /\ muddled \subseteq muddled'
      /\ WorkOn(j) = {} \/ j \in muddled'
  BY <1>1 DEF MuddleIfShared
<1>9. j \notin muddled' => CountsOn(r, j)'
  <2>1. SUFFICES ASSUME j \notin muddled' PROVE CountsOn(r, j)'
    OBVIOUS
  <2>2. Disk(j) = injRows[j]
    BY <1>1, <1>7, <2>1, AloneFinds DEF Match
  <2>3. handler'[r].at = "submissions"
    BY <1>4 DEF OnlyMoves
  <2>4. QED
    BY <1>3, <1>5, <2>2, <2>3 DEF CountsOn
<1>10. work.kind \in AdminKinds /\ handler[r].kind \notin AdminKinds
  BY <1>3, <1>4 DEF AdminKinds, Resting
<1>11. Administered'
  BY <1>3, <1>4, <1>6, <1>7, <1>8, <1>9, <1>10, WorkStep
<1>12. QED
  BY <1>2, <1>11

LEMMA DeleteSubmissionsStep ==
  ASSUME HandlerOK, Administered, NEW r \in Handler, DeleteSubmissions(r)
  PROVE  HandlerOK' /\ Administered'
<1>1. handler[r] \in DeleteWork /\ handler[r].at = "submissions"
  BY AtWork DEF DeleteSubmissions
<1>2. handler[r].kind \in AdminKinds /\ handler[r].kind = "delete"
  BY <1>1 DEF AdminKinds, DeleteWork
<1>3. PICK j \in Nat : j = handler[r].inject
  BY <1>2, Knows
<1> DEFINE work == [kind |-> "delete", at |-> "inject", inject |-> j]
<1>4. HandlerOK' /\ OnlyMoves(r, work)
  BY <1>1, <1>3, DeleteMoves DEF DeleteSubmissions
<1>5. work.kind = "delete" /\ work.at = "inject" /\ work.inject = j
  OBVIOUS
<1> HIDE DEF work
<1>6. UNCHANGED <<injRows, nextInject, injDirs, injFiles, deleted, muddled>>
  BY DEF DeleteSubmissions, diskVars
<1>7. Given(j) /\ r \in WorkOn(j) /\ (j \notin muddled => CountsOn(r, j))
  BY <1>2, <1>3, Knows
<1>8. \A i : Disk(i)' = Disk(i)
  BY <1>6 DEF Disk
<1>9. RowsOK' /\ \A i \in Nat : Untouched(i)
  BY <1>6, <1>8 DEF RowsOK, Given, Untouched, Administered
<1>10. j \notin muddled' => CountsOn(r, j)'
  <2>1. handler'[r].at = "inject"
    BY <1>4, <1>5 DEF OnlyMoves
  <2>2. QED
    BY <1>1, <1>6, <1>7, <1>8, <2>1 DEF CountsOn
<1>11. work.kind \in AdminKinds
  BY <1>5 DEF AdminKinds
<1>12. Administered'
  BY <1>2, <1>3, <1>4, <1>5, <1>6, <1>7, <1>9, <1>10, <1>11, WorkStep
<1>13. QED
  BY <1>4, <1>12

LEMMA RemoveDirectoryStep ==
  ASSUME HandlerOK, Administered, NEW r \in Handler, RemoveDirectory(r)
  PROVE  HandlerOK' /\ Administered'
<1>1. handler[r] \in DeleteWork /\ handler[r].at = "directory"
  BY AtWork DEF RemoveDirectory
<1>2. handler[r].kind \in AdminKinds /\ handler[r].kind = "delete"
  BY <1>1 DEF AdminKinds, DeleteWork
<1>3. PICK j \in Nat : j = handler[r].inject
  BY <1>2, Knows
<1>4. Answer(r) /\ UNCHANGED <<injRows, nextInject, deleted>>
  BY DEF RemoveDirectory
<1>5. \/ /\ injFiles' = injFiles \ {f \in injFiles : f[1] = j} /\ injDirs' = injDirs \ {j}
         /\ muddled' = muddled
      \/ /\ \E done \in SUBSET {f \in injFiles : f[1] = j} : injFiles' = injFiles \ done
         /\ injDirs' = injDirs /\ muddled' = muddled \cup {j}
  BY <1>3 DEF RemoveDirectory, Muddle
<1>6. HandlerOK' /\ OnlyMoves(r, Resting)
  BY <1>4, Answers
<1>7. Given(j) /\ r \in WorkOn(j) /\ (j \notin muddled => CountsOn(r, j))
  BY <1>2, <1>3, Knows
<1>8. injFiles \subseteq injDirs \X FileName
  BY DEF Administered, RowsOK
<1>9. injFiles' \subseteq injDirs' \X FileName
  BY <1>5, <1>8
<1>10. RowsOK'
  BY <1>4, <1>5, <1>9 DEF RowsOK, Given, Administered
<1>11. ASSUME NEW i \in Nat, i # j PROVE Untouched(i)
  <2>1. Disk(i)' = Disk(i)
    BY <1>5, <1>11 DEF Disk
  <2>2. QED
    BY <1>4, <1>5, <1>11, <2>1 DEF Untouched
<1>12. j \notin muddled' => Match(j)'
  <2>1. SUFFICES ASSUME j \notin muddled' PROVE Match(j)'
    OBVIOUS
  <2>2. j \notin muddled /\ j \notin injDirs'
    BY <1>5, <2>1
  <2>3. j \notin DOMAIN injRows
    BY <1>1, <1>7, <2>2 DEF CountsOn
  <2>4. QED
    BY <1>4, <2>2, <2>3 DEF Match
<1>13. muddled \subseteq muddled'
  BY <1>5
<1>14. Resting.kind \notin AdminKinds
  BY DEF Resting, AdminKinds
<1>15. Administered'
  BY <1>3, <1>4, <1>6, <1>7, <1>10, <1>11, <1>12, <1>13, <1>14, WorkStep
<1>16. QED
  BY <1>6, <1>15

\* The handler of an update knows its inject, or has nothing to save.
LEMMA UpdateKnows ==
  ASSUME HandlerOK, Administered, NEW r \in Handler, handler[r] \in UpdateWork,
         NEW j \in Nat, j = handler[r].inject
  PROVE  /\ handler[r].kind = "update" /\ handler[r].kind \in AdminKinds /\ r \in WorkOn(j)
         /\ Given(j) \/ (j = 0 /\ handler[r].names = {})
         /\ Given(j) /\ j \notin muddled => CountsOn(r, j)
         /\ j # 0 => j \in DOMAIN injRows \/ j \in muddled
<1>1. handler[r].kind = "update" /\ handler[r].kind \in AdminKinds /\ handler[r] # Resting
  BY DEF UpdateWork, AdminKinds, Resting
<1>2. Given(j) \/ (j = 0 /\ handler[r].names = {})
  BY <1>1 DEF Administered, WorkGiven
<1>3. j # 0 => j \in DOMAIN injRows \/ j \in muddled
  BY <1>1 DEF Administered, UpdatesLive
<1>4. QED
  BY <1>1, <1>2, <1>3, Knows

LEMMA RemoveFilesStep ==
  ASSUME HandlerOK, Administered, NEW r \in Handler, RemoveFiles(r)
  PROVE  HandlerOK' /\ Administered'
<1>1. handler[r] \in UpdateWork /\ handler[r].at = "remove"
  BY AtWork DEF RemoveFiles
<1>2. PICK j \in Nat : j = handler[r].inject
  BY <1>1 DEF UpdateWork
<1>3. PICK names \in SUBSET FileName : names = handler[r].names
  BY <1>1 DEF UpdateWork
<1>4. PICK old \in SUBSET FileName :
        old = {n \in FileName \ handler[r].keep : <<j, n>> \in injFiles}
  OBVIOUS
<1>5. PICK done \in SUBSET old :
        /\ injFiles' = injFiles \ ({j} \X done)
        /\ \/ /\ done = old /\ muddled' = muddled
              /\ handler' = [handler EXCEPT ![r].at = "add",
                              ![r].names = RemainingNames(@, old)]
           \/ muddled' = muddled \cup {j} /\ Answer(r)
  BY <1>2, <1>4 DEF RemoveFiles, Stop, Muddle
<1>6. UNCHANGED <<injRows, nextInject, injDirs, deleted>>
  BY DEF RemoveFiles
<1>7. /\ handler[r].kind = "update" /\ handler[r].kind \in AdminKinds /\ r \in WorkOn(j)
      /\ Given(j) \/ (j = 0 /\ names = {})
      /\ Given(j) /\ j \notin muddled => CountsOn(r, j)
      /\ j # 0 => j \in DOMAIN injRows \/ j \in muddled
  BY <1>1, <1>2, <1>3, UpdateKnows
<1>8. RowsOK'
  BY <1>5, <1>6 DEF RowsOK, Given, Administered
<1>9. \A i : Disk(i)' = IF i = j THEN Disk(i) \ done ELSE Disk(i)
  BY <1>5, DiskRemove
<1>10. \A i \in Nat : i # j => Untouched(i)
  BY <1>6, <1>9 DEF Untouched
<1>11. muddled \subseteq muddled'
  BY <1>5
<1>12. CASE muddled' = muddled \cup {j} /\ Answer(r)
  <2>1. HandlerOK' /\ OnlyMoves(r, Resting)
    BY <1>12, Answers
  <2>2. Resting.kind \notin AdminKinds
    BY DEF Resting, AdminKinds
  <2>3. j \in muddled'
    BY <1>12
  <2>4. Administered'
    BY <1>2, <1>6, <1>8, <1>10, <1>11, <2>1, <2>2, <2>3, WorkStep
  <2>5. QED
    BY <2>1, <2>4
<1>13. CASE /\ done = old /\ muddled' = muddled
            /\ handler' = [handler EXCEPT ![r].at = "add", ![r].names = RemainingNames(@, old)]
  <2>1. handler' = [handler EXCEPT ![r].at = "add", ![r].names = names \ old]
    BY <1>1, <1>3, <1>13 DEF HandlerOK, UpdateWork, RemainingNames
  <2> DEFINE work == UpdateRecord(r, "add", names \ old)
  <2>2. HandlerOK' /\ OnlyMoves(r, work)
    BY <1>1, <2>1, UpdateMoves
  <2>3. /\ work.kind = "update" /\ work.at = "add" /\ work.inject = j
        /\ work.names = names \ old
    BY <1>2 DEF UpdateRecord
  <2> HIDE DEF work
  <2>4. Given(j) /\ j \notin muddled' => CountsOn(r, j)'
    <3>1. SUFFICES ASSUME Given(j), j \notin muddled' PROVE CountsOn(r, j)'
      OBVIOUS
    <3>2. j \in DOMAIN injRows /\ Disk(j) = injRows[j] /\ Disk(j) = names
      BY <1>1, <1>3, <1>7, <1>13, <3>1 DEF CountsOn
    <3>3. Disk(j)' = names \ old
      BY <1>9, <1>13, <3>2
    <3>4. j \notin injDirs => Disk(j) = {}
      BY DEF Disk, Administered, RowsOK
    <3>5. handler'[r].at = "add" /\ handler'[r].names = names \ old
      BY <2>2, <2>3 DEF OnlyMoves
    <3>6. QED
      BY <1>6, <3>2, <3>3, <3>4, <3>5 DEF CountsOn
  <2>5. work.kind \in AdminKinds
    BY <2>3 DEF AdminKinds
  <2>6. Given(j) \/ (work.kind = "update" /\ j = 0 /\ work.names = {})
    BY <1>7, <2>3
  <2>7. Administered'
    BY <1>2, <1>6, <1>7, <1>8, <1>10, <1>13, <2>2, <2>3, <2>4, <2>5, <2>6, WorkStep
  <2>8. QED
    BY <2>2, <2>7
<1>14. QED
  BY <1>5, <1>12, <1>13

LEMMA AddFilesStep ==
  ASSUME HandlerOK, Administered, NEW r \in Handler, AddFiles(r)
  PROVE  HandlerOK' /\ Administered'
<1>1. handler[r] \in UpdateWork /\ handler[r].at = "add"
  BY AtWork DEF AddFiles
<1>2. PICK j \in Nat : j = handler[r].inject
  BY <1>1 DEF UpdateWork
<1>3. PICK names, some \in SUBSET FileName : names = handler[r].names /\ some = handler[r].files
  BY <1>1 DEF UpdateWork
<1>4. UNCHANGED <<injRows, nextInject, injDirs, deleted>>
  BY DEF AddFiles
<1>5. \/ some # {} /\ j \notin injDirs /\ Answer(r) /\ UNCHANGED <<injFiles, muddled>>
      \/ /\ some = {} \/ j \in injDirs
         /\ \E done \in SUBSET some :
              /\ injFiles' = injFiles \cup {j} \X done
              /\ \/ /\ done = some /\ muddled' = muddled
                    /\ handler' = [handler EXCEPT ![r].at = "save",
                                    ![r].names = @ \cup handler[r].files]
                 \/ muddled' = muddled \cup {j} /\ Answer(r)
  BY <1>2, <1>3 DEF AddFiles, WriteFiles, Stop, Muddle
<1>6. /\ handler[r].kind = "update" /\ handler[r].kind \in AdminKinds /\ r \in WorkOn(j)
      /\ Given(j) \/ (j = 0 /\ names = {})
      /\ Given(j) /\ j \notin muddled => CountsOn(r, j)
      /\ j # 0 => j \in DOMAIN injRows \/ j \in muddled
  BY <1>1, <1>2, <1>3, UpdateKnows
<1>7. Resting.kind \notin AdminKinds
  BY DEF Resting, AdminKinds
<1>8. CASE some # {} /\ j \notin injDirs /\ Answer(r) /\ UNCHANGED <<injFiles, muddled>>
  <2>1. HandlerOK' /\ OnlyMoves(r, Resting)
    BY <1>8, Answers
  <2>2. \A i : Disk(i)' = Disk(i)
    BY <1>8 DEF Disk
  <2>3. RowsOK' /\ \A i \in Nat : Untouched(i)
    BY <1>4, <1>8, <2>2 DEF RowsOK, Given, Administered, Untouched
  <2>4. Given(j) /\ j \notin muddled' => Match(j)'
    <3>1. SUFFICES ASSUME Given(j), j \notin muddled' PROVE Match(j)'
      OBVIOUS
    <3>2. j \in DOMAIN injRows /\ injRows[j] = {}
      BY <1>1, <1>6, <1>8, <3>1 DEF CountsOn
    <3>3. Disk(j) = {}
      BY <1>8 DEF Disk, Administered, RowsOK
    <3>4. QED
      BY <1>4, <2>2, <3>2, <3>3 DEF Match
  <2>5. Administered'
    BY <1>2, <1>4, <1>6, <1>7, <1>8, <2>1, <2>3, <2>4, WorkStep
  <2>6. QED
    BY <2>1, <2>5
<1>9. ASSUME some = {} \/ j \in injDirs, NEW done \in SUBSET some,
             injFiles' = injFiles \cup {j} \X done,
             \/ /\ done = some /\ muddled' = muddled
                /\ handler' = [handler EXCEPT ![r].at = "save", ![r].names = @ \cup handler[r].files]
             \/ muddled' = muddled \cup {j} /\ Answer(r)
      PROVE  HandlerOK' /\ Administered'
  <2>1. RowsOK'
    BY <1>4, <1>9 DEF RowsOK, Given, Administered
  <2>2. \A i : Disk(i)' = IF i = j THEN Disk(i) \cup done ELSE Disk(i)
    BY <1>9, DiskAdd
  <2>3. \A i \in Nat : i # j => Untouched(i)
    BY <1>4, <2>2 DEF Untouched
  <2>4. muddled \subseteq muddled'
    BY <1>9
  <2>5. CASE muddled' = muddled \cup {j} /\ Answer(r)
    <3>1. HandlerOK' /\ OnlyMoves(r, Resting)
      BY <2>5, Answers
    <3>2. j \in muddled'
      BY <2>5
    <3>3. Administered'
      BY <1>2, <1>4, <1>7, <2>1, <2>3, <2>4, <3>1, <3>2, WorkStep
    <3>4. QED
      BY <3>1, <3>3
  <2>6. CASE /\ done = some /\ muddled' = muddled
             /\ handler' = [handler EXCEPT ![r].at = "save", ![r].names = @ \cup handler[r].files]
    <3>1. handler' = [handler EXCEPT ![r].at = "save", ![r].names = names \cup some]
      BY <1>1, <1>3, <2>6 DEF HandlerOK, UpdateWork
    <3> DEFINE work == UpdateRecord(r, "save", names \cup some)
    <3>2. HandlerOK' /\ OnlyMoves(r, work)
      BY <1>1, <3>1, UpdateMoves
    <3>3. /\ work.kind = "update" /\ work.at = "save" /\ work.inject = j
          /\ work.names = names \cup some
      BY <1>2 DEF UpdateRecord
    <3> HIDE DEF work
    <3>4. Given(j) /\ j \notin muddled' => CountsOn(r, j)'
      <4>1. SUFFICES ASSUME Given(j), j \notin muddled' PROVE CountsOn(r, j)'
        OBVIOUS
      <4>2. j \in DOMAIN injRows /\ Disk(j) = names
        BY <1>1, <1>3, <1>6, <2>6, <4>1 DEF CountsOn
      <4>3. Disk(j)' = names \cup some
        BY <2>2, <2>6, <4>2
      <4>4. handler'[r].at = "save" /\ handler'[r].names = names \cup some
        BY <3>2, <3>3 DEF OnlyMoves
      <4>5. QED
        BY <1>4, <4>2, <4>3, <4>4 DEF CountsOn
    <3>5. work.kind \in AdminKinds
      BY <3>3 DEF AdminKinds
    <3>6. Given(j) \/ (work.kind = "update" /\ j = 0 /\ work.names = {})
      <4>1. 0 \notin injDirs
        BY DEF Administered, RowsOK, Given
      <4>2. QED
        BY <1>6, <1>9, <3>3, <4>1
    <3>7. Administered'
      BY <1>2, <1>4, <1>6, <2>1, <2>3, <2>6, <3>2, <3>3, <3>4, <3>5, <3>6, WorkStep
    <3>8. QED
      BY <3>2, <3>7
  <2>7. QED
    BY <1>9, <2>5, <2>6
<1>10. QED
  BY <1>5, <1>8, <1>9

LEMMA SaveInjectStep ==
  ASSUME HandlerOK, Administered, NEW r \in Handler, SaveInject(r)
  PROVE  HandlerOK' /\ Administered'
<1>1. handler[r] \in UpdateWork /\ handler[r].at = "save"
  BY AtWork DEF SaveInject
<1>2. PICK j \in Nat : j = handler[r].inject
  BY <1>1 DEF UpdateWork
<1>3. PICK names \in SUBSET FileName : names = handler[r].names
  BY <1>1 DEF UpdateWork
<1>4. PICK n \in Nat : n = nextInject
  BY DEF Administered, RowsOK
<1>5. Answer(r) /\ UNCHANGED <<injDirs, injFiles, deleted>>
  BY DEF SaveInject, diskVars
<1>6. HandlerOK' /\ OnlyMoves(r, Resting)
  BY <1>5, Answers
<1>7. /\ handler[r].kind = "update" /\ handler[r].kind \in AdminKinds /\ r \in WorkOn(j)
      /\ Given(j) \/ (j = 0 /\ names = {})
      /\ Given(j) /\ j \notin muddled => CountsOn(r, j)
      /\ j # 0 => j \in DOMAIN injRows \/ j \in muddled
  BY <1>1, <1>2, <1>3, UpdateKnows
<1>8. Resting.kind \notin AdminKinds
  BY DEF Resting, AdminKinds
<1>9. \A i : Disk(i)' = Disk(i)
  BY <1>5 DEF Disk
<1>10. \/ /\ j = 0 /\ n \in InjectId /\ nextInject' = n + 1 /\ muddled' = muddled
          /\ injRows' = [i \in DOMAIN injRows \cup {n} |-> IF i = n THEN names ELSE injRows[i]]
       \/ /\ j # 0 /\ UNCHANGED <<nextInject, muddled>>
          /\ injRows' = [i \in DOMAIN injRows \cup {j} |-> IF i = j THEN names ELSE injRows[i]]
       \/ muddled' = muddled \cup {j} /\ UNCHANGED <<injRows, nextInject>>
  BY <1>2, <1>3, <1>4 DEF SaveInject, NumberSaved, Muddle
<1>11. CASE muddled' = muddled \cup {j} /\ UNCHANGED <<injRows, nextInject>>
  <2>1. RowsOK' /\ \A i \in Nat : Untouched(i)
    BY <1>5, <1>9, <1>11 DEF RowsOK, Given, Administered, Untouched
  <2>2. j \in muddled' /\ muddled \subseteq muddled'
    BY <1>11
  <2>3. Administered'
    BY <1>2, <1>5, <1>6, <1>8, <1>11, <2>1, <2>2, WorkStep
  <2>4. QED
    BY <1>6, <2>3
<1>12. CASE /\ j # 0 /\ UNCHANGED <<nextInject, muddled>>
            /\ injRows' = [i \in DOMAIN injRows \cup {j} |-> IF i = j THEN names ELSE injRows[i]]
  <2>1. /\ DOMAIN injRows' = DOMAIN injRows \cup {j} /\ injRows'[j] = names
        /\ \A i \in DOMAIN injRows : i # j => injRows'[i] = injRows[i]
    BY <1>12
  <2>2. Given(j)
    BY <1>7, <1>12
  <2>3. injRows' \in [DOMAIN injRows' -> SUBSET FileName]
    BY <1>12, <2>1 DEF Administered, RowsOK
  <2>4. RowsOK'
    BY <1>5, <1>12, <2>1, <2>2, <2>3 DEF Administered, RowsOK, Given
  <2>5. \A i \in Nat : i # j => Untouched(i)
    BY <1>5, <1>9, <2>1 DEF Untouched
  <2>6. Given(j) /\ j \notin muddled' => Match(j)'
    <3>1. j \notin muddled => Disk(j) = names
      BY <1>1, <1>3, <1>7, <2>2 DEF CountsOn
    <3>2. QED
      BY <1>9, <1>12, <2>1, <3>1 DEF Match
  <2>7. DOMAIN injRows' \subseteq DOMAIN injRows \cup muddled'
    BY <1>7, <1>12, <2>1
  <2>8. Administered'
    BY <1>2, <1>5, <1>6, <1>7, <1>8, <1>12, <2>1, <2>4, <2>5, <2>6, <2>7, WorkStep
  <2>9. QED
    BY <1>6, <2>8
<1>13. CASE /\ j = 0 /\ n \in InjectId /\ nextInject' = n + 1 /\ muddled' = muddled
            /\ injRows' = [i \in DOMAIN injRows \cup {n} |-> IF i = n THEN names ELSE injRows[i]]
  <2>1. /\ DOMAIN injRows' = DOMAIN injRows \cup {n} /\ injRows'[n] = names
        /\ \A i \in DOMAIN injRows : i # n => injRows'[i] = injRows[i]
    BY <1>13
  <2>2. 1 <= n /\ n <= MaxInjects /\ MaxInjects \in Nat
    BY <1>13, InjectBoundsAssumption DEF InjectId
  <2>3. n \notin DOMAIN injRows /\ n \notin injDirs /\ n \notin deleted /\ ~Given(n)
    BY <1>4 DEF Administered, RowsOK, Given
  <2>4. \A i \in Nat : Given(i)' <=> Given(i) \/ i = n
    BY <1>4, <1>13, <2>2 DEF Given
  <2>5. names = {}
    BY <1>7, <1>13 DEF Given
  <2>6. RowsOK'
    <3>1. injRows' \in [DOMAIN injRows' -> SUBSET FileName]
      BY <1>13, <2>1 DEF Administered, RowsOK
    <3>2. QED
      BY <1>4, <1>5, <1>13, <2>1, <2>2, <2>4, <3>1 DEF Administered, RowsOK
  <2>7. WorkGiven'
    BY <1>4, <1>6, <1>13, WorkGivenMove DEF Administered
  <2>8. Apart'
    BY <1>6, <1>8, <1>13, ApartMove DEF Administered
  <2>9. AllTracked'
    <3>1. ASSUME NEW i \in Nat, i # n, Given(i) PROVE Tracked(i)'
      <4>1. r \notin WorkOn(i)
        <5>1. i # 0
          BY <3>1 DEF Given
        <5>2. QED
          BY <1>2, <1>13, <5>1 DEF WorkOn
      <4>2. Untouched(i)
        <5>1. /\ i \in DOMAIN injRows' <=> i \in DOMAIN injRows
              /\ i \in DOMAIN injRows => injRows'[i] = injRows[i]
          BY <2>1, <3>1
        <5>2. Disk(i)' = Disk(i)
          BY <1>9
        <5>3. QED
          BY <1>5, <5>1, <5>2 DEF Untouched
      <4>3. Tracked(i)
        BY <3>1 DEF Administered, AllTracked
      <4>4. QED
        BY <1>6, <1>8, <1>13, <4>1, <4>2, <4>3, TrackedFrame
    <3>2. Tracked(n)'
      <4>1. WorkOn(n) = {}
        BY <1>4, <2>2, <2>3 DEF WorkOn, Administered, WorkGiven, Resting
      <4>2. WorkOn(n)' = {}
        BY <1>6, <1>8, <4>1 DEF WorkOn, OnlyMoves, AdminKinds
      <4>3. Disk(n) = {}
        BY <2>3 DEF Disk, Administered, RowsOK
      <4>4. Match(n)'
        BY <1>9, <2>1, <2>5, <4>3 DEF Match
      <4>5. QED
        BY <4>2, <4>4 DEF Tracked
    <3>3. QED
      BY <2>4, <3>1, <3>2 DEF AllTracked
  <2>10. UpdatesLive'
    BY <1>6, <1>8, <1>13, <2>1 DEF Administered, UpdatesLive, OnlyMoves, AdminKinds
  <2>11. DeletedStaysDeleted'
    BY <1>5, <1>13, <2>1, <2>3 DEF Administered, DeletedStaysDeleted
  <2>12. QED
    BY <1>6, <2>6, <2>7, <2>8, <2>9, <2>10, <2>11 DEF Administered
<1>14. QED
  BY <1>10, <1>11, <1>12, <1>13

LEMMA DeleteRowStep ==
  ASSUME HandlerOK, Administered, NEW r \in Handler, DeleteRow(r)
  PROVE  HandlerOK' /\ Administered'
<1>1. handler[r] \in DeleteWork /\ handler[r].at = "inject"
  BY AtWork DEF DeleteRow
<1>2. handler[r].kind \in AdminKinds /\ handler[r].kind = "delete"
  BY <1>1 DEF AdminKinds, DeleteWork
<1>3. PICK j \in Nat : j = handler[r].inject
  BY <1>2, Knows
<1>4. UNCHANGED <<nextInject, injDirs, injFiles, muddled>>
  BY DEF DeleteRow, diskVars
<1>5. \/ /\ injRows' = [i \in DOMAIN injRows \ {j} |-> injRows[i]]
         /\ deleted' = deleted \cup {j} /\ Proceed(r, "directory")
      \/ Answer(r) /\ UNCHANGED <<injRows, deleted>>
  BY <1>3 DEF DeleteRow
<1>6. Given(j) /\ r \in WorkOn(j) /\ (j \notin muddled => CountsOn(r, j))
  BY <1>2, <1>3, Knows
<1>7. \A i : Disk(i)' = Disk(i)
  BY <1>4 DEF Disk
<1>8. CASE Answer(r) /\ UNCHANGED <<injRows, deleted>>
  <2>1. HandlerOK' /\ OnlyMoves(r, Resting)
    BY <1>8, Answers
  <2>2. RowsOK' /\ \A i \in Nat : Untouched(i)
    BY <1>4, <1>7, <1>8 DEF RowsOK, Given, Administered, Untouched
  <2>3. Resting.kind \notin AdminKinds
    BY DEF Resting, AdminKinds
  <2>4. j \notin muddled' => Match(j)'
    BY <1>1, <1>4, <1>6, <1>7, <1>8 DEF CountsOn, Match
  <2>5. Administered'
    BY <1>3, <1>4, <1>6, <1>8, <2>1, <2>2, <2>3, <2>4, WorkStep
  <2>6. QED
    BY <2>1, <2>5
<1>9. CASE /\ injRows' = [i \in DOMAIN injRows \ {j} |-> injRows[i]]
           /\ deleted' = deleted \cup {j} /\ Proceed(r, "directory")
  <2> DEFINE work == [kind |-> "delete", at |-> "directory", inject |-> j]
  <2>1. HandlerOK' /\ OnlyMoves(r, work)
    BY <1>1, <1>3, <1>9, DeleteMoves
  <2>2. work.kind = "delete" /\ work.at = "directory" /\ work.inject = j
        /\ work.kind \in AdminKinds
    BY DEF AdminKinds
  <2> HIDE DEF work
  <2>3. /\ DOMAIN injRows' = DOMAIN injRows \ {j}
        /\ \A i \in DOMAIN injRows : i # j => injRows'[i] = injRows[i]
    BY <1>9
  <2>4. RowsOK'
    <3>1. injRows' \in [DOMAIN injRows' -> SUBSET FileName]
      BY <1>9, <2>3 DEF Administered, RowsOK
    <3>2. QED
      BY <1>4, <1>6, <1>9, <2>3, <3>1 DEF Administered, RowsOK, Given
  <2>5. \A i \in Nat : Given(i)' <=> Given(i)
    BY <1>4 DEF Given
  <2>6. WorkGiven'
    <3>1. nextInject \in Nat /\ work.inject \in Nat /\ Given(work.inject)'
      BY <1>6, <2>2, <2>5 DEF Administered, RowsOK
    <3>2. QED
      BY <1>4, <2>1, <3>1, WorkGivenMove DEF Administered
  <2>7. Apart'
    BY <1>2, <1>3, <1>4, <2>1, <2>2, ApartMove DEF Administered
  <2>8. AllTracked'
    <3>1. ASSUME NEW i \in Nat, i # j, Given(i) PROVE Tracked(i)'
      <4>1. \A k \in Nat : k # j => Untouched(k)
        BY <1>4, <1>7, <2>3 DEF Untouched
      <4>2. QED
        BY <1>2, <1>3, <1>4, <2>1, <2>2, <3>1, <4>1, OthersTracked
    <3>2. Tracked(j)'
      <4>1. CountsOn(r, j)'
        <5>1. handler'[r].at = "directory" /\ j \notin DOMAIN injRows'
          BY <2>1, <2>2, <2>3 DEF OnlyMoves
        <5>2. QED
          BY <5>1 DEF CountsOn
      <4>2. QED
        BY <1>4, <2>1, <2>2, <2>7, <4>1, TrackedMove DEF Administered
    <3>3. QED
      BY <2>5, <3>1, <3>2 DEF AllTracked
  <2>9. UpdatesLive'
    <3>1. SUFFICES ASSUME NEW q \in Handler, handler'[q].kind = "update", handler'[q].inject # 0
                   PROVE  \/ handler'[q].inject \in DOMAIN injRows'
                          \/ handler'[q].inject \in muddled'
      BY DEF UpdatesLive
    <3>2. q # r /\ handler'[q] = handler[q]
      BY <2>1, <2>2, <3>1 DEF OnlyMoves
    <3>3. handler[q].inject \in DOMAIN injRows \/ handler[q].inject \in muddled
      BY <3>1, <3>2 DEF Administered, UpdatesLive
    <3>4. CASE handler[q].inject = j
      <4>1. q \in WorkOn(j)
        BY <3>1, <3>2, <3>4 DEF WorkOn
      <4>2. j \in muddled
        BY <1>6, <3>2, <4>1 DEF Administered, Apart
      <4>3. QED
        BY <1>4, <3>2, <3>4, <4>2
    <3>5. QED
      BY <1>4, <2>3, <3>2, <3>3, <3>4
  <2>10. DeletedStaysDeleted'
    BY <1>4, <1>9, <2>3 DEF Administered, DeletedStaysDeleted
  <2>11. QED
    BY <2>1, <2>4, <2>6, <2>7, <2>8, <2>9, <2>10 DEF Administered
<1>10. QED
  BY <1>5, <1>8, <1>9

\* A crash muddles every inject a handler was at work on.
LEMMA CrashStep ==
  ASSUME HandlerOK, Administered, InjCrash
  PROVE  HandlerOK' /\ Administered'
<1>1. /\ handler' = [r \in Handler |-> Resting]
      /\ muddled' = muddled \cup {i \in InjectId : WorkOn(i) # {}}
      /\ UNCHANGED <<injRows, nextInject, injDirs, injFiles, deleted>>
  BY DEF InjCrash, diskVars
<1>2. HandlerOK' /\ RowsOK' /\ WorkGiven'
  BY <1>1 DEF HandlerOK, Administered, RowsOK, WorkGiven, Given
<1>3. \A i : WorkOn(i)' = {}
  BY <1>1 DEF WorkOn, Resting
<1>4. AllTracked'
  <2>1. ASSUME NEW i \in Nat, Given(i), i \notin muddled' PROVE Match(i)'
    <3>1. i \in InjectId
      BY <2>1, InjectBoundsAssumption DEF Administered, RowsOK, Given, InjectId
    <3>2. WorkOn(i) = {} /\ i \notin muddled
      BY <1>1, <2>1, <3>1
    <3>3. Match(i)
      BY <2>1, <3>2 DEF Administered, AllTracked, Tracked
    <3>4. Disk(i)' = Disk(i)
      BY <1>1 DEF Disk
    <3>5. QED
      BY <1>1, <3>3, <3>4 DEF Match
  <2>2. QED
    BY <1>1, <1>3, <2>1 DEF AllTracked, Tracked, Given
<1>5. Apart' /\ UpdatesLive' /\ DeletedStaysDeleted'
  BY <1>1, <1>3 DEF Administered, Apart, UpdatesLive, DeletedStaysDeleted, Resting
<1>6. QED
  BY <1>2, <1>4, <1>5 DEF Administered

-----------------------------------------------------------------------------
(* Submissions *)

\* How many handlers are about to read a version.
LEMMA UpcomingIsFew ==
  ASSUME FewVersions
  PROVE  Cardinality(Upcoming) \in Nat /\ injRequests \in Nat
BY FS_CardinalityType DEF FewVersions

\* A step of a handler that submits nothing, and leaves the submissions alone.
LEMMA SubmissionsFrame ==
  ASSUME HandlerOK, Submitted, NEW r \in Handler, NEW work, OnlyMoves(r, work),
         handler[r].kind # "submit", work.kind # "submit", work.at # "version",
         UNCHANGED <<subRows, subFiles, accepted, emptied, rivals>>,
         nextInject \in Nat, nextInject' \in Nat, nextInject <= nextInject',
         injRequests' \in Nat, injRequests <= injRequests', injRequests' <= MaxInjRequests,
         MaxInjRequests \in Nat, Rooted'
  PROVE  Submitted'
<1>1. \A q \in Handler : handler[q].at = "version" => handler[q].kind = "submit"
  BY AtWork DEF SubmitWork
<1>2. \A q \in Handler : handler'[q].at = "version" <=> handler[q].at = "version"
  BY <1>1 DEF OnlyMoves
<1>3. Upcoming' = Upcoming
  BY <1>2 DEF Upcoming
<1>4. /\ \A i, t : Submitting(i, t)' = Submitting(i, t)
      /\ \A q \in Handler : handler'[q].kind = "submit" => handler'[q] = handler[q]
  BY DEF Submitting, OnlyMoves
<1>5. \A i, t : SubmissionsOf(i, t)' = SubmissionsOf(i, t)
  BY DEF SubmissionsOf
<1>6. \A i \in Nat : Given(i) => Given(i)'
  BY DEF Given
<1>7. FewVersions'
  <2>1. Cardinality(Upcoming) \in Nat /\ injRequests \in Nat
    BY UpcomingIsFew DEF Submitted
  <2>2. ASSUME NEW s \in (subRows \cup subFiles \cup accepted \cup emptied)'
        PROVE  /\ IsSubmission(s)' /\ 1 <= s.upload /\ s.upload <= injRequests'
               /\ s.version + Cardinality(Upcoming)' <= injRequests'
    <3>1. /\ IsSubmission(s) /\ 1 <= s.upload /\ s.upload <= injRequests
          /\ s.version + Cardinality(Upcoming) <= injRequests
      BY <2>2 DEF Submitted, FewVersions
    <3>2. IsSubmission(s)'
      BY <1>6, <3>1 DEF IsSubmission
    <3>3. s.upload \in Nat /\ s.version \in Nat
      BY <3>1 DEF IsSubmission
    <3>4. QED
      BY <1>3, <2>1, <3>1, <3>2, <3>3
  <2>3. ASSUME NEW q \in Handler, handler'[q].kind = "submit"
        PROVE  /\ 1 <= handler'[q].upload /\ handler'[q].upload <= injRequests'
               /\ handler'[q].at # "version" =>
                    /\ 1 <= handler'[q].version
                    /\ handler'[q].version + Cardinality(Upcoming)' <= injRequests'
    <3>1. handler'[q] = handler[q] /\ handler[q].upload \in Nat /\ handler[q].version \in Nat
      BY <1>4, <2>3, AtWork DEF SubmitWork
    <3>2. /\ 1 <= handler[q].upload /\ handler[q].upload <= injRequests
          /\ handler[q].at # "version" =>
               /\ 1 <= handler[q].version
               /\ handler[q].version + Cardinality(Upcoming) <= injRequests
      BY <2>3, <3>1 DEF Submitted, FewVersions
    <3>3. QED
      BY <1>3, <2>1, <3>1, <3>2
  <2>4. IsFiniteSet(Upcoming)' /\ Cardinality(Upcoming)' <= injRequests'
    BY <1>3, <2>1 DEF Submitted, FewVersions
  <2>5. QED
    BY <2>2, <2>3, <2>4 DEF FewVersions
<1>8. Topped'
  BY <1>5 DEF Topped, Submitted
<1>9. RivalsKnown'
  BY <1>4, <1>6 DEF RivalsKnown, Submitted
<1>10. Versioned'
  <2>1. ASSUME NEW i \in Nat, NEW t \in InjTeam, <<i, t>> \notin rivals'
        PROVE  (Unique(i, t) /\ Newer(i, t) /\ Stored(i, t) /\ Kept(i, t))'
    <3>1. Unique(i, t) /\ Newer(i, t) /\ Stored(i, t) /\ Kept(i, t)
      BY <2>1 DEF Submitted, Versioned
    <3>2. \A q \in Submitting(i, t) : handler'[q] = handler[q] /\ RowOf(q)' = RowOf(q)
      BY <1>4 DEF Submitting, RowOf
    <3>3. Newer(i, t)' /\ Stored(i, t)'
      BY <1>4, <1>5, <3>1, <3>2 DEF Newer, Stored
    <3>4. Unique(i, t)' /\ Kept(i, t)'
      BY <1>5, <3>1 DEF Unique, Kept
    <3>5. QED
      BY <3>3, <3>4
  <2>2. QED
    BY <2>1 DEF Versioned
<1>11. QED
  BY <1>7, <1>8, <1>9, <1>10 DEF Submitted

AllSubmissions == subRows \cup subFiles \cup accepted \cup emptied

\* Every request leaves room for one version more.
LEMMA FewVersionsMove ==
  ASSUME HandlerOK, FewVersions, NEW r \in Handler, NEW work, OnlyMoves(r, work),
         IsFiniteSet(Upcoming)', Cardinality(Upcoming)' \in Nat,
         injRequests' \in Nat, injRequests <= injRequests', injRequests' <= MaxInjRequests,
         Cardinality(Upcoming)' + injRequests <= Cardinality(Upcoming) + injRequests',
         nextInject' = nextInject,
         \A s \in AllSubmissions' : s \in AllSubmissions \/
           /\ IsSubmission(s) /\ 1 <= s.upload /\ s.upload <= injRequests'
           /\ s.version + Cardinality(Upcoming)' <= injRequests',
         work.kind = "submit" =>
           /\ 1 <= work.upload /\ work.upload <= injRequests'
           /\ work.at # "version" =>
                /\ 1 <= work.version
                /\ work.version + Cardinality(Upcoming)' <= injRequests'
  PROVE  FewVersions'
<1>1. /\ Cardinality(Upcoming) \in Nat /\ injRequests \in Nat
      /\ Cardinality(Upcoming) <= injRequests
  BY UpcomingIsFew DEF FewVersions
<1>2. ASSUME NEW s \in AllSubmissions'
      PROVE  /\ IsSubmission(s)' /\ 1 <= s.upload /\ s.upload <= injRequests'
             /\ s.version + Cardinality(Upcoming)' <= injRequests'
  <2>1. CASE s \in AllSubmissions
    <3>1. /\ IsSubmission(s) /\ 1 <= s.upload /\ s.upload <= injRequests
          /\ s.version + Cardinality(Upcoming) <= injRequests
      BY <2>1 DEF FewVersions, AllSubmissions
    <3>2. s.upload \in Nat /\ s.version \in Nat /\ IsSubmission(s)'
      BY <3>1 DEF IsSubmission, Given
    <3>3. QED
      BY <1>1, <3>1, <3>2
  <2>2. CASE s \notin AllSubmissions
    <3>1. /\ IsSubmission(s) /\ 1 <= s.upload /\ s.upload <= injRequests'
          /\ s.version + Cardinality(Upcoming)' <= injRequests'
      BY <2>2
    <3>2. IsSubmission(s)'
      BY <3>1 DEF IsSubmission, Given
    <3>3. QED
      BY <3>1, <3>2
  <2>3. QED
    BY <2>1, <2>2
<1>3. ASSUME NEW q \in Handler, handler'[q].kind = "submit"
      PROVE  /\ 1 <= handler'[q].upload /\ handler'[q].upload <= injRequests'
             /\ handler'[q].at # "version" =>
                  /\ 1 <= handler'[q].version
                  /\ handler'[q].version + Cardinality(Upcoming)' <= injRequests'
  <2>1. CASE q = r
    BY <1>3, <2>1 DEF OnlyMoves
  <2>2. CASE q # r
    <3>1. handler'[q] = handler[q] /\ handler[q].upload \in Nat /\ handler[q].version \in Nat
      BY <1>3, <2>2, AtWork DEF SubmitWork, OnlyMoves
    <3>2. /\ 1 <= handler[q].upload /\ handler[q].upload <= injRequests
          /\ handler[q].at # "version" =>
               /\ 1 <= handler[q].version
               /\ handler[q].version + Cardinality(Upcoming) <= injRequests
      BY <1>3, <3>1 DEF FewVersions
    <3>3. QED
      BY <1>1, <3>1, <3>2
  <2>3. QED
    BY <2>1, <2>2
<1>4. Cardinality(Upcoming)' <= injRequests'
  BY <1>1
<1>5. QED
  BY <1>2, <1>3, <1>4 DEF FewVersions, AllSubmissions

LEMMA BeginSubmissionStep ==
  ASSUME HandlerOK, RowsOK, Submitted, NEW r \in Handler, BeginSubmission(r)
  PROVE  Submitted'
<1> USE DEF Submitted
<1>1. Cardinality(Upcoming) \in Nat /\ injRequests \in Nat
  BY UpcomingIsFew
<1>2. PICK j \in DOMAIN injRows, u \in InjTeam :
        /\ OnlyMoves(r, [kind |-> "submit", at |-> "version", inject |-> j, team |-> u,
                         version |-> 0, upload |-> injRequests + 1])
        /\ rivals' = rivals \/ rivals' = rivals \cup {<<j, u>>}
        /\ \A q \in Handler : q \in Submitting(j, u) => <<j, u>> \in rivals'
  BY <1>1, BeginSubmissionMoves
<1> DEFINE work == [kind |-> "submit", at |-> "version", inject |-> j, team |-> u,
                    version |-> 0, upload |-> injRequests + 1]
<1>3. /\ OnlyMoves(r, work) /\ work.kind = "submit" /\ work.at = "version" /\ work.inject = j
      /\ work.team = u /\ work.upload = injRequests + 1
  BY <1>2
<1> HIDE DEF work
<1>4. /\ UNCHANGED <<injRows, subRows, nextInject, subFiles, accepted, emptied>>
      /\ handler[r] = Resting /\ injRequests' = injRequests + 1 /\ injRequests < MaxInjRequests
      /\ MaxInjRequests \in Nat
  BY InjectBoundsAssumption DEF BeginSubmission, Request, diskVars
<1>5. j \in Nat /\ Given(j)
  BY DEF RowsOK
<1>6. r \notin Upcoming /\ Upcoming' = Upcoming \cup {r}
  BY <1>3, <1>4 DEF Upcoming, OnlyMoves, Resting
<1>7. IsFiniteSet(Upcoming)' /\ Cardinality(Upcoming)' = Cardinality(Upcoming) + 1
  BY <1>6, FS_AddElement DEF FewVersions
<1>8. FewVersions'
  <2>1. AllSubmissions' = AllSubmissions
    BY <1>4 DEF AllSubmissions
  <2>2. QED
    BY <1>1, <1>3, <1>4, <1>7, <2>1, FewVersionsMove
<1>9. \A i, t : SubmissionsOf(i, t)' = SubmissionsOf(i, t)
  BY <1>4 DEF SubmissionsOf
<1>10. Topped' /\ Rooted'
  BY <1>4, <1>9 DEF Topped, Rooted
<1>11. \A i, t : \A q \in Submitting(i, t)' :
         \/ q # r /\ q \in Submitting(i, t) /\ handler'[q] = handler[q]
         \/ q = r /\ i = j /\ t = u
  BY <1>3 DEF Submitting, OnlyMoves
<1>12. RivalsKnown'
  <2>1. rivals' \subseteq Nat \X InjTeam /\ \A p \in rivals' : Given(p[1])
    BY <1>2, <1>5 DEF RivalsKnown
  <2>2. ASSUME NEW i \in Nat, NEW t \in InjTeam, <<i, t>> \notin rivals',
               NEW p \in Submitting(i, t)', NEW q \in Submitting(i, t)'
        PROVE  p = q
    <3>1. \A o, m \in Submitting(i, t) : o = m
      BY <1>2, <2>2 DEF RivalsKnown
    <3>2. i = j /\ t = u => Submitting(i, t) = {}
      BY <1>2, <2>2 DEF Submitting
    <3>3. QED
      BY <1>11, <3>1, <3>2
  <2>3. QED
    BY <1>4, <2>1, <2>2 DEF RivalsKnown, Given
<1>13. Versioned'
  <2>1. ASSUME NEW i \in Nat, NEW t \in InjTeam, <<i, t>> \notin rivals'
        PROVE  (Unique(i, t) /\ Newer(i, t) /\ Stored(i, t) /\ Kept(i, t))'
    <3>1. Unique(i, t) /\ Newer(i, t) /\ Stored(i, t) /\ Kept(i, t)
      BY <1>2, <2>1 DEF Versioned
    <3>2. handler'[r].at = "version"
      BY <1>3 DEF OnlyMoves
    <3>3. \A q \in Submitting(i, t) : handler'[q] = handler[q] => RowOf(q)' = RowOf(q)
      BY DEF RowOf
    <3>4. Newer(i, t)'
      BY <1>9, <1>11, <3>1, <3>2 DEF Newer
    <3>5. Stored(i, t)'
      BY <1>4, <1>9, <1>11, <3>1, <3>2, <3>3 DEF Stored
    <3>6. Unique(i, t)' /\ Kept(i, t)'
      BY <1>4, <1>9, <3>1 DEF Unique, Kept
    <3>7. QED
      BY <3>4, <3>5, <3>6
  <2>2. QED
    BY <2>1 DEF Versioned
<1>14. QED
  BY <1>8, <1>10, <1>12, <1>13

\* A handler goes on with its submission, or is done with it.
LEMMA SubmittingMoves ==
  ASSUME HandlerOK, NEW r \in Handler, NEW work, OnlyMoves(r, work), handler[r].kind = "submit",
         work = Resting \/ (/\ work.kind = "submit" /\ work.inject = handler[r].inject
                           /\ work.team = handler[r].team)
  PROVE  /\ \A i, t : Submitting(i, t)' \subseteq Submitting(i, t)
         /\ \A i, t : \A q \in Submitting(i, t)' : q # r =>
              handler'[q] = handler[q] /\ RowOf(q)' = RowOf(q)
         /\ RivalsKnown /\ UNCHANGED <<rivals, nextInject>> => RivalsKnown'
<1>1. \A i, t : Submitting(i, t)' \subseteq Submitting(i, t)
  BY DEF Submitting, OnlyMoves, Resting
<1>2. \A i, t : \A q \in Submitting(i, t)' : q # r =>
        handler'[q] = handler[q] /\ RowOf(q)' = RowOf(q)
  BY DEF Submitting, OnlyMoves, RowOf
<1>3. RivalsKnown /\ UNCHANGED <<rivals, nextInject>> => RivalsKnown'
  BY <1>1 DEF RivalsKnown, Given
<1>4. QED
  BY <1>1, <1>2, <1>3

LEMMA ReadVersionStep ==
  ASSUME HandlerOK, Submitted, NEW r \in Handler, ReadVersion(r)
  PROVE  Submitted'
<1> USE DEF Submitted
<1>1. /\ Cardinality(Upcoming) \in Nat /\ injRequests \in Nat /\ injRequests <= MaxInjRequests
      /\ Cardinality(Upcoming) <= injRequests
  BY UpcomingIsFew DEF FewVersions
<1>2. handler[r] \in SubmitWork /\ handler[r].at = "version"
  BY AtWork DEF ReadVersion
<1>3. PICK j \in Nat, u \in InjTeam : j = handler[r].inject /\ u = handler[r].team
  BY <1>2 DEF SubmitWork
<1>4. PICK v : v = NextVersion(j, u)
  OBVIOUS
<1> DEFINE work == SubmitRecord(r, "insert", v)
<1>5. OnlyMoves(r, work)
  BY <1>3, <1>4, ReadVersionMoves
<1>6. /\ work.kind = "submit" /\ work.at = "insert" /\ work.inject = j /\ work.team = u
      /\ work.version = v /\ work.upload = handler[r].upload
  BY <1>3 DEF SubmitRecord
<1> HIDE DEF work
<1>7. UNCHANGED <<injRows, subRows, nextInject, subFiles, accepted, emptied, rivals, injRequests>>
  BY DEF ReadVersion, diskVars, injHistory
<1>8. r \in Upcoming /\ Upcoming' = Upcoming \ {r}
  BY <1>2, <1>5, <1>6 DEF Upcoming, OnlyMoves
<1>9. IsFiniteSet(Upcoming)' /\ Cardinality(Upcoming)' = Cardinality(Upcoming) - 1
  BY <1>8, FS_RemoveElement DEF FewVersions
<1>10. Cardinality(Upcoming) # 0
  BY <1>8, FS_EmptySet DEF FewVersions
<1>11. \A s \in SubmissionsOf(j, u) :
         s.version \in Nat /\ s.version + Cardinality(Upcoming) <= injRequests
  BY DEF FewVersions, SubmissionsOf, IsSubmission
<1>12. /\ v \in Nat /\ 1 <= v /\ v + Cardinality(Upcoming)' <= injRequests
       /\ \A s \in SubmissionsOf(j, u) : s.version < v
  <2>1. CASE SubmissionsOf(j, u) = {} /\ v = 1
    BY <1>1, <1>9, <2>1
  <2>2. ASSUME NEW top \in SubmissionsOf(j, u), v = top.version + 1,
               \A s \in SubmissionsOf(j, u) : s.version <= top.version
        PROVE  /\ v \in Nat /\ 1 <= v /\ v + Cardinality(Upcoming)' <= injRequests
               /\ \A s \in SubmissionsOf(j, u) : s.version < v
    BY <1>1, <1>9, <1>11, <2>2
  <2>3. QED
    BY <1>3, <1>4, <2>1, <2>2, NextVersionIs
<1>13. FewVersions'
  <2>1. AllSubmissions' = AllSubmissions
    BY <1>7 DEF AllSubmissions
  <2>2. 1 <= handler[r].upload /\ handler[r].upload <= injRequests
    BY <1>2 DEF FewVersions, SubmitWork
  <2>3. Cardinality(Upcoming)' \in Nat
    BY <1>1, <1>9, <1>10
  <2>4. QED
    BY <1>1, <1>5, <1>6, <1>7, <1>9, <1>12, <2>1, <2>2, <2>3, FewVersionsMove
<1>14. \A i, t : SubmissionsOf(i, t)' = SubmissionsOf(i, t)
  BY <1>7 DEF SubmissionsOf
<1>15. Topped' /\ Rooted'
  BY <1>7, <1>14 DEF Topped, Rooted
<1>16. /\ \A i, t : Submitting(i, t)' \subseteq Submitting(i, t)
       /\ \A i, t : \A q \in Submitting(i, t)' : q # r =>
            handler'[q] = handler[q] /\ RowOf(q)' = RowOf(q)
       /\ RivalsKnown'
  <2>1. handler[r].kind = "submit"
    BY <1>2 DEF SubmitWork
  <2>2. QED
    BY <1>3, <1>5, <1>6, <1>7, <2>1, SubmittingMoves
<1>17. Versioned'
  <2>1. ASSUME NEW i \in Nat, NEW t \in InjTeam, <<i, t>> \notin rivals'
        PROVE  (Unique(i, t) /\ Newer(i, t) /\ Stored(i, t) /\ Kept(i, t))'
    <3>1. Unique(i, t) /\ Newer(i, t) /\ Stored(i, t) /\ Kept(i, t)
      BY <1>7, <2>1 DEF Versioned
    <3>2. handler'[r] = work
      BY <1>5 DEF OnlyMoves
    <3>3. r \in Submitting(i, t) => i = j /\ t = u
      BY <1>3 DEF Submitting
    <3>4. Newer(i, t)'
      BY <1>6, <1>12, <1>14, <1>16, <3>1, <3>2, <3>3 DEF Newer
    <3>5. Stored(i, t)'
      BY <1>6, <1>7, <1>14, <1>16, <3>1, <3>2 DEF Stored
    <3>6. Unique(i, t)' /\ Kept(i, t)'
      BY <1>7, <1>14, <3>1 DEF Unique, Kept
    <3>7. QED
      BY <3>4, <3>5, <3>6
  <2>2. QED
    BY <2>1 DEF Versioned
<1>18. QED
  BY <1>13, <1>15, <1>16, <1>17

LEMMA InsertStep ==
  ASSUME HandlerOK, Administered, Submitted, NEW r \in Handler, InsertSubmission(r)
  PROVE  Submitted'
<1> USE DEF Submitted
<1>1. /\ Cardinality(Upcoming) \in Nat /\ injRequests \in Nat /\ injRequests <= MaxInjRequests
      /\ IsFiniteSet(Upcoming)
  BY UpcomingIsFew DEF FewVersions
<1>2. handler[r] \in SubmitWork /\ handler[r].at = "insert" /\ handler[r].kind = "submit"
  BY AtWork DEF InsertSubmission, SubmitWork
<1>3. PICK j \in Nat, u \in InjTeam, v \in Nat :
        j = handler[r].inject /\ u = handler[r].team /\ v = handler[r].version
  BY <1>2 DEF SubmitWork
<1>0. PICK row : row = RowOf(r)
  OBVIOUS
<1>4. /\ row = [inject |-> j, team |-> u, version |-> v, upload |-> handler[r].upload]
      /\ row.inject = j /\ row.team = u /\ row.version = v /\ row.upload = handler[r].upload
  BY <1>0, <1>3 DEF RowOf
<1>5. UNCHANGED <<injRows, nextInject, subFiles, accepted, emptied, rivals, injRequests>>
  BY DEF InsertSubmission, diskVars, injHistory
<1>6. /\ IsSubmission(row) /\ 1 <= row.upload /\ row.upload <= injRequests
      /\ row.version + Cardinality(Upcoming) <= injRequests
  <2>1. Given(j)
    BY <1>2, <1>3 DEF Administered, WorkGiven, Resting
  <2>2. /\ 1 <= handler[r].upload /\ handler[r].upload <= injRequests /\ handler[r].upload \in Nat
        /\ 1 <= v /\ v + Cardinality(Upcoming) <= injRequests
    BY <1>2, <1>3 DEF FewVersions, SubmitWork
  <2>3. QED
    BY <1>4, <2>1, <2>2 DEF IsSubmission
<1>7. ASSUME NEW work, OnlyMoves(r, work),
             work = Resting \/ (/\ work.kind = "submit" /\ work.inject = j /\ work.team = u
                               /\ work.at = "store" /\ work.version = v
                               /\ work.upload = handler[r].upload),
             \/ UNCHANGED subRows /\ work = Resting
             \/ /\ subRows' = subRows \cup {row} /\ work # Resting
                /\ j \in DOMAIN injRows
      PROVE  Submitted'
  <2>1. work.at # "version"
    BY <1>7 DEF Resting
  <2>2. Upcoming' = Upcoming
    BY <1>2, <1>7, <2>1 DEF Upcoming, OnlyMoves
  <2>3. FewVersions'
    <3>1. \A s \in AllSubmissions' : s \in AllSubmissions \/ s = row
      BY <1>5, <1>7 DEF AllSubmissions
    <3>2. work.kind = "submit" =>
            /\ 1 <= work.upload /\ work.upload <= injRequests
            /\ 1 <= work.version /\ work.version + Cardinality(Upcoming) <= injRequests
      BY <1>2, <1>3, <1>7 DEF FewVersions, Resting
    <3>3. QED
      BY <1>1, <1>5, <1>6, <1>7, <2>2, <3>1, <3>2, FewVersionsMove
  <2>4. \A i, t : SubmissionsOf(i, t)' =
          IF subRows' # subRows /\ i = j /\ t = u
            THEN SubmissionsOf(i, t) \cup {row} ELSE SubmissionsOf(i, t)
    BY <1>4, <1>7 DEF SubmissionsOf
  <2>5. Topped'
    <3>1. ASSUME NEW i \in Nat, NEW t \in InjTeam, SubmissionsOf(i, t)' # {}
          PROVE  \E top \in SubmissionsOf(i, t)' : \A s \in SubmissionsOf(i, t)' :
                    s.version <= top.version
      <4>1. CASE SubmissionsOf(i, t)' = SubmissionsOf(i, t)
        BY <3>1, <4>1 DEF Topped
      <4>2. CASE SubmissionsOf(i, t)' = SubmissionsOf(i, t) \cup {row}
        <5>1. \A s \in SubmissionsOf(i, t) : s.version \in Nat
          BY DEF FewVersions, SubmissionsOf, IsSubmission
        <5>2. CASE SubmissionsOf(i, t) = {}
          BY <1>4, <4>2, <5>2
        <5>3. ASSUME NEW top \in SubmissionsOf(i, t),
                     \A s \in SubmissionsOf(i, t) : s.version <= top.version
              PROVE  \E o \in SubmissionsOf(i, t)' : \A s \in SubmissionsOf(i, t)' :
                        s.version <= o.version
          <6>1. CASE top.version <= row.version
            BY <1>4, <4>2, <5>1, <5>3, <6>1
          <6>2. CASE ~(top.version <= row.version)
            BY <1>4, <4>2, <5>1, <5>3, <6>2
          <6>3. QED
            BY <6>1, <6>2
        <5>4. QED
          BY <5>2, <5>3 DEF Topped
      <4>3. QED
        BY <2>4, <4>1, <4>2
    <3>2. QED
      BY <3>1 DEF Topped
  <2>6. Rooted'
    BY <1>4, <1>5, <1>7 DEF Rooted
  <2>7. /\ \A i, t : Submitting(i, t)' \subseteq Submitting(i, t)
        /\ \A i, t : \A q \in Submitting(i, t)' : q # r =>
             handler'[q] = handler[q] /\ RowOf(q)' = RowOf(q)
        /\ RivalsKnown'
    BY <1>2, <1>3, <1>5, <1>7, SubmittingMoves
  <2>8. Versioned'
    <3>1. ASSUME NEW i \in Nat, NEW t \in InjTeam, <<i, t>> \notin rivals'
          PROVE  (Unique(i, t) /\ Newer(i, t) /\ Stored(i, t) /\ Kept(i, t))'
      <4>1. Unique(i, t) /\ Newer(i, t) /\ Stored(i, t) /\ Kept(i, t)
        BY <1>5, <3>1 DEF Versioned
      <4>2. handler'[r] = work /\ (work = Resting \/ RowOf(r)' = row)
        BY <1>0, <1>4, <1>7 DEF OnlyMoves, RowOf
      <4>3. r \in Submitting(i, t)' => work # Resting /\ i = j /\ t = u /\ work.at = "store"
        BY <1>7, <4>2 DEF Submitting, Resting
      <4>4. r \in Submitting(i, t) <=> i = j /\ t = u
        BY <1>2, <1>3 DEF Submitting
      <4>5. i = j /\ t = u => \A q \in Submitting(i, t) : q = r
        BY <1>5, <3>1, <4>4 DEF RivalsKnown
      <4>6. i = j /\ t = u => \A s \in SubmissionsOf(i, t) : s.version \in Nat /\ s.version < v
        <5>1. ASSUME i = j, t = u, NEW s \in SubmissionsOf(i, t)
              PROVE  s.version \in Nat /\ s.version < v
          <6>1. s.version \in Nat
            BY DEF FewVersions, SubmissionsOf, IsSubmission
          <6>2. QED
            BY <1>2, <1>3, <4>1, <4>4, <5>1, <6>1 DEF Newer
        <5>2. QED
          BY <5>1
      <4>7. Unique(i, t)'
        <5>1. CASE SubmissionsOf(i, t)' = SubmissionsOf(i, t)
          BY <4>1, <5>1 DEF Unique
        <5>2. CASE i = j /\ t = u /\ SubmissionsOf(i, t)' = SubmissionsOf(i, t) \cup {row}
          BY <1>4, <4>1, <4>6, <5>2 DEF Unique
        <5>3. QED
          BY <2>4, <5>1, <5>2
      <4>8. Newer(i, t)'
        <5>1. ASSUME NEW q \in Submitting(i, t)', handler'[q].at = "insert"
              PROVE  /\ q \in Submitting(i, t) /\ handler'[q] = handler[q]
                     /\ SubmissionsOf(i, t)' = SubmissionsOf(i, t)
          BY <2>4, <2>7, <4>2, <4>3, <4>5, <5>1
        <5>2. QED
          BY <4>1, <5>1 DEF Newer
      <4>9. Stored(i, t)'
        <5>1. ASSUME NEW q \in Submitting(i, t)', handler'[q].at = "store"
              PROVE  /\ \/ RowOf(q)' \in subRows'
                        \/ RowOf(q)' \in emptied' /\ SubmissionsOf(i, t)' = {}
                     /\ RowOf(q)' \notin accepted' \ emptied'
          <6>1. CASE q = r
            <7>1. RowOf(q)' = row /\ i = j /\ t = u /\ row \in subRows'
              BY <1>7, <4>2, <4>3, <5>1, <6>1
            <7>2. row \notin accepted \ emptied
              <8>1. SUFFICES ASSUME row \in accepted, row \notin emptied PROVE FALSE
                OBVIOUS
              <8>2. row \in SubmissionsOf(i, t)
                BY <1>4, <4>1, <7>1, <8>1 DEF Kept, SubmissionsOf
              <8>3. QED
                BY <1>4, <4>6, <7>1, <8>2
            <7>3. QED
              BY <1>5, <1>7, <7>1, <7>2
          <6>2. CASE q # r
            <7>1. /\ q \in Submitting(i, t) /\ handler'[q] = handler[q] /\ RowOf(q)' = RowOf(q)
                  /\ SubmissionsOf(i, t)' = SubmissionsOf(i, t)
              BY <2>4, <2>7, <4>5, <5>1, <6>2
            <7>2. /\ RowOf(q) \in subRows \/ (RowOf(q) \in emptied /\ SubmissionsOf(i, t) = {})
                  /\ RowOf(q) \notin accepted \ emptied
              BY <4>1, <5>1, <7>1 DEF Stored
            <7>3. QED
              BY <1>5, <1>7, <7>1, <7>2
          <6>3. QED
            BY <6>1, <6>2
        <5>2. QED
          BY <5>1 DEF Stored
      <4>10. Kept(i, t)'
        BY <1>5, <1>7, <4>1 DEF Kept
      <4>11. QED
        BY <4>7, <4>8, <4>9, <4>10
    <3>2. QED
      BY <3>1 DEF Versioned
  <2>9. QED
    BY <2>3, <2>5, <2>6, <2>7, <2>8
<1>8. CASE OnlyMoves(r, Resting) /\ UNCHANGED subRows
  BY <1>7, <1>8
<1>9. CASE /\ OnlyMoves(r, SubmitRecord(r, "store", handler[r].version))
           /\ handler[r].inject \in DOMAIN injRows
           /\ subRows' = subRows \cup {RowOf(r)}
  <2> DEFINE work == SubmitRecord(r, "store", handler[r].version)
  <2>1. /\ work.kind = "submit" /\ work.inject = j /\ work.team = u /\ work.at = "store"
        /\ work.version = v /\ work.upload = handler[r].upload
    BY <1>3 DEF SubmitRecord
  <2> HIDE DEF work
  <2>2. work # Resting
    BY <2>1 DEF Resting
  <2>3. QED
    BY <1>0, <1>3, <1>7, <1>9, <2>1, <2>2 DEF work
<1>10. QED
  BY <1>8, <1>9, InsertMoves

LEMMA StoreStep ==
  ASSUME HandlerOK, Administered, Submitted, NEW r \in Handler, StoreFile(r)
  PROVE  Submitted'
<1> USE DEF Submitted
<1>1. /\ Cardinality(Upcoming) \in Nat /\ injRequests \in Nat /\ injRequests <= MaxInjRequests
      /\ IsFiniteSet(Upcoming)
  BY UpcomingIsFew DEF FewVersions
<1>2. handler[r] \in SubmitWork /\ handler[r].at = "store" /\ handler[r].kind = "submit"
  BY AtWork DEF StoreFile, SubmitWork
<1>3. PICK j \in Nat, u \in InjTeam, v \in Nat :
        j = handler[r].inject /\ u = handler[r].team /\ v = handler[r].version
  BY <1>2 DEF SubmitWork
<1>4. PICK row : row = RowOf(r)
  OBVIOUS
<1>5. /\ row = [inject |-> j, team |-> u, version |-> v, upload |-> handler[r].upload]
      /\ row.inject = j /\ row.team = u /\ row.version = v /\ row.upload = handler[r].upload
  BY <1>3, <1>4 DEF RowOf
<1>6. UNCHANGED <<injRows, subRows, nextInject, emptied, rivals, injRequests>>
  BY DEF StoreFile
<1>7. OnlyMoves(r, Resting) /\ Resting.kind # "submit" /\ Resting.at # "version"
  BY Answers DEF StoreFile, Resting
<1>8. \/ /\ subFiles' = {s \in subFiles : Path(s) # Path(row)} \cup {row}
         /\ accepted' = accepted \cup {row}
      \/ /\ subFiles' = subFiles \/ subFiles' = {s \in subFiles : Path(s) # Path(row)}
         /\ accepted' = accepted
  BY <1>4 DEF StoreFile
<1>9. /\ IsSubmission(row) /\ 1 <= row.upload /\ row.upload <= injRequests
      /\ row.version + Cardinality(Upcoming) <= injRequests
  <2>1. Given(j)
    BY <1>2, <1>3 DEF Administered, WorkGiven, Resting
  <2>2. /\ 1 <= handler[r].upload /\ handler[r].upload <= injRequests /\ handler[r].upload \in Nat
        /\ 1 <= v /\ v + Cardinality(Upcoming) <= injRequests
    BY <1>2, <1>3 DEF FewVersions, SubmitWork
  <2>3. QED
    BY <1>5, <2>1, <2>2 DEF IsSubmission
<1>10. Upcoming' = Upcoming
  BY <1>2, <1>7 DEF Upcoming, OnlyMoves
<1>11. FewVersions'
  <2>1. \A s \in AllSubmissions' : s \in AllSubmissions \/ s = row
    BY <1>6, <1>8 DEF AllSubmissions
  <2>2. QED
    BY <1>1, <1>6, <1>7, <1>9, <1>10, <2>1, FewVersionsMove
<1>12. \A i, t : SubmissionsOf(i, t)' = SubmissionsOf(i, t)
  BY <1>6 DEF SubmissionsOf
<1>13. Topped' /\ Rooted'
  BY <1>6, <1>12 DEF Topped, Rooted
<1>14. /\ \A i, t : Submitting(i, t)' \subseteq Submitting(i, t)
       /\ \A i, t : \A q \in Submitting(i, t)' : q # r =>
            handler'[q] = handler[q] /\ RowOf(q)' = RowOf(q)
       /\ RivalsKnown'
  BY <1>2, <1>6, <1>7, SubmittingMoves
<1>15. \A i, t : r \notin Submitting(i, t)'
  BY <1>7 DEF Submitting, OnlyMoves
<1>16. Versioned'
  <2>1. ASSUME NEW i \in Nat, NEW t \in InjTeam, <<i, t>> \notin rivals'
        PROVE  (Unique(i, t) /\ Newer(i, t) /\ Stored(i, t) /\ Kept(i, t))'
    <3>1. Unique(i, t) /\ Newer(i, t) /\ Stored(i, t) /\ Kept(i, t)
      BY <1>6, <2>1 DEF Versioned
    <3>2. Newer(i, t)'
      BY <1>6, <1>12, <1>14, <1>15, <3>1 DEF Newer
    <3>3. Stored(i, t)'
      <4>1. ASSUME NEW q \in Submitting(i, t)', handler'[q].at = "store"
            PROVE  /\ \/ RowOf(q)' \in subRows'
                      \/ RowOf(q)' \in emptied' /\ SubmissionsOf(i, t)' = {}
                   /\ RowOf(q)' \notin accepted' \ emptied'
        <5>1. q # r /\ q \in Submitting(i, t)
          BY <1>14, <1>15, <4>1
        <5>2. handler'[q] = handler[q] /\ RowOf(q)' = RowOf(q)
          BY <1>14, <4>1, <5>1
        <5>3. /\ RowOf(q) \in subRows \/ (RowOf(q) \in emptied /\ SubmissionsOf(i, t) = {})
              /\ RowOf(q) \notin accepted \ emptied
          BY <3>1, <4>1, <5>1, <5>2 DEF Stored
        <5>4. RowOf(q) # row
          <6>1. RowOf(q).inject = i /\ RowOf(q).team = t
            BY <5>1 DEF Submitting, RowOf
          <6>2. r \notin Submitting(i, t)
            BY <1>6, <2>1, <5>1 DEF RivalsKnown
          <6>3. ~(i = j /\ t = u)
            BY <1>2, <1>3, <6>2 DEF Submitting
          <6>4. QED
            BY <1>5, <6>1, <6>3
        <5>5. RowOf(q) \notin accepted' \ emptied
          BY <1>8, <5>3, <5>4
        <5>6. QED
          BY <1>6, <1>12, <5>2, <5>3, <5>5
      <4>2. QED
        BY <4>1 DEF Stored
    <3>4. Unique(i, t)'
      BY <1>12, <3>1 DEF Unique
    <3>5. Kept(i, t)'
      <4>1. i = j /\ t = u => /\ row \in subRows \/ (row \in emptied /\ SubmissionsOf(i, t) = {})
                              /\ row \notin accepted \ emptied
        BY <1>2, <1>3, <1>4, <3>1 DEF Stored, Submitting
      <4>2. ASSUME NEW s \in accepted, s.inject = i, s.team = t, s \notin emptied
            PROVE  s \in subRows /\ s \in subFiles /\ Path(s) # Path(row)
        <5>1. s \in subRows /\ s \in subFiles /\ s \in SubmissionsOf(i, t)
          BY <3>1, <4>2 DEF Kept, SubmissionsOf
        <5>2. CASE i = j /\ t = u
          <6>1. s # row /\ row \in SubmissionsOf(i, t)
            BY <1>5, <4>1, <4>2, <5>1, <5>2 DEF SubmissionsOf
          <6>2. s.version # row.version
            BY <3>1, <5>1, <6>1 DEF Unique
          <6>3. QED
            BY <5>1, <6>2 DEF Path
        <5>3. CASE ~(i = j /\ t = u)
          BY <1>5, <4>2, <5>1, <5>3 DEF Path
        <5>4. QED
          BY <5>2, <5>3
      <4>3. row.inject = i /\ row.team = t /\ row \notin emptied => row \in subRows
        BY <1>5, <4>1
      <4>4. QED
        BY <1>6, <1>8, <4>2, <4>3 DEF Kept
    <3>6. QED
      BY <3>2, <3>3, <3>4, <3>5
  <2>2. QED
    BY <2>1 DEF Versioned
<1>17. QED
  BY <1>11, <1>13, <1>14, <1>16

\* What a step of an administrator's request does to the handlers.
NoSubmission(r) ==
  \E work : /\ OnlyMoves(r, work) /\ handler[r].kind # "submit"
            /\ work.kind # "submit" /\ work.at # "version"

LEMMA RequestsSubmitNothing ==
  ASSUME HandlerOK, RowsOK, NEW r \in Handler,
         CreateInject(r) \/ BeginUpdate(r) \/ BeginDelete(r)
  PROVE  NoSubmission(r)
<1>1. handler[r].kind # "submit"
  BY DEF CreateInject, BeginUpdate, BeginDelete, Request, Resting
<1>2. CASE CreateInject(r)
  <2>1. PICK some \in SUBSET FileName :
          OnlyMoves(r, [kind |-> "create", at |-> "files", inject |-> nextInject,
                        files |-> some])
    BY <1>2, CreateInjectMoves
  <2> DEFINE work == [kind |-> "create", at |-> "files", inject |-> nextInject, files |-> some]
  <2>2. OnlyMoves(r, work) /\ work.kind = "create" /\ work.at = "files"
    BY <2>1
  <2> HIDE DEF work
  <2>3. QED
    BY <1>1, <2>2 DEF NoSubmission
<1>3. CASE BeginUpdate(r)
  <2>1. PICK i, asked \in Nat, keep, some, names \in SUBSET FileName :
          OnlyMoves(r, [kind |-> "update", at |-> "remove", inject |-> i, asked |-> asked,
                        keep |-> keep, files |-> some, names |-> names])
    BY <1>3, BeginUpdateMoves
  <2> DEFINE work == [kind |-> "update", at |-> "remove", inject |-> i, asked |-> asked,
                      keep |-> keep, files |-> some, names |-> names]
  <2>2. OnlyMoves(r, work) /\ work.kind = "update" /\ work.at = "remove"
    BY <2>1
  <2> HIDE DEF work
  <2>3. QED
    BY <1>1, <2>2 DEF NoSubmission
<1>4. CASE BeginDelete(r)
  <2>1. PICK i \in DOMAIN injRows :
          OnlyMoves(r, [kind |-> "delete", at |-> "submissions", inject |-> i])
    BY <1>4, BeginDeleteMoves
  <2> DEFINE work == [kind |-> "delete", at |-> "submissions", inject |-> i]
  <2>2. OnlyMoves(r, work) /\ work.kind = "delete" /\ work.at = "submissions"
    BY <2>1
  <2> HIDE DEF work
  <2>3. QED
    BY <1>1, <2>2 DEF NoSubmission
<1>5. QED
  BY <1>2, <1>3, <1>4

LEMMA AnswersSubmitNothing ==
  ASSUME HandlerOK, NEW r \in Handler, Answer(r), handler[r].kind # "submit"
  PROVE  NoSubmission(r)
BY Answers DEF NoSubmission, Resting

LEMMA WorkSubmitsNothing ==
  ASSUME HandlerOK, NEW r \in Handler,
         \/ WriteNewFiles(r) \/ RemoveFiles(r) \/ AddFiles(r) \/ SaveInject(r)
         \/ DeleteSubmissions(r) \/ DeleteRow(r) \/ RemoveDirectory(r)
  PROVE  NoSubmission(r)
<1>1. handler[r] \in CreateWork \cup UpdateWork \cup DeleteWork
  BY AtWork DEF WriteNewFiles, RemoveFiles, AddFiles, SaveInject, DeleteSubmissions, DeleteRow,
                RemoveDirectory
<1>2. handler[r].kind # "submit"
  BY <1>1 DEF CreateWork, UpdateWork, DeleteWork
<1>3. CASE Answer(r)
  BY <1>2, <1>3, AnswersSubmitNothing
<1>4. ASSUME NEW where \in {"add", "save"}, NEW some \in SUBSET FileName,
             handler[r] \in UpdateWork,
             handler' = [handler EXCEPT ![r].at = where, ![r].names = some]
      PROVE  NoSubmission(r)
  <2> DEFINE work == UpdateRecord(r, where, some)
  <2>1. work.kind = "update" /\ work.at = where
    BY DEF UpdateRecord
  <2> HIDE DEF work
  <2>2. OnlyMoves(r, work)
    BY <1>4, UpdateMoves DEF work
  <2>3. QED
    BY <1>2, <2>1, <2>2 DEF NoSubmission
<1>5. CASE WriteNewFiles(r)
  BY <1>3, <1>5 DEF WriteNewFiles, WriteFiles, Stop
<1>6. CASE RemoveFiles(r)
  <2>1. handler[r] \in UpdateWork
    BY <1>6, AtWork DEF RemoveFiles
  <2>2. PICK old \in SUBSET FileName :
          \/ Answer(r)
          \/ handler' = [handler EXCEPT ![r].at = "add",
                          ![r].names = RemainingNames(handler[r].names, old)]
    BY <1>6, <2>1 DEF RemoveFiles, Stop, HandlerOK
  <2>3. RemainingNames(handler[r].names, old) \in SUBSET FileName
    BY <2>1 DEF RemainingNames, UpdateWork
  <2>4. QED
    BY <1>3, <1>4, <2>1, <2>2, <2>3
<1>7. CASE AddFiles(r)
  <2>1. handler[r] \in UpdateWork
    BY <1>7, AtWork DEF AddFiles
  <2>2. \/ Answer(r)
        \/ handler' = [handler EXCEPT ![r].at = "save",
                        ![r].names = handler[r].names \cup handler[r].files]
    BY <1>7, <2>1 DEF AddFiles, WriteFiles, Stop, HandlerOK
  <2>3. handler[r].names \cup handler[r].files \in SUBSET FileName
    BY <2>1 DEF UpdateWork
  <2>4. QED
    BY <1>3, <1>4, <2>1, <2>2, <2>3
<1>8. CASE SaveInject(r) \/ RemoveDirectory(r)
  BY <1>3, <1>8 DEF SaveInject, RemoveDirectory
<1>9. CASE DeleteSubmissions(r) \/ DeleteRow(r)
  <2>1. handler[r] \in DeleteWork
    BY <1>9, AtWork DEF DeleteSubmissions, DeleteRow
  <2>2. ASSUME NEW where \in {"inject", "directory"}, Proceed(r, where)
        PROVE  NoSubmission(r)
    <3> DEFINE work == [kind |-> "delete", at |-> where, inject |-> handler[r].inject]
    <3>1. OnlyMoves(r, work) /\ work.kind = "delete" /\ work.at = where
      BY <2>1, <2>2, DeleteMoves
    <3> HIDE DEF work
    <3>2. QED
      BY <1>2, <3>1 DEF NoSubmission
  <2>3. QED
    BY <1>3, <1>9, <2>2 DEF DeleteSubmissions, DeleteRow
<1>10. QED
  BY <1>5, <1>6, <1>7, <1>8, <1>9

\* Creating, updating and deleting injects leaves submissions and rivals alone.
LEMMA AdministratorsStep ==
  ASSUME HandlerOK, Administered, Submitted, NEW r \in Handler, NoSubmission(r),
         \/ CreateInject(r) \/ WriteNewFiles(r) \/ BeginUpdate(r) \/ RemoveFiles(r)
         \/ AddFiles(r) \/ SaveInject(r) \/ BeginDelete(r) \/ DeleteRow(r) \/ RemoveDirectory(r)
  PROVE  Submitted'
<1>1. UNCHANGED <<subRows, subFiles, accepted, emptied, rivals>>
  BY DEF CreateInject, WriteNewFiles, BeginUpdate, RemoveFiles, AddFiles, SaveInject,
         BeginDelete, DeleteRow, RemoveDirectory, diskVars
<1>2. /\ nextInject \in Nat /\ injRequests \in Nat /\ injRequests <= MaxInjRequests
      /\ MaxInjRequests \in Nat
  BY InjectBoundsAssumption DEF Administered, RowsOK, Submitted, FewVersions
<1>3. nextInject' = nextInject \/ nextInject' = nextInject + 1
  BY DEF CreateInject, WriteNewFiles, BeginUpdate, RemoveFiles, AddFiles, SaveInject,
         BeginDelete, DeleteRow, RemoveDirectory
<1>4. injRequests' = injRequests \/ (injRequests < MaxInjRequests /\ injRequests' = injRequests + 1)
  BY DEF CreateInject, WriteNewFiles, BeginUpdate, RemoveFiles, AddFiles, SaveInject,
         BeginDelete, DeleteRow, RemoveDirectory, Request
<1>5. Rooted'
  <2>1. \A s \in subRows : s.inject \in DOMAIN injRows
    BY DEF Submitted, Rooted
  <2>2. CASE UNCHANGED injRows
    BY <1>1, <2>1, <2>2 DEF Rooted
  <2>3. CASE CreateInject(r)
    <3>1. DOMAIN injRows \subseteq DOMAIN injRows'
      BY <2>3 DEF CreateInject
    <3>2. QED
      BY <1>1, <2>1, <3>1 DEF Rooted
  <2>4. CASE SaveInject(r)
    <3>1. DOMAIN injRows \subseteq DOMAIN injRows'
      BY <2>4 DEF SaveInject
    <3>2. QED
      BY <1>1, <2>1, <3>1 DEF Rooted
  <2>5. CASE DeleteRow(r)
    <3>1. \/ UNCHANGED injRows
          \/ /\ \A s \in subRows : s.inject # handler[r].inject
             /\ injRows' = [j \in DOMAIN injRows \ {handler[r].inject} |-> injRows[j]]
      BY <2>5 DEF DeleteRow
    <3>2. QED
      BY <1>1, <2>1, <2>2, <3>1 DEF Rooted
  <2>6. QED
    BY <2>2, <2>3, <2>4, <2>5 DEF WriteNewFiles, BeginUpdate, RemoveFiles, AddFiles,
       BeginDelete, RemoveDirectory
<1>6. PICK work : /\ OnlyMoves(r, work) /\ handler[r].kind # "submit"
                  /\ work.kind # "submit" /\ work.at # "version"
  BY DEF NoSubmission
<1>7. /\ nextInject' \in Nat /\ nextInject <= nextInject' /\ injRequests' \in Nat
      /\ injRequests <= injRequests' /\ injRequests' <= MaxInjRequests
  BY <1>2, <1>3, <1>4
<1>8. QED
  BY <1>1, <1>2, <1>5, <1>6, <1>7, SubmissionsFrame

\* What is deleted with an inject is noted as such.
LEMMA EmptyingStep ==
  ASSUME HandlerOK, Administered, Submitted, NEW r \in Handler, DeleteSubmissions(r)
  PROVE  Submitted'
<1> USE DEF Submitted
<1>1. /\ Cardinality(Upcoming) \in Nat /\ injRequests \in Nat /\ injRequests <= MaxInjRequests
      /\ IsFiniteSet(Upcoming)
  BY UpcomingIsFew DEF FewVersions
<1>2. PICK work : /\ OnlyMoves(r, work) /\ handler[r].kind # "submit"
                  /\ work.kind # "submit" /\ work.at # "version"
  BY WorkSubmitsNothing DEF NoSubmission
<1>3. PICK j : j = handler[r].inject
  OBVIOUS
<1>4. /\ subRows' = {s \in subRows : s.inject # j}
      /\ emptied' = emptied \cup {s \in subRows : s.inject = j}
      /\ UNCHANGED <<injRows, nextInject, subFiles, accepted, rivals, injRequests>>
      /\ handler[r].at # "version"
  BY <1>3 DEF DeleteSubmissions, diskVars
<1>5. Upcoming' = Upcoming
  BY <1>2, <1>4 DEF Upcoming, OnlyMoves
<1>6. /\ \A i, t : Submitting(i, t)' = Submitting(i, t)
      /\ \A i, t : \A q \in Submitting(i, t) : handler'[q] = handler[q] /\ RowOf(q)' = RowOf(q)
  BY <1>2 DEF Submitting, OnlyMoves, RowOf
<1>7. \A i, t : SubmissionsOf(i, t)' = IF i = j THEN {} ELSE SubmissionsOf(i, t)
  BY <1>4 DEF SubmissionsOf
<1>8. FewVersions'
  <2>1. AllSubmissions' \subseteq AllSubmissions
    BY <1>4 DEF AllSubmissions
  <2>2. QED
    BY <1>1, <1>2, <1>4, <1>5, <2>1, FewVersionsMove
<1>9. Topped' /\ Rooted'
  BY <1>4, <1>7 DEF Topped, Rooted
<1>10. RivalsKnown'
  BY <1>4, <1>6 DEF RivalsKnown, Given
<1>11. Versioned'
  <2>1. ASSUME NEW i \in Nat, NEW t \in InjTeam, <<i, t>> \notin rivals'
        PROVE  (Unique(i, t) /\ Newer(i, t) /\ Stored(i, t) /\ Kept(i, t))'
    <3>1. Unique(i, t) /\ Newer(i, t) /\ Stored(i, t) /\ Kept(i, t)
      BY <1>4, <2>1 DEF Versioned
    <3>2. Unique(i, t)' /\ Newer(i, t)'
      BY <1>6, <1>7, <3>1 DEF Unique, Newer
    <3>3. Stored(i, t)'
      <4>1. ASSUME NEW q \in Submitting(i, t), handler[q].at = "store"
            PROVE  /\ RowOf(q) \in subRows' \/ (RowOf(q) \in emptied' /\ SubmissionsOf(i, t)' = {})
                   /\ RowOf(q) \notin accepted' \ emptied'
        <5>1. RowOf(q).inject = i
          BY <4>1 DEF Submitting, RowOf
        <5>2. /\ RowOf(q) \in subRows \/ (RowOf(q) \in emptied /\ SubmissionsOf(i, t) = {})
              /\ RowOf(q) \notin accepted \ emptied
          BY <3>1, <4>1 DEF Stored
        <5>3. QED
          BY <1>4, <1>7, <5>1, <5>2
      <4>2. QED
        BY <1>6, <4>1 DEF Stored
    <3>4. Kept(i, t)'
      BY <1>4, <3>1 DEF Kept
    <3>5. QED
      BY <3>2, <3>3, <3>4
  <2>2. QED
    BY <2>1 DEF Versioned
<1>12. QED
  BY <1>8, <1>9, <1>10, <1>11

\* A crash ends every submission under way.
LEMMA CrashSubmitted ==
  ASSUME HandlerOK, Submitted, InjCrash
  PROVE  Submitted'
<1> USE DEF Submitted
<1>1. Cardinality(Upcoming) \in Nat /\ injRequests \in Nat /\ injRequests <= MaxInjRequests
  BY UpcomingIsFew DEF FewVersions
<1>2. /\ \A q \in Handler : handler'[q] = Resting
      /\ UNCHANGED <<injRows, subRows, nextInject, subFiles, accepted, emptied, rivals,
                     injRequests>>
  BY DEF InjCrash, diskVars
<1>3. Upcoming' = {} /\ \A i, t : Submitting(i, t)' = {}
  BY <1>2 DEF Upcoming, Submitting, Resting
<1>4. IsFiniteSet(Upcoming)' /\ Cardinality(Upcoming)' = 0
  BY <1>3, FS_EmptySet
<1>5. \A i, t : SubmissionsOf(i, t)' = SubmissionsOf(i, t)
  BY <1>2 DEF SubmissionsOf
<1>6. FewVersions'
  <2>1. ASSUME NEW s \in subRows \cup subFiles \cup accepted \cup emptied
        PROVE  /\ IsSubmission(s)' /\ 1 <= s.upload /\ s.upload <= injRequests
               /\ s.version + 0 <= injRequests
    <3>1. /\ IsSubmission(s) /\ 1 <= s.upload /\ s.upload <= injRequests
          /\ s.version + Cardinality(Upcoming) <= injRequests
      BY DEF FewVersions
    <3>2. s.version \in Nat /\ IsSubmission(s)'
      BY <1>2, <3>1 DEF IsSubmission, Given
    <3>3. QED
      BY <1>1, <3>1, <3>2
  <2>2. QED
    BY <1>1, <1>2, <1>4, <2>1 DEF FewVersions, Resting
<1>7. Topped' /\ Rooted' /\ RivalsKnown'
  BY <1>2, <1>3, <1>5 DEF Topped, Rooted, RivalsKnown, Given
<1>8. Versioned'
  BY <1>2, <1>3, <1>5 DEF Versioned, Unique, Newer, Stored, Kept
<1>9. QED
  BY <1>6, <1>7, <1>8

\* A step of a submission leaves what administrators' requests keep.
LEMMA SubmissionsAdministered ==
  ASSUME HandlerOK, Administered, Submitted, NEW r \in Handler,
         BeginSubmission(r) \/ ReadVersion(r) \/ InsertSubmission(r) \/ StoreFile(r)
  PROVE  HandlerOK' /\ Administered'
<1>1. UNCHANGED <<injRows, nextInject, injDirs, injFiles, muddled, deleted>>
  BY DEF BeginSubmission, ReadVersion, InsertSubmission, StoreFile, diskVars, injHistory
<1>2. ASSUME NEW work, OnlyMoves(r, work), handler[r] = Resting \/ handler[r] \in SubmitWork,
             work = Resting \/ (work.kind = "submit" /\ Given(work.inject))
      PROVE  Administered'
  <2>1. handler[r].kind \notin AdminKinds /\ work.kind \notin AdminKinds
    BY <1>2 DEF AdminKinds, Resting, SubmitWork
  <2>2. QED
    BY <1>1, <1>2, <2>1, SubmissionsApart
<1>3. handler[r] \in SubmitWork => Given(handler[r].inject)
  BY DEF Administered, WorkGiven, SubmitWork, Resting
<1>4. CASE BeginSubmission(r)
  <2>1. PICK i \in DOMAIN injRows, t \in InjTeam :
          OnlyMoves(r, [kind |-> "submit", at |-> "version", inject |-> i, team |-> t,
                        version |-> 0, upload |-> injRequests + 1])
    BY <1>4, BeginSubmissionMoves DEF Administered, Submitted, FewVersions
  <2> DEFINE work == [kind |-> "submit", at |-> "version", inject |-> i, team |-> t,
                      version |-> 0, upload |-> injRequests + 1]
  <2>2. OnlyMoves(r, work) /\ work.kind = "submit" /\ work.inject = i
    BY <2>1
  <2> HIDE DEF work
  <2>3. Given(i) /\ handler[r] = Resting
    BY <1>4 DEF Administered, RowsOK, BeginSubmission, Request
  <2>4. Administered'
    BY <1>2, <2>2, <2>3
  <2>5. HandlerOK'
    BY <1>4, BeginSubmissionMoves DEF Administered, Submitted, FewVersions
  <2>6. QED
    BY <2>4, <2>5
<1>5. CASE ReadVersion(r)
  <2>1. handler[r] \in SubmitWork
    BY <1>5, AtWork DEF ReadVersion
  <2>2. PICK i \in Nat, t \in InjTeam : i = handler[r].inject /\ t = handler[r].team
    BY <2>1 DEF SubmitWork
  <2>3. HandlerOK' /\ OnlyMoves(r, SubmitRecord(r, "insert", NextVersion(i, t)))
    BY <1>5, <2>2, ReadVersionMoves DEF Submitted
  <2> DEFINE work == SubmitRecord(r, "insert", NextVersion(i, t))
  <2>4. work.kind = "submit" /\ work.inject = handler[r].inject
    BY DEF SubmitRecord
  <2> HIDE DEF work
  <2>5. QED
    BY <1>2, <1>3, <2>1, <2>3, <2>4 DEF work
<1>6. CASE InsertSubmission(r)
  <2>1. /\ HandlerOK' /\ handler[r] \in SubmitWork
        /\ \/ OnlyMoves(r, SubmitRecord(r, "store", handler[r].version))
           \/ OnlyMoves(r, Resting)
    BY <1>6, InsertMoves
  <2> DEFINE work == SubmitRecord(r, "store", handler[r].version)
  <2>2. work.kind = "submit" /\ work.inject = handler[r].inject
    BY DEF SubmitRecord
  <2> HIDE DEF work
  <2>3. QED
    BY <1>2, <1>3, <2>1, <2>2 DEF work
<1>7. CASE StoreFile(r)
  <2>1. handler[r] \in SubmitWork
    BY <1>7, AtWork DEF StoreFile
  <2>2. HandlerOK' /\ OnlyMoves(r, Resting)
    BY <1>7, Answers DEF StoreFile
  <2>3. QED
    BY <1>2, <2>1, <2>2
<1>8. QED
  BY <1>4, <1>5, <1>6, <1>7

-----------------------------------------------------------------------------
(* The invariant is inductive *)

LEMMA InjInvInit == InjInit => InjInv
<1> SUFFICES ASSUME InjInit PROVE InjInv
  OBVIOUS
<1>1. /\ DOMAIN injRows = {} /\ subRows = {} /\ nextInject = 1 /\ injDirs = {} /\ injFiles = {}
      /\ subFiles = {} /\ accepted = {} /\ rivals = {} /\ deleted = {} /\ emptied = {}
      /\ handler = [r \in Handler |-> Resting] /\ injRequests = 0
      /\ MaxInjects \in Nat /\ MaxInjRequests \in Nat
  BY InjectBoundsAssumption DEF InjInit
<1>2. HandlerOK /\ WorkGiven /\ UpdatesLive /\ DeletedStaysDeleted
  BY <1>1 DEF HandlerOK, WorkGiven, UpdatesLive, DeletedStaysDeleted, Resting
<1>3. RowsOK
  <2>1. injRows \in [DOMAIN injRows -> SUBSET FileName]
    BY DEF InjInit
  <2>2. QED
    BY <1>1, <2>1 DEF RowsOK
<1>4. Apart /\ AllTracked
  BY <1>1 DEF Apart, AllTracked, WorkOn, Resting, Given
<1>5. Upcoming = {} /\ \A i, t : Submitting(i, t) = {} /\ SubmissionsOf(i, t) = {}
  BY <1>1 DEF Upcoming, Submitting, SubmissionsOf, Resting
<1>6. FewVersions
  <2>1. IsFiniteSet(Upcoming) /\ Cardinality(Upcoming) = 0
    BY <1>5, FS_EmptySet
  <2>2. QED
    BY <1>1, <2>1 DEF FewVersions, Resting
<1>7. Topped /\ Rooted /\ RivalsKnown /\ Versioned
  BY <1>1, <1>5 DEF Topped, Rooted, RivalsKnown, Versioned, Unique, Newer, Stored, Kept
<1>8. QED
  BY <1>2, <1>3, <1>4, <1>6, <1>7 DEF InjInv, Administered, Submitted

LEMMA StutterInv ==
  ASSUME InjInv, UNCHANGED injVars
  PROVE  InjInv'
<1>1. UNCHANGED <<injRows, subRows, nextInject, injDirs, injFiles, subFiles, handler, accepted,
                  rivals, muddled, deleted, emptied, injRequests>>
  BY DEF injVars, diskVars, injHistory
<1>2. HandlerOK' /\ Administered'
  BY <1>1 DEF InjInv, HandlerOK, Administered, RowsOK, WorkGiven, Apart, AllTracked, Tracked,
     UpdatesLive, DeletedStaysDeleted, Match, CountsOn, Disk, Given, WorkOn
<1>3. FewVersions' /\ Topped' /\ Rooted'
  BY <1>1 DEF InjInv, Submitted, FewVersions, Topped, Rooted, IsSubmission, Upcoming, Given,
     SubmissionsOf
<1>4. RivalsKnown' /\ Versioned'
  BY <1>1 DEF InjInv, Submitted, RivalsKnown, Versioned, Unique, Newer, Stored, Kept, Given,
     SubmissionsOf, Submitting, RowOf
<1>5. QED
  BY <1>2, <1>3, <1>4 DEF InjInv, Submitted

LEMMA InjInvStep == InjInv /\ [InjNext]_injVars => InjInv'
<1> SUFFICES ASSUME InjInv, [InjNext]_injVars PROVE InjInv'
  OBVIOUS
<1>1. HandlerOK /\ Administered /\ Submitted /\ RowsOK
  BY DEF InjInv, Administered
<1>2. CASE UNCHANGED injVars
  BY <1>2, StutterInv
<1>3. CASE InjCrash
  BY <1>1, <1>3, CrashStep, CrashSubmitted DEF InjInv
<1>4. ASSUME NEW r \in Handler,
             BeginSubmission(r) \/ ReadVersion(r) \/ InsertSubmission(r) \/ StoreFile(r)
      PROVE  InjInv'
  <2>1. HandlerOK' /\ Administered'
    BY <1>1, <1>4, SubmissionsAdministered
  <2>2. Submitted'
    BY <1>1, <1>4, BeginSubmissionStep, ReadVersionStep, InsertStep, StoreStep
  <2>3. QED
    BY <2>1, <2>2 DEF InjInv
<1>5. ASSUME NEW r \in Handler, CreateInject(r) \/ BeginUpdate(r) \/ BeginDelete(r)
      PROVE  InjInv'
  <2>1. HandlerOK' /\ Administered'
    BY <1>1, <1>5, CreateInjectMoves, CreateInjectStep, BeginUpdateStep, BeginDeleteStep
  <2>2. Submitted'
    BY <1>1, <1>5, RequestsSubmitNothing, AdministratorsStep
  <2>3. QED
    BY <2>1, <2>2 DEF InjInv
<1>6. ASSUME NEW r \in Handler,
             WriteNewFiles(r) \/ RemoveFiles(r) \/ AddFiles(r) \/ SaveInject(r)
      PROVE  InjInv'
  <2>1. HandlerOK' /\ Administered'
    BY <1>1, <1>6, WriteNewFilesStep, RemoveFilesStep, AddFilesStep, SaveInjectStep
  <2>2. Submitted'
    BY <1>1, <1>6, WorkSubmitsNothing, AdministratorsStep
  <2>3. QED
    BY <2>1, <2>2 DEF InjInv
<1>7. ASSUME NEW r \in Handler, DeleteRow(r) \/ RemoveDirectory(r)
      PROVE  InjInv'
  <2>1. HandlerOK' /\ Administered'
    BY <1>1, <1>7, DeleteRowStep, RemoveDirectoryStep
  <2>2. Submitted'
    BY <1>1, <1>7, WorkSubmitsNothing, AdministratorsStep
  <2>3. QED
    BY <2>1, <2>2 DEF InjInv
<1>8. ASSUME NEW r \in Handler, DeleteSubmissions(r)
      PROVE  InjInv'
  BY <1>1, <1>8, DeleteSubmissionsStep, EmptyingStep DEF InjInv
<1>9. QED
  BY <1>2, <1>3, <1>4, <1>5, <1>6, <1>7, <1>8 DEF InjNext

THEOREM InjInvHolds == InjSpec => []InjInv
<1>1. InjInit => InjInv
  BY InjInvInit
<1>2. InjInv /\ [InjNext]_injVars => InjInv'
  BY InjInvStep
<1>3. QED
  BY <1>1, <1>2, PTL DEF InjSpec

-----------------------------------------------------------------------------
(* What follows from it *)

LEMMA GivenIsId ==
  ASSUME RowsOK, NEW i \in Nat, Given(i)
  PROVE  i \in InjectId
BY InjectBoundsAssumption DEF RowsOK, Given, InjectId

LEMMA SubmissionTyped ==
  ASSUME RowsOK, FewVersions, NEW s \in subRows \cup subFiles \cup accepted \cup emptied
  PROVE  s \in Submission
<1>1. /\ IsSubmission(s) /\ 1 <= s.upload /\ s.upload <= injRequests
      /\ s.version + Cardinality(Upcoming) <= injRequests
      /\ injRequests \in Nat /\ injRequests <= MaxInjRequests
      /\ Cardinality(Upcoming) \in Nat /\ MaxInjRequests \in Nat
  BY UpcomingIsFew, InjectBoundsAssumption DEF FewVersions
<1>2. s.version \in Upload /\ s.upload \in Upload
  BY <1>1 DEF IsSubmission, Upload
<1>3. s.inject \in InjectId /\ s.team \in InjTeam
  BY <1>1, GivenIsId DEF IsSubmission
<1>4. s = [inject |-> s.inject, team |-> s.team, version |-> s.version, upload |-> s.upload]
  BY <1>1 DEF IsSubmission
<1>5. QED
  BY <1>2, <1>3, <1>4 DEF Submission

\* The web server's injects and submissions are well-formed: rows, files and
\* what was answered are of injects the sequence has numbered, a submission's row
\* is of an inject there is (db/injects.go, db/submissions.go).
THEOREM InjTypeCorrect == InjSpec => []InjTypeOK
<1>1. InjInv => InjTypeOK
  <2> SUFFICES ASSUME InjInv PROVE InjTypeOK
    OBVIOUS
  <2>1. RowsOK /\ FewVersions /\ Rooted /\ RivalsKnown
    BY DEF InjInv, Administered, Submitted
  <2>2. \A i \in DOMAIN injRows \cup injDirs \cup deleted : i \in InjectId
    BY <2>1, GivenIsId DEF RowsOK
  <2>3. subRows \cup subFiles \cup accepted \cup emptied \subseteq Submission
    BY <2>1, SubmissionTyped
  <2>4. rivals \subseteq InjectId \X InjTeam
    BY <2>1, GivenIsId DEF RivalsKnown
  <2>5. \A i \in DOMAIN injRows : injRows[i] \subseteq FileName
    BY <2>1 DEF RowsOK
  <2>6. QED
    BY <2>1, <2>2, <2>3, <2>4, <2>5 DEF InjTypeOK, RowsOK, Rooted
<1>2. QED
  BY <1>1, InjInvHolds, PTL

\* Every submission a team was told is in has its row, a version no other row
\* has, and its own file under that version, unless it was deleted with the
\* inject or a teammate submitted at the same time: for any number of handlers,
\* requests, failures and crashes (submissions.go:34-56, www/api/submissions.go:
\* 57-100).
THEOREM SubmissionsAreKept == InjSpec => []EverySubmissionKept
<1>1. InjInv => EverySubmissionKept
  <2> SUFFICES ASSUME InjInv, NEW s \in accepted, s \notin emptied,
                      <<s.inject, s.team>> \notin rivals
               PROVE  /\ s \in subRows \cap subFiles
                      /\ \A other \in subRows : Path(other) = Path(s) => other = s
    BY DEF EverySubmissionKept
  <2>1. FewVersions /\ Versioned
    BY DEF InjInv, Submitted
  <2>2. s.inject \in Nat /\ s.team \in InjTeam
    BY <2>1 DEF FewVersions, IsSubmission
  <2>3. Unique(s.inject, s.team) /\ Kept(s.inject, s.team)
    BY <2>1, <2>2 DEF Versioned
  <2>4. s \in subRows \cap subFiles
    BY <2>3 DEF Kept
  <2>5. ASSUME NEW other \in subRows, Path(other) = Path(s)
        PROVE  other = s
    <3>1. other.inject = s.inject /\ other.team = s.team /\ other.version = s.version
      BY <2>5 DEF Path
    <3>2. QED
      BY <2>3, <2>4, <3>1 DEF Unique, SubmissionsOf
  <2>6. QED
    BY <2>4, <2>5
<1>2. QED
  BY <1>1, InjInvHolds, PTL

\* The directory of an inject no request works on holds the files its row names
\* and no other, and is gone if the inject is: unless two administrators'
\* requests were under way on it at once, or one stopped half-way (www/api/
\* injects.go:175-210, 290-345, 379-385).
THEOREM DirectoriesMatch == InjSpec => []DirectoryMatchesRow
<1>1. InjInv => DirectoryMatchesRow
  <2> SUFFICES ASSUME InjInv, NEW i \in InjectId, WorkOn(i) = {}, i \notin muddled
               PROVE  IF i \in DOMAIN injRows
                        THEN {n \in FileName : <<i, n>> \in injFiles} = injRows[i]
                        ELSE i \notin injDirs
    BY DEF DirectoryMatchesRow
  <2>1. RowsOK /\ AllTracked
    BY DEF InjInv, Administered
  <2>2. i \in Nat
    BY InjectBoundsAssumption DEF InjectId
  <2>3. CASE Given(i)
    BY <2>1, <2>2, <2>3 DEF AllTracked, Tracked, Match, Disk
  <2>4. CASE ~Given(i)
    BY <2>1, <2>4 DEF RowsOK
  <2>5. QED
    BY <2>3, <2>4
<1>2. QED
  BY <1>1, InjInvHolds, PTL

\* A deleted inject comes back only when an update of it was under way together
\* with the deletion: the numbers of injects are never given twice
\* (db/injects.go:54-74, www/api/injects.go:234-240, 345).
THEOREM DeletedInjectsStay == InjSpec => []DeletedStaysDeleted
<1>1. InjInv => DeletedStaysDeleted
  BY DEF InjInv, Administered
<1>2. QED
  BY <1>1, InjInvHolds, PTL

=============================================================================
