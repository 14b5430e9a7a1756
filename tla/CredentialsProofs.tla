------------------------- MODULE CredentialsProofs -------------------------
(***************************************************************************)
(* Proofs about Credentials, for any teams, lists, passwords and requests, *)
(* and any number of seedings, failures and crashes.                       *)
(*                                                                         *)
(* While no mutex in use was replaced, a request that is at work holds the *)
(* one mutex its team has (Owned), so what it has read of its team's rows  *)
(* stays true (Unwritten): that is what makes the line it writes to the    *)
(* history link up with the last one (Recorded).  Seeding heals because of *)
(* a list the originals have nothing or all but what it gained since       *)
(* (Whole), a team has all of the originals or nothing (Filled), and what  *)
(* the seeding has still to visit covers what it wants (Visited).          *)
(***************************************************************************)
EXTENDS Credentials, SequenceTheorems, TLAPS

OldPasswords == UNION {[names -> Password \cup {NoPassword}] : names \in SUBSET Username}

PcrWork == [at : {"lock", "next", "save", "log", "unlock"}, kind : {"update", "reset"},
            team : CredTeam, names : SUBSET Username, name : Username \cup {""},
            old : OldPasswords, mutex : CredTeam \X (1 .. MaxSeedings), new : Password]

Unused(r) == pcr[r].at = "idle"

\* Holding, or about to give back, a mutex.
Working(r) == pcr[r].at \notin {"idle", "lock"}

\* At a statement of a change, and at the second one.
Writing(r) == pcr[r].at \in {"save", "log"}
Second(r) == Writing(r) /\ ~First(r)

\* A request only writes rows that are there.
RequestOK(r) == ~Unused(r) =>
  /\ credMutex[pcr[r].team] # 0 /\ pcr[r].names \subseteq DOMAIN pcr[r].old
  /\ Working(r) /\ pcr[r].kind = "reset" => \A n \in pcr[r].names :
       creds[pcr[r].team, n] # NoPassword /\ pcr[r].old[n] # NoPassword
  /\ Writing(r) =>
       /\ pcr[r].name \in DOMAIN pcr[r].old \ pcr[r].names
       /\ creds[pcr[r].team, pcr[r].name] # NoPassword
       /\ pcr[r].old[pcr[r].name] # NoPassword

RequestsOK ==
  /\ pcr \in [PcrRequest -> {NoPcr} \cup PcrWork]
  /\ \A r \in PcrRequest : RequestOK(r)

SeedingOK ==
  /\ seeding \in {"mutexes", "check", "originals", "teams", "newTeams", "newLists", "spread", "done"}
  /\ seedings \in 1 .. MaxSeedings

\* No list has a username of another; the table has nothing else.
Listed ==
  /\ Disjoint(configured) /\ originals \subseteq UNION configured
  /\ wanted \subseteq UNION configured /\ wanted \cap grown = {}

-----------------------------------------------------------------------------
(* The mutexes *)

\* One request at a time works on a team, with the team's mutex.
Owned ==
  ~swapped =>
    /\ ~credFatal
    /\ \A r \in PcrRequest : ~Unused(r) => pcr[r].mutex = <<pcr[r].team, credMutex[pcr[r].team]>>
    /\ \A r \in PcrRequest : Working(r) => pcr[r].mutex \in credHeld
    /\ \A q, r \in PcrRequest : Working(q) /\ Working(r) /\ pcr[q].team = pcr[r].team => q = r

-----------------------------------------------------------------------------
(* The history *)

\* The way from the original to a password.
Leads(h, password) ==
  IF h = <<>>
    THEN password \in {NoPassword, Original}
    ELSE /\ h[1].old = Original /\ h[Len(h)].new = password
         /\ \A i \in 1 .. Len(h) - 1 : h[i].new = h[i + 1].old

\* The rows a request has read, and still wants to write, are as it read them.
UnwrittenFor(r) ==
  /\ Writing(r) /\ First(r) => pcr[r].old[pcr[r].name] = creds[pcr[r].team, pcr[r].name]
  /\ Working(r) /\ pcr[r].kind = "reset" =>
       \A n \in pcr[r].names : pcr[r].old[n] = creds[pcr[r].team, n]
  /\ Second(r) /\ pcr[r].kind = "update" => creds[pcr[r].team, pcr[r].name] = pcr[r].new

Unwritten == ~swapped => \A r \in PcrRequest : UnwrittenFor(r)

\* Request r is between the two statements of a change of (t, n).
Halfway(r, t, n) == Second(r) /\ pcr[r].team = t /\ pcr[r].name = n

\* Where the history has come, in the middle of a change or not.
RecordedFor(t, n) ==
  /\ ~Changing(t, n) => Leads(pcrs[t, n], creds[t, n])
  /\ \A r \in PcrRequest : Halfway(r, t, n) =>
       Leads(pcrs[t, n], IF pcr[r].kind = "update" THEN pcr[r].old[n] ELSE pcr[r].new)

Recorded ==
  ~swapped => \A t \in CredTeam, n \in Username : <<t, n>> \in torn \/ RecordedFor(t, n)

-----------------------------------------------------------------------------
(* The seeding *)

\* Rows are copies of originals, for the teams there are.
Copied == \A t \in CredTeam, n \in Username :
            creds[t, n] # NoPassword => n \in originals /\ t \in teams

Full(t) == \A n \in originals : creds[t, n] # NoPassword

Whole == ~halfSeeded =>
  \A list \in configured : list \cap originals = {} \/ list \ grown \subseteq originals

Filled == ~halfSeeded =>
  /\ seeding # "spread" => \A t \in teams : HasNothing(t) \/ Full(t)
  /\ seeding = "originals" => \A t \in teams : HasNothing(t)
  /\ seeding \in {"teams", "newTeams", "spread"} => \A t \in teams \ toFill : Full(t)
  /\ seeding = "newLists" => \A t \in teams : Full(t)

Visited == ~halfSeeded =>
  /\ seeding \in {"originals", "newLists", "spread"} => wanted \subseteq originals \cup UNION toSeed
  /\ seeding = "teams" => wanted \subseteq originals

CredInv ==
  /\ CredTypeOK /\ RequestsOK /\ SeedingOK /\ Listed
  /\ Owned /\ Unwritten /\ Recorded
  /\ Copied /\ Whole /\ Filled /\ Visited

-----------------------------------------------------------------------------
(* Lemmas *)

LEMMA Constants ==
  /\ MaxSeedings \in Nat /\ 1 <= MaxSeedings /\ NoPassword \notin Password /\ Original \in Password
  /\ \A list \in Credlist : list \subseteq Username
BY CredBoundsAssumption, NewPasswordAssumption DEF NoPassword, Password, Original, Username

LEMMA WorkTyped ==
  ASSUME RequestsOK, NEW r \in PcrRequest
  PROVE  /\ Unused(r) => pcr[r] = NoPcr
         /\ ~Unused(r) => pcr[r] \in PcrWork
         /\ Writing(r) => Working(r) /\ pcr[r].name \in Username
         /\ Working(r) => ~Unused(r)
         /\ pcr[r] = NoPcr <=> Unused(r)
<1>1. pcr[r] \in {NoPcr} \cup PcrWork /\ RequestOK(r)
  BY DEF RequestsOK
<1>2. Writing(r) => Working(r) /\ ~Unused(r)
  BY DEF Writing, Working, Unused
<1>3. Working(r) => ~Unused(r)
  BY DEF Working, Unused
<1>4. (Unused(r) <=> pcr[r] = NoPcr) /\ (~Unused(r) => pcr[r] \in PcrWork)
  <2>1. NoPcr.at = "idle"
    BY DEF NoPcr
  <2>2. pcr[r] \in PcrWork => pcr[r].at # "idle"
    BY DEF PcrWork
  <2>3. QED
    BY <1>1, <2>1, <2>2 DEF Unused
<1>5. pcr[r] \in PcrWork => DOMAIN pcr[r].old \subseteq Username
  BY DEF PcrWork, OldPasswords
<1>6. QED
  BY <1>1, <1>2, <1>3, <1>4, <1>5 DEF RequestOK

\* A step of one request.
OnlyPcrMoves(r, work) ==
  /\ pcr' = [q \in PcrRequest |-> pcr'[q]] /\ pcr'[r] = work
  /\ \A q \in PcrRequest : q # r => pcr'[q] = pcr[q]

LEMMA OthersStay ==
  ASSUME NEW q \in PcrRequest, pcr'[q] = pcr[q]
  PROVE  /\ Unused(q)' <=> Unused(q)
         /\ Working(q)' <=> Working(q)
         /\ Writing(q)' <=> Writing(q)
         /\ First(q)' <=> First(q)
         /\ Second(q)' <=> Second(q)
         /\ \A t, n : Halfway(q, t, n)' <=> Halfway(q, t, n)
BY DEF Unused, Working, Writing, First, Second, Halfway

LEMMA ChangingIsHalfway ==
  ASSUME NEW t, NEW n
  PROVE  Changing(t, n) <=> \E r \in PcrRequest : Halfway(r, t, n)
BY DEF Changing, Halfway, Second, Writing

\* A request that moves only writes its own row.
Writes(r) ==
  /\ creds' \in [CredTeam \X Username -> Password \cup {NoPassword}]
  /\ \A t \in CredTeam, n \in Username :
       \/ creds'[t, n] = creds[t, n]
       \/ /\ Writing(r) /\ t = pcr[r].team /\ n = pcr[r].name
          /\ creds'[t, n] # NoPassword

LEMMA RequestsMove ==
  ASSUME RequestsOK, NEW r \in PcrRequest, NEW work \in {NoPcr} \cup PcrWork,
         OnlyPcrMoves(r, work), credMutex' = credMutex, Writes(r), RequestOK(r)'
  PROVE  RequestsOK'
<1>1. pcr' \in [PcrRequest -> {NoPcr} \cup PcrWork]
  BY DEF OnlyPcrMoves, RequestsOK
<1>2. ASSUME NEW q \in PcrRequest, q # r PROVE RequestOK(q)'
  <2>1. pcr'[q] = pcr[q]
    BY <1>2 DEF OnlyPcrMoves
  <2>2. CASE Unused(q)
    BY <2>1, <2>2, OthersStay DEF RequestOK
  <2>3. CASE ~Unused(q)
    <3>1. pcr[q] \in PcrWork /\ RequestOK(q)
      BY <2>3, WorkTyped DEF RequestsOK
    <3>2. pcr[q].team \in CredTeam /\ pcr[q].names \subseteq Username
      BY <3>1 DEF PcrWork
    <3>3. \A n \in Username : creds[pcr[q].team, n] # NoPassword =>
            creds'[pcr[q].team, n] # NoPassword
      BY <3>2 DEF Writes
    <3>4. Writing(q) => pcr[q].name \in Username
      BY WorkTyped
    <3>5. QED
      BY <2>1, <3>1, <3>2, <3>3, <3>4, OthersStay DEF RequestOK
  <2>4. QED
    BY <2>2, <2>3
<1>3. QED
  BY <1>1, <1>2 DEF RequestsOK

\* What the others have read stays true.
LEMMA UnwrittenMoves ==
  ASSUME RequestsOK, Owned, Unwritten, NEW r \in PcrRequest, NEW work, OnlyPcrMoves(r, work),
         swapped' = swapped, Writes(r), ~swapped => UnwrittenFor(r)'
  PROVE  Unwritten'
<1> SUFFICES ASSUME ~swapped, NEW q \in PcrRequest, q # r PROVE UnwrittenFor(q)'
  BY DEF Unwritten
<1>1. pcr'[q] = pcr[q] /\ UnwrittenFor(q)
  BY DEF OnlyPcrMoves, Unwritten
<1>2. CASE ~Working(q)
  <2>1. ~Writing(q)
    BY <1>2, WorkTyped
  <2>2. QED
    BY <1>1, <1>2, <2>1, OthersStay DEF UnwrittenFor, Second
<1>3. CASE Working(q)
  <2>1. pcr[q] \in PcrWork
    BY <1>3, WorkTyped
  <2>2. pcr[q].team \in CredTeam /\ pcr[q].names \subseteq Username
    BY <2>1 DEF PcrWork
  <2>3. \A n \in Username : creds'[pcr[q].team, n] = creds[pcr[q].team, n]
    BY <1>3, <2>2, WorkTyped DEF Writes, Owned
  <2>4. Writing(q) => pcr[q].name \in Username
    BY WorkTyped
  <2>5. QED
    BY <1>1, <2>2, <2>3, <2>4, OthersStay DEF UnwrittenFor, Second
<1>4. QED
  BY <1>2, <1>3

\* The history of the credentials a request is not in the middle of changing.
LEMMA RecordedElsewhere ==
  ASSUME NEW r \in PcrRequest, NEW work, OnlyPcrMoves(r, work),
         NEW t \in CredTeam, NEW n \in Username, <<t, n>> \in torn \/ RecordedFor(t, n),
         creds'[t, n] = creds[t, n], pcrs'[t, n] = pcrs[t, n], torn \subseteq torn',
         Halfway(r, t, n) => <<t, n>> \in torn', ~Halfway(r, t, n)'
  PROVE  <<t, n>> \in torn' \/ RecordedFor(t, n)'
<1>1. CASE Halfway(r, t, n) \/ <<t, n>> \in torn
  BY <1>1
<1>2. CASE ~Halfway(r, t, n) /\ RecordedFor(t, n)
  <2>1. \A q \in PcrRequest : q # r =>
          pcr'[q] = pcr[q] /\ (Halfway(q, t, n)' <=> Halfway(q, t, n))
    BY OthersStay DEF OnlyPcrMoves
  <2>2. Changing(t, n)' <=> Changing(t, n)
    <3>1. Changing(t, n)' <=> \E q \in PcrRequest : Halfway(q, t, n)'
      BY DEF Changing, Halfway, Second, Writing
    <3>2. QED
      BY <1>2, <2>1, <3>1, ChangingIsHalfway
  <2>3. QED
    BY <1>2, <2>1, <2>2 DEF RecordedFor
<1>3. QED
  BY <1>1, <1>2

\* One request at most is halfway through a change of a team's credential.
LEMMA HalfwayAlone ==
  ASSUME RequestsOK, Owned, ~swapped, NEW r \in PcrRequest, Writing(r),
         NEW q \in PcrRequest, NEW n, Halfway(q, pcr[r].team, n)
  PROVE  q = r
<1>1. Working(q) /\ Working(r) /\ pcr[q].team = pcr[r].team
  BY WorkTyped DEF Halfway, Second
<1>2. QED
  BY <1>1 DEF Owned

\* A change of a credential leads the history on.
LEMMA LeadsOn ==
  ASSUME NEW h \in Seq([old : Password, new : Password]), NEW old \in Password,
         NEW new \in Password, Leads(h, old)
  PROVE  Leads(Append(h, [old |-> old, new |-> new]), new)
<1> DEFINE g == Append(h, [old |-> old, new |-> new])
<1>1. Len(h) \in Nat /\ Len(g) = Len(h) + 1 /\ g # <<>>
  OBVIOUS
<1>2. g[Len(g)] = [old |-> old, new |-> new] /\ \A i \in 1 .. Len(h) : g[i] = h[i]
  BY <1>1
<1>3. CASE h = <<>>
  <2>1. old = Original /\ Len(h) = 0
    BY <1>3, Constants DEF Leads
  <2>2. QED
    BY <1>1, <1>2, <2>1 DEF Leads
<1>4. CASE h # <<>>
  <2>1. /\ h[1].old = Original /\ h[Len(h)].new = old /\ 1 <= Len(h)
        /\ \A i \in 1 .. Len(h) - 1 : h[i].new = h[i + 1].old
    BY <1>1, <1>4 DEF Leads
  <2>2. ASSUME NEW i \in 1 .. Len(g) - 1 PROVE g[i].new = g[i + 1].old
    <3>1. CASE i = Len(h)
      BY <1>1, <1>2, <2>1, <3>1
    <3>2. CASE i # Len(h)
      <4>1. i \in 1 .. Len(h) - 1 /\ i \in 1 .. Len(h) /\ i + 1 \in 1 .. Len(h)
        BY <1>1, <2>2, <3>2
      <4>2. QED
        BY <1>2, <2>1, <4>1
    <3>3. QED
      BY <3>1, <3>2
  <2>3. g[1].old = Original /\ g[Len(g)].new = new
    BY <1>1, <1>2, <2>1
  <2> HIDE DEF g
  <2>4. QED
    BY <1>1, <2>2, <2>3 DEF Leads, g
<1>5. QED
  BY <1>3, <1>4

LEMMA LastOfSeq ==
  ASSUME NEW S, NEW seq \in Seq(S), seq # <<>>
  PROVE  seq[Len(seq)] \in S
<1>1. Len(seq) \in Nat /\ Len(seq) # 0
  BY EmptySeq
<1>2. Len(seq) \in 1 .. Len(seq)
  BY <1>1
<1>3. QED
  BY <1>2, ElementOfSeq

\* A step that leaves the requests alone, and writes no row that is there.
LEMMA RequestsRest ==
  ASSUME CredTypeOK, RequestsOK, Owned, Unwritten, Recorded,
         UNCHANGED <<pcr, credHeld, credFatal, pcrs, torn, swapped, credMutex>>,
         \A t \in CredTeam, n \in Username :
           creds'[t, n] = creds[t, n] \/ (creds[t, n] = NoPassword /\ creds'[t, n] = Original)
  PROVE  RequestsOK' /\ Owned' /\ Unwritten' /\ Recorded'
<1>1. \A r \in PcrRequest :
        /\ Unused(r)' <=> Unused(r)
        /\ Working(r)' <=> Working(r)
        /\ Writing(r)' <=> Writing(r)
        /\ First(r)' <=> First(r)
        /\ Second(r)' <=> Second(r)
        /\ \A t, n : Halfway(r, t, n)' <=> Halfway(r, t, n)
  BY OthersStay
<1>2. ASSUME NEW r \in PcrRequest PROVE RequestOK(r)' /\ (UnwrittenFor(r) => UnwrittenFor(r)')
  <2>1. CASE Unused(r)
    <3>1. ~Working(r) /\ ~Writing(r)
      BY <2>1, WorkTyped
    <3>2. QED
      BY <1>1, <2>1, <3>1 DEF RequestOK, UnwrittenFor, Second
  <2>2. CASE ~Unused(r)
    <3>1. pcr[r] \in PcrWork /\ RequestOK(r)
      BY <2>2, WorkTyped DEF RequestsOK
    <3>2. pcr[r].team \in CredTeam /\ pcr[r].names \subseteq Username
      BY <3>1 DEF PcrWork
    <3>3. \A n \in Username : creds[pcr[r].team, n] # NoPassword =>
            creds'[pcr[r].team, n] = creds[pcr[r].team, n]
      BY <3>2
    <3>4. Writing(r) => pcr[r].name \in Username
      BY WorkTyped
    <3>5. RequestOK(r)'
      BY <1>1, <3>1, <3>2, <3>3, <3>4 DEF RequestOK
    <3>6. /\ Writing(r) => creds'[pcr[r].team, pcr[r].name] = creds[pcr[r].team, pcr[r].name]
          /\ Working(r) /\ pcr[r].kind = "reset" => \A n \in pcr[r].names :
               creds'[pcr[r].team, n] = creds[pcr[r].team, n]
      BY <2>2, <3>1, <3>2, <3>3, <3>4 DEF RequestOK
    <3>7. UnwrittenFor(r) => UnwrittenFor(r)'
      BY <1>1, <3>6 DEF UnwrittenFor, Second
    <3>8. QED
      BY <3>5, <3>7
  <2>3. QED
    BY <2>1, <2>2
<1>3. RequestsOK' /\ Unwritten'
  BY <1>2 DEF RequestsOK, Unwritten
<1>4. Owned'
  BY <1>1 DEF Owned
<1>5. ASSUME ~swapped, NEW t \in CredTeam, NEW n \in Username, <<t, n>> \notin torn
      PROVE  RecordedFor(t, n)'
  <2>1. RecordedFor(t, n)
    BY <1>5 DEF Recorded
  <2>2. Changing(t, n)' <=> Changing(t, n)
    BY DEF Changing, First
  <2>3. Leads(pcrs[t, n], creds[t, n]) => Leads(pcrs[t, n], creds'[t, n])
    <3>1. CASE creds[t, n] = NoPassword /\ creds'[t, n] = Original
      <4>1. pcrs[t, n] \in Seq([old : Password, new : Password])
        BY DEF CredTypeOK
      <4>2. ASSUME pcrs[t, n] # <<>> PROVE pcrs[t, n][Len(pcrs[t, n])].new \in Password
        <5>1. pcrs[t, n][Len(pcrs[t, n])] \in [old : Password, new : Password]
          BY <4>1, <4>2, LastOfSeq
        <5>2. QED
          BY <5>1
      <4>3. QED
        BY <3>1, <4>2, Constants DEF Leads
    <3>2. QED
      BY <3>1
  <2>4. QED
    BY <1>1, <2>1, <2>2, <2>3 DEF RecordedFor
<1>6. Recorded'
  BY <1>5 DEF Recorded
<1>7. QED
  BY <1>3, <1>4, <1>6

-----------------------------------------------------------------------------
(* The steps of requests *)

LEMMA AtField ==
  ASSUME NEW work \in PcrWork, NEW new \in {"next", "save", "log", "unlock"},
         NEW next, next = [work EXCEPT !.at = new]
  PROVE  next \in PcrWork /\ next.at = new /\ next.kind = work.kind /\ next.team = work.team /\ next.names = work.names
         /\ next.name = work.name /\ next.old = work.old /\ next.mutex = work.mutex /\ next.new = work.new
BY DEF PcrWork

LEMMA MutexField ==
  ASSUME NEW work \in PcrWork, NEW new \in CredTeam \X (1 .. MaxSeedings),
         NEW next, next = [work EXCEPT !.mutex = new]
  PROVE  next \in PcrWork /\ next.mutex = new /\ next.at = work.at /\ next.kind = work.kind /\ next.team = work.team
         /\ next.names = work.names /\ next.name = work.name /\ next.old = work.old /\ next.new = work.new
BY DEF PcrWork

LEMMA NamesField ==
  ASSUME NEW work \in PcrWork, NEW new \in SUBSET Username,
         NEW next, next = [work EXCEPT !.names = new]
  PROVE  next \in PcrWork /\ next.names = new /\ next.at = work.at /\ next.kind = work.kind /\ next.team = work.team
         /\ next.name = work.name /\ next.old = work.old /\ next.mutex = work.mutex /\ next.new = work.new
BY DEF PcrWork

LEMMA NameField ==
  ASSUME NEW work \in PcrWork, NEW new \in Username,
         NEW next, next = [work EXCEPT !.name = new]
  PROVE  next \in PcrWork /\ next.name = new /\ next.at = work.at /\ next.kind = work.kind /\ next.team = work.team
         /\ next.names = work.names /\ next.old = work.old /\ next.mutex = work.mutex /\ next.new = work.new
BY DEF PcrWork

LEMMA OldField ==
  ASSUME NEW work \in PcrWork, NEW new \in OldPasswords,
         NEW next, next = [work EXCEPT !.old = new]
  PROVE  next \in PcrWork /\ next.old = new /\ next.at = work.at /\ next.kind = work.kind /\ next.team = work.team
         /\ next.names = work.names /\ next.name = work.name /\ next.mutex = work.mutex /\ next.new = work.new
BY DEF PcrWork

LEMMA PcrMovesTo ==
  ASSUME RequestsOK, NEW r \in PcrRequest, NEW work, pcr' = [pcr EXCEPT ![r] = work]
  PROVE  OnlyPcrMoves(r, work)
BY DEF RequestsOK, OnlyPcrMoves

\* The step to another statement, or past the last.
LEMMA GoesOn ==
  ASSUME RequestsOK, NEW r \in PcrRequest, pcr[r] \in PcrWork,
         NEW where \in {"next", "save", "log", "unlock"}, GoOn(r, where)
  PROVE  \E work \in PcrWork :
           /\ OnlyPcrMoves(r, work) /\ work.at = where /\ work.kind = pcr[r].kind
           /\ work.team = pcr[r].team /\ work.names = pcr[r].names /\ work.name = pcr[r].name
           /\ work.old = pcr[r].old /\ work.mutex = pcr[r].mutex /\ work.new = pcr[r].new
<1> DEFINE work == [pcr[r] EXCEPT !.at = where]
<1>1. pcr' = [pcr EXCEPT ![r] = work]
  BY DEF GoOn, RequestsOK
<1>2. OnlyPcrMoves(r, work)
  BY <1>1, PcrMovesTo
<1>3. QED
  BY <1>2, AtField

\* The request begins to work, with what it has found.
LEMMA AcquireMoves ==
  ASSUME CredTypeOK, RequestsOK, NEW r \in PcrRequest, AcquireMutex(r)
  PROVE  /\ pcr[r] \in PcrWork
         /\ \E work \in PcrWork :
              /\ OnlyPcrMoves(r, work) /\ work.at = "next" /\ work.kind = pcr[r].kind
              /\ work.team = pcr[r].team
              /\ work.mutex = <<pcr[r].team, credMutex[pcr[r].team]>>
              /\ work.old = [n \in work.names |-> creds[pcr[r].team, n]]
              /\ work.kind = "reset" =>
                   \A n \in work.names : creds[pcr[r].team, n] # NoPassword
<1>1. ~Unused(r)
  BY DEF AcquireMutex, Unused
<1>2. pcr[r] \in PcrWork /\ RequestOK(r)
  BY <1>1, WorkTyped DEF RequestsOK
<1>3. PICK t \in CredTeam : t = pcr[r].team
  BY <1>2 DEF PcrWork
<1>4. PICK mine : mine = pcr[r]
  OBVIOUS
<1>5. PICK found : found = IF mine.kind = "update" THEN mine.names
                           ELSE {n \in mine.names \cap originals : creds[t, n] # NoPassword}
  OBVIOUS
<1>6. PICK read : read = [n \in found |-> creds[t, n]]
  OBVIOUS
<1>7. PICK m : m = <<t, credMutex[t]>>
  OBVIOUS
<1>8. found \in SUBSET Username
  BY <1>2, <1>4, <1>5 DEF PcrWork
<1>9. read \in OldPasswords
  <2>1. read \in [found -> Password \cup {NoPassword}]
    BY <1>3, <1>6, <1>8 DEF CredTypeOK
  <2>2. QED
    BY <1>8, <2>1 DEF OldPasswords
<1>10. m \in CredTeam \X (1 .. MaxSeedings)
  <2>1. credMutex[t] \in 0 .. MaxSeedings /\ credMutex[t] # 0
    BY <1>1, <1>2, <1>3 DEF CredTypeOK, RequestOK
  <2>2. QED
    BY <1>7, <2>1, Constants
<1>11. pcr' = [pcr EXCEPT ![r].at = "next", ![r].mutex = m, ![r].names = found, ![r].old = read]
  BY <1>3, <1>4, <1>5, <1>6, <1>7 DEF AcquireMutex
<1>12. PICK work \in PcrWork : pcr'[r] = work /\ work.at = "next" /\ work.mutex = m
          /\ work.names = found /\ work.old = read /\ work.kind = mine.kind
          /\ work.team = mine.team
  <2>1. PICK a : a = [mine EXCEPT !.at = "next"]
    OBVIOUS
  <2>2. PICK b : b = [a EXCEPT !.mutex = m]
    OBVIOUS
  <2>3. PICK c : c = [b EXCEPT !.names = found]
    OBVIOUS
  <2>4. PICK d : d = [c EXCEPT !.old = read]
    OBVIOUS
  <2>5. pcr'[r] = [[[[pcr[r] EXCEPT !.at = "next"] EXCEPT !.mutex = m] EXCEPT !.names = found]
                     EXCEPT !.old = read]
    BY <1>11 DEF RequestsOK
  <2>6. pcr'[r] = d
    BY <1>4, <2>1, <2>2, <2>3, <2>4, <2>5
  <2>7. a \in PcrWork /\ a.at = "next" /\ a.kind = mine.kind /\ a.team = mine.team
    BY <1>2, <1>4, <2>1, AtField
  <2>8. b \in PcrWork /\ b.at = "next" /\ b.mutex = m /\ b.kind = mine.kind /\ b.team = mine.team
    BY <1>10, <2>2, <2>7, MutexField
  <2>9. /\ c \in PcrWork /\ c.at = "next" /\ c.mutex = m /\ c.names = found
        /\ c.kind = mine.kind /\ c.team = mine.team
    BY <1>8, <2>3, <2>8, NamesField
  <2>10. /\ d \in PcrWork /\ d.at = "next" /\ d.mutex = m /\ d.names = found /\ d.old = read
         /\ d.kind = mine.kind /\ d.team = mine.team
    BY <1>9, <2>4, <2>9, OldField
  <2>11. QED
    BY <2>6, <2>10
<1>13. OnlyPcrMoves(r, work)
  BY <1>11, <1>12 DEF OnlyPcrMoves, RequestsOK
<1>14. work.kind = "reset" => \A n \in work.names : creds[t, n] # NoPassword
  BY <1>2, <1>4, <1>5, <1>12 DEF PcrWork
<1>15. work.team = pcr[r].team /\ work.kind = pcr[r].kind /\ t = pcr[r].team
  BY <1>3, <1>4, <1>12
<1>16. work.mutex = <<pcr[r].team, credMutex[pcr[r].team]>>
  BY <1>7, <1>12, <1>15
<1>17. work.old = [n \in work.names |-> creds[pcr[r].team, n]]
  BY <1>6, <1>12, <1>15
<1>18. QED
  BY <1>2, <1>12, <1>13, <1>14, <1>15, <1>16, <1>17

LEMMA AskMoves ==
  ASSUME CredTypeOK, RequestsOK, NEW r \in PcrRequest, Ask(r)
  PROVE  /\ Unused(r)
         /\ \E work \in PcrWork :
              /\ OnlyPcrMoves(r, work) /\ work.at = "lock" /\ work.names \subseteq DOMAIN work.old
              /\ credMutex[work.team] # 0 /\ work.mutex = <<work.team, credMutex[work.team]>>
<1>1. PICK t \in CredTeam, list \in configured, kind \in {"update", "reset"} :
        /\ credMutex[t] # 0
        /\ \E names \in (SUBSET list) \ {{}}, password \in NewPassword :
             pcr' = [pcr EXCEPT ![r] =
               [at |-> "lock", kind |-> kind, team |-> t, names |-> names, name |-> "",
                old |-> [n \in names |-> NoPassword], mutex |-> <<t, credMutex[t]>>,
                new |-> IF kind = "reset" THEN Original ELSE password]]
  BY DEF Ask
<1>2. PICK names \in SUBSET list, password \in NewPassword :
        pcr' = [pcr EXCEPT ![r] =
          [at |-> "lock", kind |-> kind, team |-> t, names |-> names, name |-> "",
           old |-> [n \in names |-> NoPassword], mutex |-> <<t, credMutex[t]>>,
           new |-> IF kind = "reset" THEN Original ELSE password]]
  BY <1>1
<1>3. PICK none : none = [n \in names |-> NoPassword]
  OBVIOUS
<1>4. PICK m : m = <<t, credMutex[t]>>
  OBVIOUS
<1>5. PICK wish \in Password : wish = IF kind = "reset" THEN Original ELSE password
  BY DEF Password
<1> DEFINE work == [at |-> "lock", kind |-> kind, team |-> t, names |-> names, name |-> "",
                    old |-> none, mutex |-> m, new |-> wish]
<1>6. names \in SUBSET Username
  BY Constants DEF CredTypeOK
<1>7. none \in OldPasswords /\ DOMAIN none = names
  <2>1. none \in [names -> Password \cup {NoPassword}] /\ DOMAIN none = names
    BY <1>3
  <2>2. QED
    BY <1>6, <2>1 DEF OldPasswords
<1>8. m \in CredTeam \X (1 .. MaxSeedings)
  <2>1. credMutex[t] \in 0 .. MaxSeedings
    BY DEF CredTypeOK
  <2>2. credMutex[t] # 0
    BY <1>1
  <2>3. credMutex[t] \in 1 .. MaxSeedings
    BY <2>1, <2>2, Constants
  <2>4. QED
    BY <1>4, <2>3
<1>9. work \in PcrWork
  BY <1>6, <1>7, <1>8 DEF PcrWork
<1>10. pcr' = [pcr EXCEPT ![r] = work]
  BY <1>2, <1>3, <1>4, <1>5
<1>11. work.at = "lock" /\ work.names = names /\ work.old = none /\ work.team = t /\ work.mutex = m
  OBVIOUS
<1> HIDE DEF work
<1>12. OnlyPcrMoves(r, work)
  BY <1>10, PcrMovesTo
<1>13. Unused(r)
  BY WorkTyped DEF Ask
<1>14. QED
  BY <1>1, <1>4, <1>7, <1>9, <1>11, <1>12, <1>13

\* A username the request goes on with, or skips.
LEMMA NextNameMoves ==
  ASSUME CredTypeOK, RequestsOK, NEW r \in PcrRequest, NextName(r)
  PROVE  /\ pcr[r] \in PcrWork /\ Working(r) /\ ~Writing(r)
         /\ \E work \in PcrWork, n \in pcr[r].names :
              /\ OnlyPcrMoves(r, work) /\ work.kind = pcr[r].kind /\ work.team = pcr[r].team
              /\ work.mutex = pcr[r].mutex /\ work.new = pcr[r].new
              /\ work.names = pcr[r].names \ {n} /\ DOMAIN work.old = DOMAIN pcr[r].old
              /\ \A k \in DOMAIN work.old : k # n => work.old[k] = pcr[r].old[k]
              /\ \/ work.at = "next" /\ work.old = pcr[r].old
                 \/ /\ work.kind = "update" /\ work.at = "save" /\ work.name = n
                    /\ work.old[n] = creds[work.team, n] /\ creds[work.team, n] # NoPassword
                 \/ /\ work.kind = "reset" /\ work.at = "log" /\ work.name = n
                    /\ work.old = pcr[r].old
<1>1. ~Unused(r) /\ Working(r) /\ ~Writing(r)
  BY DEF NextName, Unused, Working, Writing
<1>2. pcr[r] \in PcrWork /\ RequestOK(r)
  BY <1>1, WorkTyped DEF RequestsOK
<1>3. PICK mine : mine = pcr[r]
  OBVIOUS
<1>4. PICK t \in CredTeam : t = pcr[r].team /\ mine = pcr[r]
  BY <1>3, <1>2 DEF PcrWork
<1>5. PICK n \in mine.names :
        IF mine.kind = "update" /\ creds[t, n] = NoPassword
          THEN pcr' = [pcr EXCEPT ![r].names = @ \ {n}]
          ELSE pcr' = [pcr EXCEPT ![r].names = @ \ {n}, ![r].name = n,
                         ![r].old[n] = IF mine.kind = "update" THEN creds[t, n] ELSE @,
                         ![r].at = IF mine.kind = "update" THEN "save" ELSE "log"]
  BY <1>4 DEF NextName
<1>6. PICK rest \in SUBSET Username : rest = mine.names \ {n}
  BY <1>2, <1>4 DEF PcrWork
<1>7. n \in Username /\ n \in DOMAIN mine.old /\ mine.kind \in {"update", "reset"}
  BY <1>1, <1>2, <1>4 DEF PcrWork, RequestOK
<1>8. PICK a : a = [mine EXCEPT !.names = rest]
  OBVIOUS
<1>9. /\ a \in PcrWork /\ a.names = rest /\ a.at = mine.at /\ a.kind = mine.kind
      /\ a.team = mine.team /\ a.name = mine.name /\ a.old = mine.old /\ a.mutex = mine.mutex
      /\ a.new = mine.new
  BY <1>2, <1>4, <1>8, NamesField
<1>10. CASE mine.kind = "update" /\ creds[t, n] = NoPassword
  <2>1. pcr' = [pcr EXCEPT ![r] = [mine EXCEPT !.names = mine.names \ {n}]]
    BY <1>4, <1>5, <1>10 DEF RequestsOK
  <2>2. OnlyPcrMoves(r, a)
    BY <1>6, <1>8, <2>1, PcrMovesTo
  <2>3. a.at = "next"
    BY <1>4, <1>9 DEF NextName
  <2>4. QED
    BY <1>1, <1>2, <1>4, <1>6, <1>9, <2>2, <2>3
<1>11. CASE ~(mine.kind = "update" /\ creds[t, n] = NoPassword)
  <2>1. PICK read : read = IF mine.kind = "update" THEN creds[t, n] ELSE mine.old[n]
    OBVIOUS
  <2>2. PICK where \in {"save", "log"} : where = IF mine.kind = "update" THEN "save" ELSE "log"
    OBVIOUS
  <2>3. PICK b : b = [a EXCEPT !.name = n]
    OBVIOUS
  <2>4. PICK o : o = [mine.old EXCEPT ![n] = read]
    OBVIOUS
  <2>5. PICK c : c = [b EXCEPT !.old = o]
    OBVIOUS
  <2>6. PICK d : d = [c EXCEPT !.at = where]
    OBVIOUS
  <2>7. pcr'[r] = [[[[pcr[r] EXCEPT !.names = mine.names \ {n}] EXCEPT !.name = n]
                      EXCEPT !.old = [mine.old EXCEPT ![n] = read]] EXCEPT !.at = where]
    BY <1>2, <1>4, <1>5, <1>11, <2>1, <2>2 DEF RequestsOK, PcrWork
  <2>8. pcr'[r] = d
    BY <1>4, <1>6, <1>8, <2>3, <2>4, <2>5, <2>6, <2>7
  <2>9. OnlyPcrMoves(r, d)
    BY <1>5, <1>11, <2>8 DEF RequestsOK, OnlyPcrMoves
  <2>10. mine.old \in OldPasswords
    BY <1>2, <1>4 DEF PcrWork
  <2>11. PICK names \in SUBSET Username : mine.old \in [names -> Password \cup {NoPassword}]
    BY <2>10 DEF OldPasswords
  <2>12. read \in Password \cup {NoPassword}
    BY <1>7, <2>1, <2>11 DEF CredTypeOK
  <2>13. /\ o \in OldPasswords /\ DOMAIN o = DOMAIN mine.old /\ o[n] = read
         /\ \A k \in DOMAIN o : k # n => o[k] = mine.old[k]
    <3>1. /\ o \in [names -> Password \cup {NoPassword}] /\ DOMAIN o = DOMAIN mine.old
          /\ o[n] = read /\ \A k \in DOMAIN o : k # n => o[k] = mine.old[k]
      BY <1>7, <2>4, <2>11, <2>12
    <3>2. QED
      BY <3>1 DEF OldPasswords
  <2>14. mine.kind = "reset" => o = mine.old
    BY <2>1, <2>4, <2>11
  <2>15. /\ b \in PcrWork /\ b.names = rest /\ b.kind = mine.kind /\ b.name = n
         /\ b.team = mine.team /\ b.mutex = mine.mutex /\ b.new = mine.new
    BY <1>7, <1>9, <2>3, NameField
  <2>16. /\ c \in PcrWork /\ c.names = rest /\ c.kind = mine.kind /\ c.name = n /\ c.old = o
         /\ c.team = mine.team /\ c.mutex = mine.mutex /\ c.new = mine.new
    BY <2>5, <2>13, <2>15, OldField
  <2>17. /\ d \in PcrWork /\ d.names = rest /\ d.kind = mine.kind /\ d.name = n /\ d.old = o
         /\ d.team = mine.team /\ d.mutex = mine.mutex /\ d.new = mine.new /\ d.at = where
    BY <2>6, <2>16, AtField
  <2>18. \/ mine.kind = "update" /\ where = "save" /\ o[n] = creds[t, n] /\ creds[t, n] # NoPassword
         \/ mine.kind = "reset" /\ where = "log" /\ o = mine.old
    BY <1>7, <1>11, <2>1, <2>2, <2>13, <2>14
  <2>19. /\ OnlyPcrMoves(r, d) /\ d.kind = pcr[r].kind /\ d.team = pcr[r].team
         /\ d.mutex = pcr[r].mutex /\ d.new = pcr[r].new
         /\ d.names = pcr[r].names \ {n} /\ DOMAIN d.old = DOMAIN pcr[r].old
         /\ \A k \in DOMAIN d.old : k # n => d.old[k] = pcr[r].old[k]
    BY <1>4, <1>6, <2>9, <2>13, <2>17
  <2>20. \/ /\ d.kind = "update" /\ d.at = "save" /\ d.name = n
            /\ d.old[n] = creds[d.team, n] /\ creds[d.team, n] # NoPassword
         \/ d.kind = "reset" /\ d.at = "log" /\ d.name = n /\ d.old = pcr[r].old
    BY <1>4, <2>17, <2>18
  <2>21. d \in PcrWork /\ n \in pcr[r].names
    BY <1>4, <2>17
  <2>22. QED
    BY <1>1, <1>2, <2>19, <2>20, <2>21
<1>12. QED
  BY <1>10, <1>11

LEMMA PcrAtWork ==
  ASSUME NEW r \in PcrRequest, NEW work, OnlyPcrMoves(r, work)
  PROVE  /\ Unused(r)' <=> work.at = "idle"
         /\ Working(r)' <=> work.at \notin {"idle", "lock"}
         /\ Writing(r)' <=> work.at \in {"save", "log"}
         /\ First(r)' <=> (work.at = IF work.kind = "update" THEN "save" ELSE "log")
         /\ Second(r)' <=> Writing(r)' /\ ~First(r)'
         /\ \A t, n : Halfway(r, t, n)' <=> Second(r)' /\ work.team = t /\ work.name = n
BY DEF OnlyPcrMoves, Unused, Working, Writing, First, Second, Halfway

\* What a request leaves to the seeding.
LEMMA SeedingRests ==
  ASSUME CredTypeOK, RequestsOK, SeedingOK, Listed, Copied, Whole, Filled, Visited,
         NEW r \in PcrRequest, Writes(r),
         UNCHANGED <<configured, teams, originals, seeding, toSeed, toFill, wanted, grown, seedings,
                     halfSeeded>>
  PROVE  SeedingOK' /\ Listed' /\ Copied' /\ Whole' /\ Filled' /\ Visited'
<1>1. \A t \in CredTeam, n \in Username : creds'[t, n] = NoPassword <=> creds[t, n] = NoPassword
  <2>1. Writing(r) => creds[pcr[r].team, pcr[r].name] # NoPassword
    BY WorkTyped DEF RequestsOK, RequestOK
  <2>2. QED
    BY <2>1 DEF Writes
<1>2. /\ SeedingOK' /\ Listed' /\ Copied' /\ Whole' /\ Visited'
  BY <1>1 DEF SeedingOK, Listed, Copied, Whole, Visited
<1>3. \A t \in teams : (HasNothing(t)' <=> HasNothing(t)) /\ (Full(t)' <=> Full(t))
  BY <1>1 DEF HasNothing, Full, CredTypeOK
<1>4. Filled'
  BY <1>3 DEF Filled
<1>5. QED
  BY <1>2, <1>4

\* A request that goes on with its mutex.
LEMMA OwnedStays ==
  ASSUME Owned, NEW r \in PcrRequest, NEW work, OnlyPcrMoves(r, work), Working(r), ~Unused(r),
         work.team = pcr[r].team, work.mutex = pcr[r].mutex,
         UNCHANGED <<swapped, credFatal, credMutex, credHeld>>
  PROVE  Owned'
<1> SUFFICES ASSUME ~swapped PROVE Owned'
  BY DEF Owned
<1>1. \A q \in PcrRequest : q # r =>
        pcr'[q] = pcr[q] /\ (Unused(q)' <=> Unused(q)) /\ (Working(q)' <=> Working(q))
  BY OthersStay DEF OnlyPcrMoves
<1>2. pcr'[r] = work
  BY DEF OnlyPcrMoves
<1>3. \A q \in PcrRequest : /\ Working(q)' => Working(q)
                            /\ Unused(q) => Unused(q)'
                            /\ pcr'[q].team = pcr[q].team /\ pcr'[q].mutex = pcr[q].mutex
  BY <1>1, <1>2
<1>4. QED
  BY <1>3 DEF Owned

LEMMA AskStep ==
  ASSUME CredInv, NEW r \in PcrRequest, Ask(r)
  PROVE  CredInv'
<1> USE DEF CredInv
<1>1. PICK work \in PcrWork :
        /\ OnlyPcrMoves(r, work) /\ work.at = "lock" /\ work.names \subseteq DOMAIN work.old
        /\ credMutex[work.team] # 0 /\ work.mutex = <<work.team, credMutex[work.team]>>
  BY AskMoves
<1>2. Unused(r) /\ ~Writing(r) /\ ~Second(r) /\ ~Unused(r)' /\ ~Working(r)' /\ ~Writing(r)' /\ ~Second(r)'
  BY <1>1, AskMoves, PcrAtWork DEF Unused, Writing, Second
<1>3. UNCHANGED <<configured, teams, originals, creds, pcrs, seeding, toSeed, toFill, wanted, grown,
                  seedings, credMutex, credHeld, credFatal, halfSeeded, torn, swapped>>
  BY DEF Ask, rowVars, seedVars, lockVars
<1>4. Writes(r)
  BY <1>3 DEF Writes, CredTypeOK
<1>5. RequestOK(r)'
  BY <1>1, <1>2, <1>3 DEF RequestOK, OnlyPcrMoves
<1>6. RequestsOK'
  BY <1>1, <1>3, <1>4, <1>5, RequestsMove
<1>7. Unwritten'
  BY <1>1, <1>2, <1>3, <1>4, UnwrittenMoves DEF UnwrittenFor
<1>8. Owned'
  <2> SUFFICES ASSUME ~swapped PROVE Owned'
    BY <1>3 DEF Owned
  <2>1. \A q \in PcrRequest : q # r =>
          pcr'[q] = pcr[q] /\ (Unused(q)' <=> Unused(q)) /\ (Working(q)' <=> Working(q))
    BY <1>1, OthersStay DEF OnlyPcrMoves
  <2>2. pcr'[r].mutex = <<pcr'[r].team, credMutex'[pcr'[r].team]>>
    BY <1>1, <1>3 DEF OnlyPcrMoves
  <2>3. QED
    BY <1>2, <1>3, <2>1, <2>2 DEF Owned
<1>9. Recorded'
  <2> SUFFICES ASSUME ~swapped, NEW t \in CredTeam, NEW n \in Username
               PROVE  <<t, n>> \in torn' \/ RecordedFor(t, n)'
    BY <1>3 DEF Recorded
  <2>1. <<t, n>> \in torn \/ RecordedFor(t, n)
    BY DEF Recorded
  <2>2. ~Halfway(r, t, n) /\ ~Halfway(r, t, n)'
    BY <1>2 DEF Halfway
  <2>3. QED
    BY <1>1, <1>3, <2>1, <2>2, RecordedElsewhere
<1>10. CredTypeOK'
  BY <1>3 DEF CredTypeOK
<1>11. QED
  BY <1>3, <1>4, <1>6, <1>7, <1>8, <1>9, <1>10, SeedingRests

LEMMA AcquireStep ==
  ASSUME CredInv, NEW r \in PcrRequest, AcquireMutex(r)
  PROVE  CredInv'
<1> USE DEF CredInv
<1>1. pcr[r] \in PcrWork
  BY AcquireMoves
<1>2. PICK work \in PcrWork :
        /\ OnlyPcrMoves(r, work) /\ work.at = "next" /\ work.kind = pcr[r].kind
        /\ work.team = pcr[r].team
        /\ work.mutex = <<pcr[r].team, credMutex[pcr[r].team]>>
        /\ work.old = [n \in work.names |-> creds[pcr[r].team, n]]
        /\ work.kind = "reset" => \A n \in work.names : creds[pcr[r].team, n] # NoPassword
  BY AcquireMoves
<1>3. /\ ~Unused(r) /\ ~Working(r) /\ ~Writing(r) /\ ~Second(r)
      /\ ~Unused(r)' /\ Working(r)' /\ ~Writing(r)' /\ ~Second(r)'
  BY <1>2, PcrAtWork DEF AcquireMutex, Unused, Working, Writing, Second
<1>4. /\ UNCHANGED <<configured, teams, originals, creds, pcrs, seeding, toSeed, toFill, wanted, grown,
                     seedings, credMutex, credFatal, halfSeeded, torn, swapped>>
      /\ pcr[r].mutex \notin credHeld /\ credHeld' = credHeld \cup {pcr[r].mutex}
  BY DEF AcquireMutex, rowVars, seedVars, Locked
<1>5. Writes(r)
  BY <1>4 DEF Writes, CredTypeOK
<1>6. pcr[r].team \in CredTeam /\ credMutex[pcr[r].team] # 0 /\ pcr'[r] = work
  BY <1>1, <1>2, <1>3 DEF RequestsOK, RequestOK, PcrWork, OnlyPcrMoves
<1>7. RequestOK(r)'
  BY <1>2, <1>3, <1>4, <1>6 DEF RequestOK
<1>8. RequestsOK'
  BY <1>2, <1>4, <1>5, <1>7, RequestsMove
<1>9. Unwritten'
  <2>1. UnwrittenFor(r)'
    <3>1. \A n \in work.names : work.old[n] = creds[pcr[r].team, n]
      BY <1>2
    <3>2. creds' = creds /\ work.team = pcr[r].team
      BY <1>2, <1>4
    <3>3. \A n \in pcr'[r].names : pcr'[r].old[n] = creds'[pcr'[r].team, n]
      BY <1>6, <3>1, <3>2
    <3>4. QED
      BY <1>3, <3>3 DEF UnwrittenFor
  <2>2. QED
    BY <1>2, <1>4, <1>5, <2>1, UnwrittenMoves
<1>10. Owned'
  <2> SUFFICES ASSUME ~swapped PROVE Owned'
    BY <1>4 DEF Owned
  <2>1. \A q \in PcrRequest : q # r =>
          pcr'[q] = pcr[q] /\ (Unused(q)' <=> Unused(q)) /\ (Working(q)' <=> Working(q))
    BY <1>2, OthersStay DEF OnlyPcrMoves
  <2>2. pcr'[r].team = pcr[r].team /\ pcr'[r].mutex = pcr[r].mutex
        /\ pcr[r].mutex = <<pcr[r].team, credMutex[pcr[r].team]>>
    BY <1>2, <1>3, <1>6 DEF Owned
  <2>3. ASSUME NEW q \in PcrRequest, Working(q), pcr[q].team = pcr[r].team PROVE FALSE
    <3>1. pcr[q].mutex \in credHeld /\ pcr[q].mutex = <<pcr[q].team, credMutex[pcr[q].team]>>
      BY <2>3, WorkTyped DEF Owned
    <3>2. QED
      BY <1>4, <2>2, <2>3, <3>1
  <2>4. QED
    BY <1>3, <1>4, <2>1, <2>2, <2>3 DEF Owned
<1>11. Recorded'
  <2> SUFFICES ASSUME ~swapped, NEW t \in CredTeam, NEW n \in Username
               PROVE  <<t, n>> \in torn' \/ RecordedFor(t, n)'
    BY <1>4 DEF Recorded
  <2>1. <<t, n>> \in torn \/ RecordedFor(t, n)
    BY DEF Recorded
  <2>2. ~Halfway(r, t, n) /\ ~Halfway(r, t, n)'
    BY <1>3 DEF Halfway
  <2>3. QED
    BY <1>2, <1>4, <2>1, <2>2, RecordedElsewhere
<1>12. CredTypeOK'
  BY <1>1, <1>4 DEF CredTypeOK, PcrWork
<1>13. QED
  BY <1>4, <1>5, <1>8, <1>9, <1>10, <1>11, <1>12, SeedingRests

LEMMA NextNameStep ==
  ASSUME CredInv, NEW r \in PcrRequest, NextName(r)
  PROVE  CredInv'
<1> USE DEF CredInv
<1>1. pcr[r] \in PcrWork /\ Working(r) /\ ~Writing(r) /\ ~Second(r) /\ ~Unused(r)
  BY NextNameMoves, WorkTyped DEF Second
<1>2. PICK n \in pcr[r].names, work \in PcrWork :
        /\ OnlyPcrMoves(r, work) /\ work.kind = pcr[r].kind /\ work.team = pcr[r].team
        /\ work.mutex = pcr[r].mutex /\ work.new = pcr[r].new
        /\ work.names = pcr[r].names \ {n} /\ DOMAIN work.old = DOMAIN pcr[r].old
        /\ \A k \in DOMAIN work.old : k # n => work.old[k] = pcr[r].old[k]
        /\ \/ work.at = "next" /\ work.old = pcr[r].old
           \/ /\ work.kind = "update" /\ work.at = "save" /\ work.name = n
              /\ work.old[n] = creds[work.team, n] /\ creds[work.team, n] # NoPassword
           \/ /\ work.kind = "reset" /\ work.at = "log" /\ work.name = n
              /\ work.old = pcr[r].old
  BY NextNameMoves
<1>3. ~Unused(r)' /\ Working(r)' /\ ~Second(r)' /\ (Writing(r)' <=> work.at # "next")
  BY <1>2, PcrAtWork
<1>4. UNCHANGED <<configured, teams, originals, creds, pcrs, seeding, toSeed, toFill, wanted, grown,
                  seedings, credMutex, credHeld, credFatal, halfSeeded, torn, swapped>>
  BY DEF NextName, rowVars, seedVars, lockVars
<1>5. Writes(r)
  BY <1>4 DEF Writes, CredTypeOK
<1>6. /\ pcr'[r] = work /\ RequestOK(r) /\ credMutex[pcr[r].team] # 0
      /\ pcr[r].names \subseteq DOMAIN pcr[r].old
      /\ pcr[r].kind = "reset" => \A k \in pcr[r].names :
           creds[pcr[r].team, k] # NoPassword /\ pcr[r].old[k] # NoPassword
  BY <1>1, <1>2 DEF RequestsOK, RequestOK, OnlyPcrMoves
<1>7. /\ work.names \subseteq DOMAIN work.old
      /\ work.kind = "reset" => \A k \in work.names :
           creds[work.team, k] # NoPassword /\ work.old[k] # NoPassword
      /\ work.at # "next" => /\ work.name \in DOMAIN work.old \ work.names
                            /\ creds[work.team, work.name] # NoPassword
                            /\ work.old[work.name] # NoPassword
  BY <1>2, <1>6
<1>8. RequestOK(r)'
  BY <1>2, <1>3, <1>4, <1>6, <1>7 DEF RequestOK
<1>9. RequestsOK'
  BY <1>2, <1>4, <1>5, <1>8, RequestsMove
<1>10. Unwritten'
  <2>1. ASSUME ~swapped PROVE UnwrittenFor(r)'
    <3>1. pcr[r].kind = "reset" =>
            \A k \in pcr[r].names : pcr[r].old[k] = creds[pcr[r].team, k]
      BY <1>1, <2>1 DEF Unwritten, UnwrittenFor
    <3>2. work.kind = "reset" => \A k \in work.names : work.old[k] = creds[work.team, k]
      BY <1>2, <1>6, <3>1
    <3>3. work.at # "next" => work.old[work.name] = creds[work.team, work.name]
      BY <1>2, <1>6, <3>1
    <3>4. QED
      BY <1>3, <1>4, <1>6, <3>2, <3>3 DEF UnwrittenFor
  <2>2. QED
    BY <1>2, <1>4, <1>5, <2>1, UnwrittenMoves
<1>11. Owned'
  BY <1>1, <1>2, <1>4, OwnedStays
<1>12. Recorded'
  <2> SUFFICES ASSUME ~swapped, NEW t \in CredTeam, NEW m \in Username
               PROVE  <<t, m>> \in torn' \/ RecordedFor(t, m)'
    BY <1>4 DEF Recorded
  <2>1. <<t, m>> \in torn \/ RecordedFor(t, m)
    BY DEF Recorded
  <2>2. ~Halfway(r, t, m) /\ ~Halfway(r, t, m)'
    BY <1>1, <1>3 DEF Halfway
  <2>3. QED
    BY <1>2, <1>4, <2>1, <2>2, RecordedElsewhere
<1>13. CredTypeOK'
  BY <1>4 DEF CredTypeOK
<1>14. QED
  BY <1>4, <1>5, <1>9, <1>10, <1>11, <1>12, <1>13, SeedingRests

\* The history of the credential a request is changing.
LEMMA RecordedHere ==
  ASSUME RequestsOK, Owned, ~swapped, NEW r \in PcrRequest, Writing(r), NEW work,
         OnlyPcrMoves(r, work), NEW t, NEW n, t = pcr[r].team, n = pcr[r].name,
         work.team = t, work.name = n
  PROVE  /\ RecordedFor(t, n) =>
              IF Second(r)
                THEN Leads(pcrs[t, n], IF pcr[r].kind = "update" THEN pcr[r].old[n] ELSE pcr[r].new)
                ELSE Leads(pcrs[t, n], creds[t, n])
         /\ (IF Second(r)'
              THEN Leads(pcrs'[t, n], IF work.kind = "update" THEN work.old[n] ELSE work.new)
              ELSE Leads(pcrs'[t, n], creds'[t, n]))
            => RecordedFor(t, n)'
<1>1. \A q \in PcrRequest : q # r => ~Halfway(q, t, n) /\ (Halfway(q, t, n)' <=> Halfway(q, t, n))
  BY HalfwayAlone, OthersStay DEF OnlyPcrMoves
<1>2. (Halfway(r, t, n) <=> Second(r)) /\ (Halfway(r, t, n)' <=> Second(r)')
  BY PcrAtWork DEF Halfway
<1>3. Changing(t, n) <=> Second(r)
  BY <1>1, <1>2, ChangingIsHalfway
<1>4. Changing(t, n)' <=> Second(r)'
  <2>1. Changing(t, n)' <=> \E q \in PcrRequest : Halfway(q, t, n)'
    BY DEF Changing, Halfway, Second, Writing
  <2>2. QED
    BY <1>1, <1>2, <2>1
<1>5. pcr'[r] = work
  BY DEF OnlyPcrMoves
<1>6. RecordedFor(t, n) =>
        IF Second(r)
          THEN Leads(pcrs[t, n], IF pcr[r].kind = "update" THEN pcr[r].old[n] ELSE pcr[r].new)
          ELSE Leads(pcrs[t, n], creds[t, n])
  BY <1>2, <1>3 DEF RecordedFor
<1>7. (IF Second(r)'
         THEN Leads(pcrs'[t, n], IF work.kind = "update" THEN work.old[n] ELSE work.new)
         ELSE Leads(pcrs'[t, n], creds'[t, n]))
       => RecordedFor(t, n)'
  <2>1. CASE Second(r)'
    BY <1>1, <1>4, <1>5, <2>1 DEF RecordedFor
  <2>2. CASE ~Second(r)'
    BY <1>1, <1>2, <1>4, <2>2 DEF RecordedFor
  <2>3. QED
    BY <2>1, <2>2
<1>8. QED
  BY <1>6, <1>7

LEMMA SaveRowStep ==
  ASSUME CredInv, NEW r \in PcrRequest, SaveRow(r)
  PROVE  CredInv'
<1> USE DEF CredInv
<1>1. Writing(r) /\ Working(r) /\ ~Unused(r) /\ pcr[r] \in PcrWork /\ pcr[r].name \in Username
  BY WorkTyped DEF SaveRow, Writing, Working, Unused
<1>2. PICK t \in CredTeam, n \in Username, w \in Password :
        t = pcr[r].team /\ n = pcr[r].name /\ w = pcr[r].new
  BY <1>1 DEF PcrWork
<1>3. /\ creds' = [creds EXCEPT ![<<t, n>>] = w] /\ GoOn(r, After(r))
      /\ UNCHANGED <<configured, teams, originals, pcrs, seeding, toSeed, toFill, wanted, grown,
                     seedings, credMutex, credHeld, credFatal, halfSeeded, torn, swapped>>
  BY <1>2 DEF SaveRow, seedVars, lockVars
<1>4. PICK where \in {"log", "next"} :
        where = After(r) /\ (where = "log" <=> pcr[r].kind = "update")
  BY DEF SaveRow, After, First
<1>5. Second(r) <=> pcr[r].kind # "update"
  BY DEF SaveRow, Second, Writing, First
<1>6. PICK work \in PcrWork :
        /\ OnlyPcrMoves(r, work) /\ work.at = where /\ work.kind = pcr[r].kind
        /\ work.team = pcr[r].team /\ work.names = pcr[r].names /\ work.name = pcr[r].name
        /\ work.old = pcr[r].old /\ work.mutex = pcr[r].mutex /\ work.new = pcr[r].new
  BY <1>1, <1>3, <1>4, GoesOn
<1>7. /\ ~Unused(r)' /\ Working(r)' /\ (Writing(r)' <=> where = "log")
      /\ (Second(r)' <=> pcr[r].kind = "update") /\ ~(Writing(r)' /\ First(r)')
  BY <1>4, <1>6, PcrAtWork
<1>8. /\ creds' \in [CredTeam \X Username -> Password \cup {NoPassword}] /\ creds'[t, n] = w
      /\ \A s \in CredTeam, k \in Username : s # t \/ k # n => creds'[s, k] = creds[s, k]
      /\ w # NoPassword
  BY <1>3, Constants DEF CredTypeOK
<1>9. Writes(r)
  BY <1>1, <1>2, <1>8 DEF Writes
<1>10. /\ pcr'[r] = work /\ RequestOK(r) /\ credMutex[t] # 0 /\ pcr[r].names \subseteq Username
       /\ pcr[r].names \subseteq DOMAIN pcr[r].old /\ n \in DOMAIN pcr[r].old \ pcr[r].names
       /\ pcr[r].old[n] # NoPassword
       /\ pcr[r].kind = "reset" => \A k \in pcr[r].names :
            creds[t, k] # NoPassword /\ pcr[r].old[k] # NoPassword
  BY <1>1, <1>2, <1>6 DEF RequestsOK, RequestOK, OnlyPcrMoves, PcrWork
<1>11. RequestOK(r)'
  <2>1. pcr[r].kind = "reset" => \A k \in pcr[r].names :
          creds'[t, k] # NoPassword /\ pcr[r].old[k] # NoPassword
    BY <1>8, <1>10
  <2>2. QED
    <3>1. credMutex' = credMutex
      BY <1>3
    <3>2. QED
      BY <1>2, <1>6, <1>7, <1>8, <1>10, <2>1, <3>1 DEF RequestOK
<1>12. RequestsOK'
  BY <1>3, <1>6, <1>9, <1>11, RequestsMove
<1>13. Unwritten'
  <2>1. ASSUME ~swapped PROVE UnwrittenFor(r)'
    <3>1. pcr[r].kind = "reset" => \A k \in pcr[r].names : pcr[r].old[k] = creds'[t, k]
      <4>1. pcr[r].kind = "reset" => \A k \in pcr[r].names : pcr[r].old[k] = creds[t, k]
        BY <1>1, <1>2, <2>1 DEF Unwritten, UnwrittenFor
      <4>2. QED
        BY <1>8, <1>10, <4>1
    <3>2. QED
      BY <1>2, <1>6, <1>7, <1>8, <1>10, <3>1 DEF UnwrittenFor
  <2>2. QED
    BY <1>3, <1>6, <1>9, <2>1, UnwrittenMoves
<1>14. Owned'
  BY <1>1, <1>3, <1>6, OwnedStays
<1>15. Recorded'
  <2> SUFFICES ASSUME ~swapped, NEW s \in CredTeam, NEW k \in Username
               PROVE  <<s, k>> \in torn' \/ RecordedFor(s, k)'
    BY <1>3 DEF Recorded
  <2>1. <<s, k>> \in torn \/ RecordedFor(s, k)
    BY DEF Recorded
  <2>2. CASE s # t \/ k # n
    <3>1. ~Halfway(r, s, k) /\ ~Halfway(r, s, k)'
      BY <1>2, <1>6, <2>2, PcrAtWork DEF Halfway
    <3>2. QED
      BY <1>3, <1>6, <1>8, <2>1, <2>2, <3>1, RecordedElsewhere
  <2>3. CASE s = t /\ k = n /\ RecordedFor(s, k)
    <3>1. IF Second(r)
            THEN Leads(pcrs[t, n], IF pcr[r].kind = "update" THEN pcr[r].old[n] ELSE pcr[r].new)
            ELSE Leads(pcrs[t, n], creds[t, n])
      BY <1>1, <1>2, <1>6, <2>3, RecordedHere
    <3>2. ~Second(r) => pcr[r].old[n] = creds[t, n]
      BY <1>1, <1>2 DEF Unwritten, UnwrittenFor, Second
    <3>3. IF Second(r)'
            THEN Leads(pcrs'[t, n], IF work.kind = "update" THEN work.old[n] ELSE work.new)
            ELSE Leads(pcrs'[t, n], creds'[t, n])
      BY <1>2, <1>3, <1>5, <1>6, <1>7, <1>8, <3>1, <3>2
    <3>4. QED
      BY <1>1, <1>2, <1>6, <2>3, <3>3, RecordedHere
  <2>4. QED
    BY <1>3, <2>1, <2>2, <2>3
<1>16. CredTypeOK'
  BY <1>3, <1>8 DEF CredTypeOK
<1>17. QED
  BY <1>3, <1>9, <1>12, <1>13, <1>14, <1>15, <1>16, SeedingRests

LEMMA LogChangeStep ==
  ASSUME CredInv, NEW r \in PcrRequest, LogChange(r)
  PROVE  CredInv'
<1> USE DEF CredInv
<1>1. Writing(r) /\ Working(r) /\ ~Unused(r) /\ pcr[r] \in PcrWork /\ pcr[r].name \in Username
  BY WorkTyped DEF LogChange, Writing, Working, Unused
<1>2. PICK t \in CredTeam, n \in Username, w \in Password :
        t = pcr[r].team /\ n = pcr[r].name /\ w = pcr[r].new
  BY <1>1 DEF PcrWork
<1>3. PICK was : was = pcr[r].old[n]
  OBVIOUS
<1>4. pcrs' = [pcrs EXCEPT ![<<t, n>>] = Append(pcrs[t, n], [old |-> was, new |-> w])]
  BY <1>2, <1>3 DEF LogChange, CredTypeOK
<1>5. /\ GoOn(r, After(r))
      /\ UNCHANGED <<configured, teams, originals, creds, seeding, toSeed, toFill, wanted, grown,
                     seedings, credMutex, credHeld, credFatal, halfSeeded, torn, swapped>>
  BY DEF LogChange, seedVars, lockVars
<1>6. pcr[r].at = "log"
  BY DEF LogChange
<1>7. PICK where \in {"save", "next"} :
        where = After(r) /\ (where = "next" <=> pcr[r].kind = "update")
  BY <1>6 DEF After, First
<1>8. Second(r) <=> pcr[r].kind = "update"
  BY <1>6 DEF Second, Writing, First
<1>9. PICK work \in PcrWork :
        /\ OnlyPcrMoves(r, work) /\ work.at = where /\ work.kind = pcr[r].kind
        /\ work.team = pcr[r].team /\ work.names = pcr[r].names /\ work.name = pcr[r].name
        /\ work.old = pcr[r].old /\ work.mutex = pcr[r].mutex /\ work.new = pcr[r].new
  BY <1>1, <1>5, <1>7, GoesOn
<1>10. /\ ~Unused(r)' /\ Working(r)' /\ (Writing(r)' <=> where = "save")
      /\ (Second(r)' <=> pcr[r].kind # "update") /\ ~(Writing(r)' /\ First(r)')
  BY <1>7, <1>9, PcrAtWork
<1>11. /\ pcr'[r] = work /\ credMutex[t] # 0
       /\ pcr[r].names \subseteq DOMAIN pcr[r].old /\ n \in DOMAIN pcr[r].old \ pcr[r].names
       /\ pcr[r].old[n] # NoPassword /\ creds[t, n] # NoPassword
       /\ pcr[r].kind = "reset" => \A k \in pcr[r].names :
            creds[t, k] # NoPassword /\ pcr[r].old[k] # NoPassword
  BY <1>1, <1>2, <1>9 DEF RequestsOK, RequestOK, OnlyPcrMoves
<1>12. was \in Password
  <2>1. PICK names \in SUBSET Username : pcr[r].old \in [names -> Password \cup {NoPassword}]
    BY <1>1 DEF PcrWork, OldPasswords
  <2>2. n \in DOMAIN pcr[r].old /\ pcr[r].old[n] # NoPassword
    BY <1>11
  <2>3. QED
    BY <1>3, <2>1, <2>2
<1>13. /\ pcrs[t, n] \in Seq([old : Password, new : Password])
       /\ pcrs' \in [CredTeam \X Username -> Seq([old : Password, new : Password])]
       /\ pcrs'[t, n] = Append(pcrs[t, n], [old |-> was, new |-> w])
       /\ \A s \in CredTeam, k \in Username : s # t \/ k # n => pcrs'[s, k] = pcrs[s, k]
  <2>1. PICK line : line = [old |-> was, new |-> w]
    OBVIOUS
  <2>2. line \in [old : Password, new : Password]
    BY <1>12, <2>1
  <2>3. PICK Lines : Lines = Seq([old : Password, new : Password])
    OBVIOUS
  <2>4. pcrs \in [CredTeam \X Username -> Lines]
    BY <2>3 DEF CredTypeOK
  <2>5. PICK more \in Lines : more = Append(pcrs[t, n], line)
    BY <2>2, <2>3, <2>4, AppendProperties
  <2>6. pcrs' = [pcrs EXCEPT ![<<t, n>>] = more]
    BY <1>4, <2>1, <2>5
  <2>7. QED
    BY <2>1, <2>3, <2>4, <2>5, <2>6
<1>14. Writes(r)
  BY <1>5 DEF Writes, CredTypeOK
<1>15. RequestOK(r)'
  <2>1. credMutex' = credMutex /\ creds' = creds
    BY <1>5
  <2>2. QED
    BY <1>2, <1>9, <1>10, <1>11, <2>1 DEF RequestOK
<1>16. RequestsOK'
  BY <1>5, <1>9, <1>14, <1>15, RequestsMove
<1>17. Unwritten'
  <2>1. ASSUME ~swapped PROVE UnwrittenFor(r)'
    <3>1. pcr[r].kind = "reset" => \A k \in pcr[r].names : pcr[r].old[k] = creds[t, k]
      BY <1>1, <1>2, <2>1 DEF Unwritten, UnwrittenFor
    <3>2. QED
      <4>1. creds' = creds
        BY <1>5
      <4>2. QED
        BY <1>2, <1>9, <1>10, <1>11, <3>1, <4>1 DEF UnwrittenFor
  <2>2. QED
    BY <1>5, <1>9, <1>14, <2>1, UnwrittenMoves
<1>18. Owned'
  BY <1>1, <1>5, <1>9, OwnedStays
<1>19. Recorded'
  <2> SUFFICES ASSUME ~swapped, NEW s \in CredTeam, NEW k \in Username
               PROVE  <<s, k>> \in torn' \/ RecordedFor(s, k)'
    BY <1>5 DEF Recorded
  <2>1. <<s, k>> \in torn \/ RecordedFor(s, k)
    BY DEF Recorded
  <2>2. CASE s # t \/ k # n
    <3>1. ~Halfway(r, s, k) /\ ~Halfway(r, s, k)'
      BY <1>2, <1>9, <2>2, PcrAtWork DEF Halfway
    <3>2. QED
      BY <1>5, <1>9, <1>13, <2>1, <2>2, <3>1, RecordedElsewhere
  <2>3. CASE s = t /\ k = n /\ RecordedFor(s, k)
    <3>1. IF Second(r)
            THEN Leads(pcrs[t, n], IF pcr[r].kind = "update" THEN pcr[r].old[n] ELSE pcr[r].new)
            ELSE Leads(pcrs[t, n], creds[t, n])
      BY <1>1, <1>2, <1>9, <2>3, RecordedHere
    <3>2. /\ Second(r) => creds[t, n] = w
          /\ ~Second(r) => was = creds[t, n]
      <4>1. UnwrittenFor(r)
        BY DEF Unwritten
      <4>2. Second(r) => creds[t, n] = w
        BY <1>2, <1>8, <4>1 DEF UnwrittenFor
      <4>3. ~Second(r) => was = creds[t, n]
        BY <1>1, <1>2, <1>3, <4>1 DEF UnwrittenFor, Second
      <4>4. QED
        BY <4>2, <4>3
    <3>3. Leads(pcrs[t, n], was)
      BY <1>3, <1>8, <3>1, <3>2
    <3>4. Leads(pcrs'[t, n], w)
      <4>1. Leads(Append(pcrs[t, n], [old |-> was, new |-> w]), w)
        BY <1>12, <1>13, <3>3, LeadsOn
      <4>2. pcrs'[t, n] = Append(pcrs[t, n], [old |-> was, new |-> w])
        BY <1>13
      <4>3. QED
        BY <4>1, <4>2
    <3>5. IF Second(r)'
            THEN Leads(pcrs'[t, n], IF work.kind = "update" THEN work.old[n] ELSE work.new)
            ELSE Leads(pcrs'[t, n], creds'[t, n])
      <4>1. CASE Second(r)
        <5>1. ~Second(r)' /\ creds'[t, n] = w
          BY <1>5, <1>8, <1>10, <3>2, <4>1
        <5>2. QED
          BY <3>4, <5>1
      <4>2. CASE ~Second(r)
        <5>1. Second(r)' /\ work.kind # "update" /\ work.new = w
          BY <1>2, <1>8, <1>9, <1>10, <4>2
        <5>2. QED
          BY <3>4, <5>1
      <4>3. QED
        BY <4>1, <4>2
    <3>6. QED
      BY <1>1, <1>2, <1>9, <2>3, <3>5, RecordedHere
  <2>4. QED
    BY <1>5, <2>1, <2>2, <2>3
<1>20. CredTypeOK'
  BY <1>5, <1>13 DEF CredTypeOK
<1>21. QED
  BY <1>5, <1>14, <1>16, <1>17, <1>18, <1>19, <1>20, SeedingRests

LEMMA StatementFailsStep ==
  ASSUME CredInv, NEW r \in PcrRequest, StatementFails(r)
  PROVE  CredInv'
<1> USE DEF CredInv
<1>1. pcr[r].at \in {"save", "log"}
  BY DEF StatementFails
<1>2. Writing(r) /\ Working(r) /\ ~Unused(r) /\ pcr[r] \in PcrWork /\ pcr[r].name \in Username
  BY <1>1, WorkTyped DEF Writing, Working, Unused
<1>3. PICK t \in CredTeam, n \in Username : t = pcr[r].team /\ n = pcr[r].name
  BY <1>2 DEF PcrWork
<1>4. torn' = IF First(r) THEN torn ELSE torn \cup {<<t, n>>}
  BY <1>3 DEF StatementFails
<1>5. /\ GoOn(r, "unlock")
      /\ UNCHANGED <<configured, teams, originals, creds, pcrs, seeding, toSeed, toFill, wanted, grown,
                     seedings, credMutex, credHeld, credFatal, halfSeeded, swapped>>
  BY DEF StatementFails, rowVars, seedVars, lockVars
<1>6. PICK work \in PcrWork :
        /\ OnlyPcrMoves(r, work) /\ work.at = "unlock" /\ work.kind = pcr[r].kind
        /\ work.team = pcr[r].team /\ work.names = pcr[r].names /\ work.name = pcr[r].name
        /\ work.old = pcr[r].old /\ work.mutex = pcr[r].mutex /\ work.new = pcr[r].new
  BY <1>2, <1>5, GoesOn
<1>7. ~Unused(r)' /\ Working(r)' /\ ~Writing(r)' /\ ~Second(r)'
  BY <1>6, PcrAtWork
<1>8. Writes(r)
  BY <1>5 DEF Writes, CredTypeOK
<1>9. /\ pcr'[r] = work /\ credMutex[t] # 0 /\ pcr[r].names \subseteq DOMAIN pcr[r].old
      /\ pcr[r].kind = "reset" => \A k \in pcr[r].names :
           creds[t, k] # NoPassword /\ pcr[r].old[k] # NoPassword
  BY <1>2, <1>3, <1>6 DEF RequestsOK, RequestOK, OnlyPcrMoves
<1>10. RequestOK(r)'
  BY <1>3, <1>5, <1>6, <1>7, <1>9 DEF RequestOK
<1>11. RequestsOK'
  BY <1>5, <1>6, <1>8, <1>10, RequestsMove
<1>12. Unwritten'
  <2>1. ASSUME ~swapped PROVE UnwrittenFor(r)'
    <3>1. pcr[r].kind = "reset" => \A k \in pcr[r].names : pcr[r].old[k] = creds[t, k]
      BY <1>2, <1>3, <2>1 DEF Unwritten, UnwrittenFor
    <3>2. QED
      BY <1>3, <1>5, <1>6, <1>7, <1>9, <3>1 DEF UnwrittenFor
  <2>2. QED
    BY <1>5, <1>6, <1>8, <2>1, UnwrittenMoves
<1>13. Owned'
  BY <1>2, <1>5, <1>6, OwnedStays
<1>14. Recorded'
  <2> SUFFICES ASSUME ~swapped, NEW s \in CredTeam, NEW k \in Username
               PROVE  <<s, k>> \in torn' \/ RecordedFor(s, k)'
    BY <1>5 DEF Recorded
  <2>1. <<s, k>> \in torn \/ RecordedFor(s, k)
    BY DEF Recorded
  <2>2. (Halfway(r, s, k) => <<s, k>> \in torn') /\ ~Halfway(r, s, k)' /\ torn \subseteq torn'
    BY <1>3, <1>4, <1>7 DEF Halfway, Second
  <2>3. QED
    BY <1>5, <1>6, <2>1, <2>2, RecordedElsewhere
<1>15. CredTypeOK'
  <2>1. torn' \subseteq CredTeam \X Username
    BY <1>4 DEF CredTypeOK
  <2>2. QED
    BY <1>5, <2>1 DEF CredTypeOK
<1>16. QED
  BY <1>5, <1>8, <1>11, <1>12, <1>13, <1>14, <1>15, SeedingRests

LEMMA ReleaseMutexStep ==
  ASSUME CredInv, NEW r \in PcrRequest, ReleaseMutex(r)
  PROVE  CredInv'
<1> USE DEF CredInv
<1>1. pcr[r].at \in {"unlock", "next"}
  BY DEF ReleaseMutex
<1>2. Working(r) /\ ~Writing(r) /\ ~Second(r)
  BY <1>1 DEF Writing, Working, Second
<1>3. /\ credHeld' = credHeld \ {pcr[r].mutex} /\ credFatal' = (pcr[r].mutex \notin credHeld)
      /\ pcr' = [pcr EXCEPT ![r] = NoPcr]
      /\ UNCHANGED <<configured, teams, originals, creds, pcrs, seeding, toSeed, toFill, wanted, grown,
                     seedings, credMutex, halfSeeded, torn, swapped>>
  BY DEF ReleaseMutex, rowVars, seedVars
<1>4. OnlyPcrMoves(r, NoPcr)
  BY <1>3, PcrMovesTo
<1>5. Unused(r)' /\ ~Working(r)' /\ ~Writing(r)' /\ ~Second(r)'
  BY <1>4, PcrAtWork DEF NoPcr
<1>6. Writes(r)
  BY <1>3 DEF Writes, CredTypeOK
<1>7. RequestsOK'
  BY <1>3, <1>4, <1>5, <1>6, RequestsMove DEF RequestOK
<1>8. Unwritten'
  BY <1>3, <1>4, <1>5, <1>6, UnwrittenMoves DEF UnwrittenFor
<1>9. Owned'
  <2> SUFFICES ASSUME ~swapped PROVE Owned'
    BY <1>3 DEF Owned
  <2>1. ASSUME NEW q \in PcrRequest, q # r
        PROVE  /\ pcr'[q] = pcr[q] /\ (Unused(q)' <=> Unused(q)) /\ (Working(q)' <=> Working(q))
               /\ Working(q) => pcr[q].mutex # pcr[r].mutex /\ pcr[q].mutex \in credHeld
    <3>1. pcr'[q] = pcr[q] /\ (Unused(q)' <=> Unused(q)) /\ (Working(q)' <=> Working(q))
      BY <1>4, <2>1, OthersStay DEF OnlyPcrMoves
    <3>2. ASSUME Working(q) PROVE pcr[q].mutex # pcr[r].mutex /\ pcr[q].mutex \in credHeld
      <4>1. ~Unused(q) /\ ~Unused(r) /\ pcr[q].team # pcr[r].team
        BY <1>2, <2>1, <3>2, WorkTyped DEF Owned
      <4>2. /\ pcr[q].mutex = <<pcr[q].team, credMutex[pcr[q].team]>>
            /\ pcr[r].mutex = <<pcr[r].team, credMutex[pcr[r].team]>>
        BY <4>1 DEF Owned
      <4>3. QED
        BY <3>2, <4>1, <4>2 DEF Owned
    <3>3. QED
      BY <3>1, <3>2
  <2>2. pcr[r].mutex \in credHeld
    BY <1>2 DEF Owned
  <2>3. ~credFatal'
    BY <1>3, <2>2
  <2>4. credMutex' = credMutex /\ \A m \in credHeld : m # pcr[r].mutex => m \in credHeld'
    BY <1>3
  <2>5. QED
    BY <1>5, <2>1, <2>3, <2>4 DEF Owned
<1>10. Recorded'
  <2> SUFFICES ASSUME ~swapped, NEW t \in CredTeam, NEW n \in Username
               PROVE  <<t, n>> \in torn' \/ RecordedFor(t, n)'
    BY <1>3 DEF Recorded
  <2>1. <<t, n>> \in torn \/ RecordedFor(t, n)
    BY DEF Recorded
  <2>2. ~Halfway(r, t, n) /\ ~Halfway(r, t, n)'
    BY <1>2, <1>5 DEF Halfway
  <2>3. QED
    BY <1>3, <1>4, <2>1, <2>2, RecordedElsewhere
<1>11. CredTypeOK'
  BY <1>3 DEF CredTypeOK
<1>12. QED
  BY <1>3, <1>6, <1>7, <1>8, <1>9, <1>10, <1>11, SeedingRests

-----------------------------------------------------------------------------
(* The steps of the seeding *)

LEMMA MakeMutexesStep ==
  ASSUME CredInv, MakeMutexes
  PROVE  CredInv'
<1> USE DEF CredInv
<1>1. /\ seeding = "mutexes" /\ seeding' = "check" /\ toSeed' = {} /\ toFill' = {}
      /\ wanted' = (UNION configured) \ grown
      /\ swapped' = (swapped \/ \E r \in PcrRequest : pcr[r].at # "idle")
      /\ UNCHANGED <<configured, teams, originals, creds, pcrs, grown, seedings, credHeld, pcr,
                     credFatal, halfSeeded, torn>>
  BY DEF MakeMutexes, SeedTo, rowVars
<1>2. /\ credMutex' \in [CredTeam -> 0 .. MaxSeedings]
      /\ \A t \in CredTeam : credMutex[t] # 0 => credMutex'[t] # 0
  <2>1. seedings \in 0 .. MaxSeedings /\ seedings # 0
    BY Constants DEF SeedingOK
  <2>2. QED
    BY <2>1 DEF MakeMutexes, CredTypeOK
<1>3. \A r \in PcrRequest :
        /\ (Unused(r)' <=> Unused(r)) /\ (Working(r)' <=> Working(r))
        /\ (Writing(r)' <=> Writing(r)) /\ (First(r)' <=> First(r))
        /\ (Second(r)' <=> Second(r)) /\ \A t, n : Halfway(r, t, n)' <=> Halfway(r, t, n)
  BY <1>1, OthersStay
<1>4. ~swapped' => ~swapped /\ \A r \in PcrRequest : Unused(r)
  BY <1>1 DEF Unused
<1>5. RequestsOK'
  <2>1. \A r \in PcrRequest : RequestOK(r)'
    <3> SUFFICES ASSUME NEW r \in PcrRequest, ~Unused(r) PROVE RequestOK(r)'
      BY <1>3 DEF RequestOK
    <3>1. RequestOK(r) /\ pcr[r].team \in CredTeam
      BY WorkTyped DEF RequestsOK, PcrWork
    <3>2. QED
      BY <1>1, <1>2, <1>3, <3>1 DEF RequestOK
  <2>2. QED
    BY <1>1, <2>1 DEF RequestsOK
<1>6. Owned' /\ Unwritten'
  <2> SUFFICES ASSUME ~swapped' PROVE Owned' /\ Unwritten'
    BY DEF Owned, Unwritten
  <2>1. ~credFatal'
    BY <1>1, <1>4 DEF Owned
  <2>2. \A r \in PcrRequest : Unused(r)' /\ ~Working(r)' /\ ~Writing(r)' /\ ~Second(r)'
    BY <1>3, <1>4, WorkTyped DEF Second
  <2>3. QED
    BY <2>1, <2>2 DEF Owned, Unwritten, UnwrittenFor
<1>7. Recorded'
  <2> SUFFICES ASSUME ~swapped, NEW t \in CredTeam, NEW n \in Username, <<t, n>> \notin torn
               PROVE  RecordedFor(t, n)'
    BY <1>1, <1>4 DEF Recorded
  <2>1. Changing(t, n)' <=> Changing(t, n)
    BY <1>1 DEF Changing, First
  <2>2. RecordedFor(t, n)
    BY DEF Recorded
  <2>3. QED
    BY <1>1, <1>3, <2>1, <2>2 DEF RecordedFor
<1>8. CredTypeOK' /\ SeedingOK' /\ Listed'
  <2>1. wanted' \subseteq Username
    BY <1>1, Constants DEF CredTypeOK
  <2>2. wanted' \subseteq UNION configured /\ wanted' \cap grown = {}
    <3>1. wanted' = (UNION configured) \ grown
      BY <1>1
    <3>2. QED
      BY ONLY <3>1
  <2>3. Listed'
    BY <1>1, <2>2 DEF Listed, Disjoint
  <2>4. QED
    BY <1>1, <1>2, <2>1, <2>3 DEF CredTypeOK, SeedingOK
<1>9. Copied' /\ Whole' /\ Visited'
  BY <1>1 DEF Copied, Whole, Visited
<1>10. Filled'
  BY <1>1 DEF Filled, HasNothing, Full
<1>11. QED
  BY <1>5, <1>6, <1>7, <1>8, <1>9, <1>10

\* All of a list's originals, or some and an error.
LEMMA OriginalsSeeded ==
  ASSUME CredTypeOK, Listed, Whole, NEW list \in toSeed, NEW next, NEW some,
         SeedOriginals(list, next, some), UNCHANGED <<configured, wanted, grown>>
  PROVE  /\ originals \subseteq originals' /\ originals' \subseteq Username /\ Whole' /\ Listed'
         /\ \/ /\ list \subseteq originals' /\ SeedTo(next, toSeed \ {list}, some)
               /\ halfSeeded' = halfSeeded
            \/ /\ SeedTo("done", {}, {})
               /\ ~halfSeeded' => ~halfSeeded /\ originals' = originals
<1>1. PICK done \in SUBSET (list \ originals) :
        /\ originals' = originals \cup done
        /\ IF list \subseteq originals'
             THEN SeedTo(next, toSeed \ {list}, some) /\ UNCHANGED <<halfSeeded, credEvents>>
             ELSE /\ CredEvent /\ SeedTo("done", {}, {})
                  /\ halfSeeded' = (halfSeeded \/ done # {})
  BY DEF SeedOriginals
<1>2. list \in configured /\ list \subseteq Username
  BY Constants DEF CredTypeOK
<1>3. \/ /\ list \subseteq originals' /\ SeedTo(next, toSeed \ {list}, some)
         /\ halfSeeded' = halfSeeded
      \/ /\ SeedTo("done", {}, {})
         /\ ~halfSeeded' => ~halfSeeded /\ originals' = originals
  <2>1. CASE list \subseteq originals'
    BY <1>1, <2>1
  <2>2. CASE ~(list \subseteq originals')
    <3>1. SeedTo("done", {}, {}) /\ halfSeeded' = (halfSeeded \/ done # {})
      BY <1>1, <2>2
    <3>2. done = {} => originals' = originals
      BY <1>1
    <3>3. QED
      BY <3>1, <3>2
  <2>3. QED
    BY <2>1, <2>2
<1>4. Whole'
  <2> SUFFICES ASSUME ~halfSeeded', NEW other \in configured
               PROVE  other \cap originals' = {} \/ other \ grown \subseteq originals'
    BY DEF Whole
  <2>1. ~halfSeeded
    BY <1>3
  <2>2. other \cap originals = {} \/ other \ grown \subseteq originals
    BY <2>1 DEF Whole
  <2>3. CASE other = list
    BY <1>3, <2>2, <2>3
  <2>4. CASE other # list
    <3>1. other \cap list = {}
      BY <1>2, <2>4 DEF Listed, Disjoint
    <3>2. QED
      BY <1>1, <2>2, <3>1
  <2>5. QED
    BY <2>3, <2>4
<1>5. Listed'
  BY <1>1, <1>2 DEF Listed
<1>6. QED
  BY <1>1, <1>2, <1>3, <1>4, <1>5 DEF CredTypeOK

\* A row of the team for every original there is, or for some and an error.
LEMMA TeamFilled ==
  ASSUME CredTypeOK, NEW t \in toFill, NEW next, FillTeam(t, next)
  PROVE  /\ creds' \in [CredTeam \X Username -> Password \cup {NoPassword}]
         /\ \A s \in CredTeam, n \in Username :
              creds'[s, n] = creds[s, n] \/ (/\ s = t /\ n \in originals
                                             /\ creds[s, n] = NoPassword /\ creds'[s, n] = Original)
         /\ \/ /\ \A n \in originals : creds'[t, n] # NoPassword
               /\ SeedTo(next, toSeed, toFill \ {t}) /\ halfSeeded' = halfSeeded
            \/ /\ SeedTo("done", {}, {})
               /\ ~halfSeeded' => ~halfSeeded /\ seeding # "spread" /\ creds' = creds
<1>1. PICK done \in SUBSET originals :
        /\ creds' = [c \in DOMAIN creds |->
                       IF c[1] = t /\ c[2] \in done
                         THEN FirstOrCreated(creds[c], Original) ELSE creds[c]]
        /\ IF done = originals
             THEN SeedTo(next, toSeed, toFill \ {t}) /\ UNCHANGED <<halfSeeded, credEvents>>
             ELSE /\ CredEvent /\ SeedTo("done", {}, {})
                  /\ halfSeeded' = (halfSeeded \/ done # {} \/ seeding = "spread")
  BY DEF FillTeam
<1>2. t \in CredTeam /\ originals \subseteq Username
  BY DEF CredTypeOK
<1>3. creds' \in [CredTeam \X Username -> Password \cup {NoPassword}]
  BY <1>1, Constants DEF CredTypeOK, FirstOrCreated
<1>4. \A s \in CredTeam, n \in Username :
        creds'[s, n] = IF s = t /\ n \in done THEN FirstOrCreated(creds[s, n], Original)
                                              ELSE creds[s, n]
  BY <1>1 DEF CredTypeOK
<1>5. CASE done = originals
  <2>1. \A n \in originals : creds'[t, n] # NoPassword
    BY <1>2, <1>4, <1>5, Constants DEF FirstOrCreated
  <2>2. SeedTo(next, toSeed, toFill \ {t}) /\ halfSeeded' = halfSeeded
    BY <1>1, <1>5
  <2>3. QED
    BY <1>3, <1>4, <2>1, <2>2 DEF FirstOrCreated
<1>6. CASE done # originals
  <2>1. SeedTo("done", {}, {}) /\ halfSeeded' = (halfSeeded \/ done # {} \/ seeding = "spread")
    BY <1>1, <1>6
  <2>2. done = {} => creds' = creds
    <3>1. ASSUME done = {} PROVE \A c \in CredTeam \X Username : creds'[c] = creds[c]
      BY <1>1, <3>1 DEF CredTypeOK
    <3>2. QED
      BY <1>3, <3>1 DEF CredTypeOK
  <2>3. QED
    BY <1>3, <1>4, <2>1, <2>2 DEF FirstOrCreated
<1>7. QED
  BY <1>5, <1>6

\* A team is filled, or its seeding fails.
LEMMA FillTeamStep ==
  ASSUME CredInv, seeding \in {"teams", "newTeams", "spread"}, NEW t \in toFill,
         FillTeam(t, seeding),
         UNCHANGED <<configured, teams, originals, pcrs, wanted, grown, seedings, credMutex, credHeld,
                     pcr, credFatal, torn, swapped>>
  PROVE  CredInv'
<1> USE DEF CredInv
<1>1. /\ creds' \in [CredTeam \X Username -> Password \cup {NoPassword}]
      /\ \A s \in CredTeam, n \in Username :
           creds'[s, n] = creds[s, n] \/ (/\ s = t /\ n \in originals
                                          /\ creds[s, n] = NoPassword /\ creds'[s, n] = Original)
      /\ \/ /\ \A n \in originals : creds'[t, n] # NoPassword
            /\ SeedTo(seeding, toSeed, toFill \ {t}) /\ halfSeeded' = halfSeeded
         \/ /\ SeedTo("done", {}, {})
            /\ ~halfSeeded' => ~halfSeeded /\ seeding # "spread" /\ creds' = creds
  BY TeamFilled
<1>2. t \in teams /\ t \in CredTeam /\ teams \subseteq CredTeam /\ originals \subseteq Username
  BY DEF CredTypeOK
<1>3. RequestsOK' /\ Owned' /\ Unwritten' /\ Recorded'
  BY <1>1, RequestsRest
<1>4. Copied' /\ Whole' /\ Listed'
  <2>1. Copied'
    BY <1>1, <1>2 DEF Copied
  <2>2. ~halfSeeded' => ~halfSeeded
    BY <1>1
  <2>3. Listed'
    BY <1>1 DEF Listed
  <2>4. QED
    BY <1>1, <2>1, <2>2, <2>3 DEF Whole
<1>5. CASE /\ \A n \in originals : creds'[t, n] # NoPassword
           /\ SeedTo(seeding, toSeed, toFill \ {t}) /\ halfSeeded' = halfSeeded
  <2>1. seeding' = seeding /\ toSeed' = toSeed /\ toFill' = toFill \ {t} /\ halfSeeded' = halfSeeded
    BY <1>5 DEF SeedTo
  <2>2. CredTypeOK' /\ SeedingOK' /\ Visited'
    BY <1>1, <2>1 DEF CredTypeOK, SeedingOK, Visited
  <2>3. Full(t)'
    BY <1>5 DEF Full
  <2>4. \A s \in teams : s # t => (HasNothing(s) => HasNothing(s)') /\ (Full(s) => Full(s)')
    BY <1>1, <1>2 DEF HasNothing, Full
  <2>5. Filled'
    <3> SUFFICES ASSUME ~halfSeeded
                 PROVE  /\ seeding # "spread" => \A s \in teams : HasNothing(s)' \/ Full(s)'
                        /\ \A s \in teams \ toFill' : Full(s)'
      BY <2>1 DEF Filled
    <3>1. \A s \in teams \ toFill : Full(s)
      BY DEF Filled
    <3>2. seeding # "spread" => \A s \in teams : HasNothing(s) \/ Full(s)
      BY DEF Filled
    <3>3. QED
      BY <2>1, <2>3, <2>4, <3>1, <3>2
  <2>6. QED
    BY <1>3, <1>4, <2>2, <2>5
<1>6. CASE /\ SeedTo("done", {}, {})
           /\ ~halfSeeded' => ~halfSeeded /\ seeding # "spread" /\ creds' = creds
  <2>1. seeding' = "done" /\ toSeed' = {} /\ toFill' = {}
    BY <1>6 DEF SeedTo
  <2>2. CredTypeOK' /\ SeedingOK' /\ Visited'
    BY <1>1, <2>1 DEF CredTypeOK, SeedingOK, Visited
  <2>3. Filled'
    BY <1>6, <2>1, ZenonT(30) DEF Filled, HasNothing, Full
  <2>4. QED
    BY <1>3, <1>4, <2>2, <2>3
<1>7. QED
  BY <1>1, <1>5, <1>6

\* The originals of a list are seeded, or their seeding fails.
LEMMA SeedListStep ==
  ASSUME CredInv, NEW list \in toSeed, NEW next, NEW some,
         \/ seeding = "originals" /\ next = "originals" /\ some = {}
         \/ seeding = "newLists" /\ next = "spread" /\ some = teams,
         SeedOriginals(list, next, some),
         UNCHANGED <<configured, teams, creds, pcrs, wanted, grown, seedings, credMutex, credHeld, pcr,
                     credFatal, torn, swapped>>
  PROVE  CredInv'
<1> USE DEF CredInv
<1>1. /\ originals \subseteq originals' /\ originals' \subseteq Username /\ Whole' /\ Listed'
      /\ \/ /\ list \subseteq originals' /\ SeedTo(next, toSeed \ {list}, some)
            /\ halfSeeded' = halfSeeded
         \/ /\ SeedTo("done", {}, {})
            /\ ~halfSeeded' => ~halfSeeded /\ originals' = originals
  BY OriginalsSeeded
<1>2. RequestsOK' /\ Owned' /\ Unwritten' /\ Recorded'
  BY RequestsRest
<1>3. Copied'
  BY <1>1 DEF Copied
<1>4. CASE /\ list \subseteq originals' /\ SeedTo(next, toSeed \ {list}, some)
           /\ halfSeeded' = halfSeeded
  <2>1. /\ seeding' = next /\ toSeed' = toSeed \ {list} /\ toFill' = some
        /\ halfSeeded' = halfSeeded
    BY <1>4 DEF SeedTo
  <2>2. CredTypeOK' /\ SeedingOK'
    BY <1>1, <2>1 DEF CredTypeOK, SeedingOK
  <2>3. Visited'
    <3>1. ASSUME NEW n \in UNION toSeed, n \notin list PROVE n \in UNION toSeed'
      <4>1. PICK other \in toSeed : n \in other
        OBVIOUS
      <4>2. other \in toSeed'
        BY <2>1, <3>1, <4>1
      <4>3. QED
        BY <4>1, <4>2
    <3>2. ~halfSeeded => wanted \subseteq originals' \cup UNION toSeed'
      <4>1. ~halfSeeded => wanted \subseteq originals \cup UNION toSeed
        BY DEF Visited
      <4>2. originals \subseteq originals' /\ list \subseteq originals'
        BY <1>1, <1>4
      <4>3. QED
        BY <3>1, <4>1, <4>2
    <3>3. seeding' # "teams" /\ wanted' = wanted
      BY <2>1
    <3>4. QED
      BY <2>1, <3>2, <3>3 DEF Visited
  <2>4. Filled'
    <3>1. CASE seeding = "originals" /\ next = "originals" /\ some = {}
      BY <2>1, <3>1 DEF Filled, HasNothing
    <3>2. CASE seeding = "newLists" /\ next = "spread" /\ some = teams
      BY <2>1, <3>2 DEF Filled
    <3>3. QED
      BY <3>1, <3>2
  <2>5. QED
    BY <1>1, <1>2, <1>3, <2>2, <2>3, <2>4
<1>5. CASE SeedTo("done", {}, {}) /\ (~halfSeeded' => ~halfSeeded /\ originals' = originals)
  <2>1. seeding' = "done" /\ toSeed' = {} /\ toFill' = {}
    BY <1>5 DEF SeedTo
  <2>2. CredTypeOK' /\ SeedingOK' /\ Visited'
    BY <1>1, <2>1 DEF CredTypeOK, SeedingOK, Visited
  <2>3. Filled'
    BY <1>5, <2>1 DEF Filled, HasNothing, Full
  <2>4. QED
    BY <1>1, <1>2, <1>3, <2>2, <2>3
<1>6. QED
  BY <1>1, <1>4, <1>5

\* A step that only moves the seeding on.
LEMMA SeedingMoves ==
  ASSUME CredInv, UNCHANGED <<configured, teams, originals, creds, pcrs, wanted, grown, credMutex,
                           credHeld, pcr, credFatal, halfSeeded, torn, swapped>>,
         toSeed' \subseteq configured, toFill' \subseteq teams, SeedingOK', Filled', Visited'
  PROVE  CredInv'
<1> USE DEF CredInv
<1>1. RequestsOK' /\ Owned' /\ Unwritten' /\ Recorded'
  BY RequestsRest
<1>2. CredTypeOK' /\ Listed' /\ Copied' /\ Whole'
  BY DEF CredTypeOK, Listed, Copied, Whole
<1>3. QED
  BY <1>1, <1>2

LEMMA CheckSeededStep ==
  ASSUME CredInv, CheckSeeded
  PROVE  CredInv'
<1> USE DEF CredInv
<1>1. /\ UNCHANGED <<configured, teams, originals, creds, pcrs, wanted, grown, seedings, credMutex,
                     credHeld, pcr, credFatal, halfSeeded, torn, swapped>>
      /\ seeding = "check"
  BY DEF CheckSeeded, rowVars, lockVars
<1>2. \/ originals = {} /\ seeding' = "originals" /\ toSeed' = configured /\ toFill' = {}
      \/ seeding' = "newTeams" /\ toSeed' = {} /\ toFill' = teams
  BY DEF CheckSeeded, SeedTo
<1>3. SeedingOK'
  BY <1>1, <1>2 DEF SeedingOK
<1>4. Filled'
  <2>1. originals = {} => \A t \in teams : HasNothing(t)
    BY DEF Copied, CredTypeOK, HasNothing
  <2>2. \A t \in teams : (HasNothing(t)' <=> HasNothing(t)) /\ (Full(t)' <=> Full(t))
    BY <1>1 DEF HasNothing, Full
  <2>3. QED
    BY <1>1, <1>2, <2>1, <2>2 DEF Filled
<1>5. Visited'
  BY <1>1, <1>2 DEF Visited, Listed
<1>6. QED
  BY <1>1, <1>2, <1>3, <1>4, <1>5, SeedingMoves DEF CredTypeOK

LEMMA SeedFirstStep ==
  ASSUME CredInv, SeedFirst
  PROVE  CredInv'
<1> USE DEF CredInv
<1>1. /\ seeding = "originals"
      /\ UNCHANGED <<configured, teams, creds, pcrs, wanted, grown, seedings, credMutex, credHeld, pcr,
                     credFatal, torn, swapped>>
  BY DEF SeedFirst, lockVars
<1>2. CASE toSeed = {}
  <2>1. /\ seeding' = "teams" /\ toSeed' = {} /\ toFill' = teams
        /\ originals' = originals /\ halfSeeded' = halfSeeded
    BY <1>2 DEF SeedFirst, SeedTo
  <2>2. SeedingOK'
    BY <1>1, <2>1 DEF SeedingOK
  <2>3. Filled'
    BY <1>1, <2>1 DEF Filled, HasNothing
  <2>4. Visited'
    BY <1>1, <1>2, <2>1 DEF Visited
  <2>5. QED
    BY <1>1, <2>1, <2>2, <2>3, <2>4, SeedingMoves DEF CredTypeOK
<1>3. CASE toSeed # {}
  <2>1. PICK list \in toSeed : SeedOriginals(list, "originals", {})
    BY <1>3 DEF SeedFirst
  <2>2. QED
    BY <1>1, <2>1, SeedListStep
<1>4. QED
  BY <1>2, <1>3

LEMMA FillFirstStep ==
  ASSUME CredInv, FillFirst
  PROVE  CredInv'
<1> USE DEF CredInv
<1>1. /\ seeding = "teams"
      /\ UNCHANGED <<configured, teams, originals, pcrs, wanted, grown, seedings, credMutex, credHeld,
                     pcr, credFatal, torn, swapped>>
  BY DEF FillFirst, lockVars
<1>2. CASE toFill = {}
  <2>1. /\ seeding' = "done" /\ toSeed' = {} /\ toFill' = {}
        /\ creds' = creds /\ halfSeeded' = halfSeeded
    BY <1>2 DEF FillFirst, SeedTo
  <2>2. SeedingOK' /\ Visited'
    BY <1>1, <2>1 DEF SeedingOK, Visited
  <2>3. Filled'
    BY <1>1, <2>1 DEF Filled, HasNothing, Full
  <2>4. QED
    BY <1>1, <2>1, <2>2, <2>3, SeedingMoves DEF CredTypeOK
<1>3. CASE toFill # {}
  <2>1. PICK t \in toFill : FillTeam(t, "teams")
    BY <1>3 DEF FillFirst
  <2>2. QED
    BY <1>1, <2>1, FillTeamStep
<1>4. QED
  BY <1>2, <1>3

LEMMA FillNewTeamsStep ==
  ASSUME CredInv, FillNewTeams
  PROVE  CredInv'
<1> USE DEF CredInv
<1>1. /\ seeding = "newTeams"
      /\ UNCHANGED <<configured, teams, originals, pcrs, wanted, grown, seedings, credMutex, credHeld,
                     pcr, credFatal, torn, swapped>>
  BY DEF FillNewTeams, lockVars
<1>2. \/ /\ toFill = {} /\ SeedTo("newLists", configured, {})
         /\ creds' = creds /\ halfSeeded' = halfSeeded
      \/ \E t \in toFill :
           \/ FillTeam(t, "newTeams")
           \/ /\ ~HasNothing(t) /\ SeedTo("newTeams", {}, toFill \ {t})
              /\ creds' = creds /\ halfSeeded' = halfSeeded
  BY DEF FillNewTeams
<1>3. CASE /\ toFill = {} /\ SeedTo("newLists", configured, {})
           /\ creds' = creds /\ halfSeeded' = halfSeeded
  <2>1. /\ seeding' = "newLists" /\ toSeed' = configured /\ toFill' = {}
    BY <1>3 DEF SeedTo
  <2>2. SeedingOK'
    BY <1>1, <2>1 DEF SeedingOK
  <2>3. Visited'
    BY <1>1, <1>3, <2>1 DEF Visited, Listed
  <2>4. Filled'
    BY <1>1, <1>3, <2>1 DEF Filled, HasNothing, Full
  <2>5. QED
    BY <1>1, <1>3, <2>1, <2>2, <2>3, <2>4, SeedingMoves DEF CredTypeOK
<1>4. ASSUME NEW t \in toFill, FillTeam(t, "newTeams") PROVE CredInv'
  BY <1>1, <1>4, FillTeamStep
<1>5. ASSUME NEW t \in toFill, ~HasNothing(t), SeedTo("newTeams", {}, toFill \ {t}),
             creds' = creds, halfSeeded' = halfSeeded
      PROVE  CredInv'
  <2>1. seeding' = "newTeams" /\ toSeed' = {} /\ toFill' = toFill \ {t}
    BY <1>5 DEF SeedTo
  <2>2. SeedingOK' /\ Visited'
    BY <1>1, <1>5, <2>1 DEF SeedingOK, Visited
  <2>3. \A s \in teams : (HasNothing(s)' <=> HasNothing(s)) /\ (Full(s)' <=> Full(s))
    BY <1>1, <1>5 DEF HasNothing, Full
  <2>4. ~halfSeeded => Full(t)
    BY <1>1, <1>5 DEF Filled, CredTypeOK
  <2>5. Filled'
    BY <1>1, <1>5, <2>1, <2>3, <2>4 DEF Filled
  <2>6. QED
    BY <1>1, <1>5, <2>1, <2>2, <2>5, SeedingMoves DEF CredTypeOK
<1>6. QED
  BY <1>2, <1>3, <1>4, <1>5

LEMMA SeedNewListsStep ==
  ASSUME CredInv, SeedNewLists
  PROVE  CredInv'
<1> USE DEF CredInv
<1>1. /\ seeding = "newLists"
      /\ UNCHANGED <<configured, teams, creds, pcrs, wanted, grown, seedings, credMutex, credHeld, pcr,
                     credFatal, torn, swapped>>
  BY DEF SeedNewLists, lockVars
<1>2. \/ /\ toSeed = {} /\ SeedTo("done", {}, {})
         /\ originals' = originals /\ halfSeeded' = halfSeeded
      \/ \E list \in toSeed :
           \/ SeedOriginals(list, "spread", teams)
           \/ /\ list \cap originals # {} /\ SeedTo("newLists", toSeed \ {list}, {})
              /\ originals' = originals /\ halfSeeded' = halfSeeded
  BY DEF SeedNewLists
<1>3. CASE /\ toSeed = {} /\ SeedTo("done", {}, {})
           /\ originals' = originals /\ halfSeeded' = halfSeeded
  <2>1. seeding' = "done" /\ toSeed' = {} /\ toFill' = {}
    BY <1>3 DEF SeedTo
  <2>2. SeedingOK' /\ Visited'
    BY <1>1, <1>3, <2>1 DEF SeedingOK, Visited
  <2>3. Filled'
    BY <1>1, <1>3, <2>1 DEF Filled, Full
  <2>4. QED
    BY <1>1, <1>3, <2>1, <2>2, <2>3, SeedingMoves DEF CredTypeOK
<1>4. ASSUME NEW list \in toSeed, SeedOriginals(list, "spread", teams) PROVE CredInv'
  BY <1>1, <1>4, SeedListStep
<1>5. ASSUME NEW list \in toSeed, list \cap originals # {},
             SeedTo("newLists", toSeed \ {list}, {}), originals' = originals,
             halfSeeded' = halfSeeded
      PROVE  CredInv'
  <2>1. seeding' = "newLists" /\ toSeed' = toSeed \ {list} /\ toFill' = {}
    BY <1>5 DEF SeedTo
  <2>2. SeedingOK'
    BY <1>1, <2>1 DEF SeedingOK
  <2>3. Filled'
    BY <1>1, <1>5, <2>1 DEF Filled, Full, HasNothing
  <2>4. Visited'
    <3> SUFFICES ASSUME ~halfSeeded, NEW n \in wanted, n \notin originals
                 PROVE  n \in UNION toSeed'
      BY <1>1, <1>5, <2>1 DEF Visited
    <3>1. PICK other \in toSeed : n \in other
      BY <1>1 DEF Visited
    <3>2. list \ grown \subseteq originals
      BY <1>5 DEF Whole, CredTypeOK
    <3>3. n \notin list
      BY <3>2 DEF Listed
    <3>4. other \in toSeed'
      BY <2>1, <3>1, <3>3
    <3>5. QED
      BY <3>1, <3>4
  <2>5. QED
    BY <1>1, <1>5, <2>1, <2>2, <2>3, <2>4, SeedingMoves DEF CredTypeOK
<1>6. QED
  BY <1>2, <1>3, <1>4, <1>5

LEMMA SpreadNewListStep ==
  ASSUME CredInv, SpreadNewList
  PROVE  CredInv'
<1> USE DEF CredInv
<1>1. /\ seeding = "spread"
      /\ UNCHANGED <<configured, teams, originals, pcrs, wanted, grown, seedings, credMutex, credHeld,
                     pcr, credFatal, torn, swapped>>
  BY DEF SpreadNewList, lockVars
<1>2. CASE toFill = {}
  <2>1. /\ seeding' = "newLists" /\ toSeed' = toSeed /\ toFill' = {}
        /\ creds' = creds /\ halfSeeded' = halfSeeded
    BY <1>2 DEF SpreadNewList, SeedTo
  <2>2. SeedingOK'
    BY <1>1, <2>1 DEF SeedingOK
  <2>3. Filled'
    BY <1>1, <1>2, <2>1 DEF Filled, Full, HasNothing
  <2>4. Visited'
    BY <1>1, <2>1 DEF Visited
  <2>5. QED
    BY <1>1, <2>1, <2>2, <2>3, <2>4, SeedingMoves DEF CredTypeOK
<1>3. CASE toFill # {}
  <2>1. PICK t \in toFill : FillTeam(t, "spread")
    BY <1>3 DEF SpreadNewList
  <2>2. QED
    BY <1>1, <2>1, FillTeamStep
<1>4. QED
  BY <1>2, <1>3

LEMMA SeedAgainStep ==
  ASSUME CredInv, SeedAgain
  PROVE  CredInv'
<1> USE DEF CredInv
<1>1. /\ seeding = "done" /\ seedings < MaxSeedings /\ seedings' = seedings + 1
      /\ seeding' = "mutexes" /\ toSeed' = {} /\ toFill' = {}
      /\ UNCHANGED <<configured, teams, originals, creds, pcrs, wanted, grown, credMutex, credHeld, pcr,
                     credFatal, halfSeeded, torn, swapped>>
  BY DEF SeedAgain, SeedTo, rowVars, lockVars
<1>2. SeedingOK'
  BY <1>1, Constants DEF SeedingOK
<1>3. Filled' /\ Visited'
  BY <1>1 DEF Filled, Visited, HasNothing, Full
<1>4. QED
  BY <1>1, <1>2, <1>3, SeedingMoves DEF CredTypeOK

LEMMA SeedQueryFailsStep ==
  ASSUME CredInv, SeedQueryFails
  PROVE  CredInv'
<1> USE DEF CredInv
<1>1. /\ seeding # "spread" /\ seeding' = "done" /\ toSeed' = {} /\ toFill' = {}
      /\ UNCHANGED <<configured, teams, originals, creds, pcrs, wanted, grown, seedings, credMutex,
                     credHeld, pcr, credFatal, halfSeeded, torn, swapped>>
  BY DEF SeedQueryFails, SeedTo, rowVars, lockVars
<1>2. SeedingOK' /\ Filled' /\ Visited'
  BY <1>1 DEF SeedingOK, Filled, Visited, HasNothing, Full
<1>3. QED
  BY <1>1, <1>2, SeedingMoves DEF CredTypeOK

\* A step that changes the configured lists alone.
LEMMA ListsChange ==
  ASSUME CredInv, UNCHANGED <<teams, originals, creds, pcrs, seeding, toFill, wanted, seedings,
                           credMutex, credHeld, pcr, credFatal, halfSeeded, torn, swapped>>,
         configured' \subseteq Credlist, UNION configured \subseteq UNION configured',
         toSeed' \subseteq configured', UNION toSeed \subseteq UNION toSeed',
         grown' \subseteq Username, Disjoint(configured)', wanted \cap grown' = {}, Whole'
  PROVE  CredInv'
<1> USE DEF CredInv
<1>1. RequestsOK' /\ Owned' /\ Unwritten' /\ Recorded'
  BY RequestsRest
<1>2. CredTypeOK' /\ SeedingOK' /\ Listed'
  BY DEF CredTypeOK, SeedingOK, Listed
<1>3. Copied' /\ Filled' /\ Visited'
  BY DEF Copied, Filled, Visited, HasNothing, Full
<1>4. QED
  BY <1>1, <1>2, <1>3

LEMMA AddListStep ==
  ASSUME CredInv, AddList
  PROVE  CredInv'
<1> USE DEF CredInv
<1>1. PICK list \in Credlist : list \cap UNION configured = {} /\ configured' = configured \cup {list}
  BY DEF AddList
<1>2. UNCHANGED <<teams, originals, creds, pcrs, seeding, toSeed, toFill, wanted, grown, seedings,
                  credMutex, credHeld, pcr, credFatal, halfSeeded, torn, swapped>>
  BY DEF AddList, rowVars, seedVars, lockVars
<1>3. \A other \in configured : other \cap list = {}
  BY <1>1
<1>4. Disjoint(configured)'
  BY <1>1, <1>3 DEF Listed, Disjoint
<1>5. Whole'
  BY <1>1, <1>2 DEF Whole, Listed
<1>6. /\ configured' \subseteq Credlist /\ UNION configured \subseteq UNION configured'
      /\ toSeed' \subseteq configured' /\ UNION toSeed \subseteq UNION toSeed'
  BY <1>1, <1>2 DEF CredTypeOK
<1>7. grown' \subseteq Username /\ wanted \cap grown' = {}
  BY <1>2 DEF CredTypeOK, Listed
<1>8. QED
  BY <1>2, <1>4, <1>5, <1>6, <1>7, ListsChange

LEMMA GrowListStep ==
  ASSUME CredInv, GrowList
  PROVE  CredInv'
<1> USE DEF CredInv
<1>1. PICK list \in configured, more \in Credlist :
        /\ list \subseteq more /\ (more \ list) \cap UNION configured = {}
        /\ configured' = (configured \ {list}) \cup {more}
        /\ toSeed' = IF list \in toSeed THEN (toSeed \ {list}) \cup {more} ELSE toSeed
        /\ grown' = IF list \cap originals = {} THEN grown ELSE grown \cup (more \ list)
  BY DEF GrowList
<1>2. UNCHANGED <<teams, originals, creds, pcrs, seeding, toFill, wanted, seedings,
                  credMutex, credHeld, pcr, credFatal, halfSeeded, torn, swapped>>
  BY DEF GrowList, rowVars, lockVars
<1>3. \A other \in configured \ {list} : other \cap more = {}
  <2>1. ASSUME NEW other \in configured \ {list} PROVE other \cap list = {} /\ other \cap (more \ list) = {}
    BY <1>1 DEF Listed, Disjoint
  <2>2. QED
    BY <1>1, <2>1
<1>4. Disjoint(configured)'
  BY <1>1, <1>3 DEF Listed, Disjoint
<1>5. Whole'
  <2> SUFFICES ASSUME ~halfSeeded, NEW other \in configured'
               PROVE  other \cap originals = {} \/ other \ grown' \subseteq originals
    BY <1>2 DEF Whole
  <2>1. CASE other # more
    <3>1. other \in configured /\ grown \subseteq grown'
      BY <1>1, <2>1
    <3>2. QED
      BY <3>1 DEF Whole
  <2>2. CASE other = more
    <3>1. list \cap originals = {} \/ list \ grown \subseteq originals
      BY DEF Whole
    <3>2. (more \ list) \cap originals = {}
      BY <1>1 DEF Listed
    <3>3. QED
      BY <1>1, <2>2, <3>1, <3>2
  <2>3. QED
    BY <2>1, <2>2
<1>6. configured' \subseteq Credlist /\ toSeed' \subseteq configured'
  BY <1>1 DEF CredTypeOK
<1>7. UNION configured \subseteq UNION configured' /\ UNION toSeed \subseteq UNION toSeed'
  <2>1. ASSUME NEW n \in UNION configured PROVE n \in UNION configured'
    <3>1. PICK other \in configured : n \in other
      OBVIOUS
    <3>2. CASE other = list
      BY <1>1, <3>1, <3>2
    <3>3. CASE other # list
      BY <1>1, <3>1, <3>3
    <3>4. QED
      BY <3>2, <3>3
  <2>2. ASSUME NEW n \in UNION toSeed PROVE n \in UNION toSeed'
    <3>1. PICK other \in toSeed : n \in other
      OBVIOUS
    <3>2. CASE other = list
      BY <1>1, <3>1, <3>2
    <3>3. CASE other # list
      BY <1>1, <3>1, <3>3
    <3>4. QED
      BY <3>2, <3>3
  <2>3. QED
    BY <2>1, <2>2
<1>8. grown' \subseteq Username /\ wanted \cap grown' = {}
  <2>1. more \subseteq Username /\ wanted \cap (more \ list) = {}
    BY <1>1, Constants DEF Listed
  <2>2. QED
    BY <1>1, <2>1 DEF CredTypeOK, Listed
<1>9. QED
  BY <1>2, <1>4, <1>5, <1>6, <1>7, <1>8, ListsChange

-----------------------------------------------------------------------------
(* Crashes, and the whole *)

LEMMA CredCrashStep ==
  ASSUME CredInv, CredCrash
  PROVE  CredInv'
<1> USE DEF CredInv
<1>1. /\ seedings < MaxSeedings /\ seedings' = seedings + 1
      /\ seeding' = "mutexes" /\ toSeed' = {} /\ toFill' = {}
      /\ teams' \subseteq CredTeam /\ teams \subseteq teams'
      /\ credMutex' = [t \in CredTeam |-> 0] /\ credHeld' = {}
      /\ pcr' = [r \in PcrRequest |-> NoPcr]
      /\ halfSeeded' = (halfSeeded \/ seeding = "spread")
      /\ UNCHANGED <<configured, originals, creds, pcrs, wanted, grown, credFatal, swapped>>
  BY DEF CredCrash, SeedTo, rowVars
<1>2. torn' = torn \cup {<<pcr[r].team, pcr[r].name>> :
                          r \in {q \in PcrRequest : pcr[q].at \in {"save", "log"} /\ ~First(q)}}
  BY DEF CredCrash
<1>3. \A r \in PcrRequest : /\ Unused(r)' /\ ~Working(r)' /\ ~Writing(r)' /\ ~Second(r)'
                            /\ \A t, n : ~Halfway(r, t, n)'
  BY <1>1 DEF Unused, Working, Writing, Second, Halfway, NoPcr
<1>4. RequestsOK'
  BY <1>1, <1>3 DEF RequestsOK, RequestOK
<1>5. Owned' /\ Unwritten'
  BY <1>1, <1>3 DEF Owned, Unwritten, UnwrittenFor
<1>6. Recorded'
  <2> SUFFICES ASSUME ~swapped, NEW t \in CredTeam, NEW n \in Username, <<t, n>> \notin torn'
               PROVE  RecordedFor(t, n)'
    BY <1>1 DEF Recorded
  <2>1. ~Changing(t, n)
    BY <1>2 DEF Changing
  <2>2. Leads(pcrs[t, n], creds[t, n])
    BY <1>2, <2>1 DEF Recorded, RecordedFor
  <2>3. QED
    BY <1>1, <1>3, <2>2 DEF RecordedFor
<1>7. torn' \subseteq CredTeam \X Username
  <2>1. ASSUME NEW r \in PcrRequest, Writing(r)
        PROVE  pcr[r].team \in CredTeam /\ pcr[r].name \in Username
    BY <2>1, WorkTyped DEF PcrWork
  <2>2. QED
    BY <1>2, <2>1 DEF CredTypeOK, Writing
<1>8. CredTypeOK'
  <2>1. credMutex' \in [CredTeam -> 0 .. MaxSeedings] /\ credHeld' \subseteq CredTeam \X (1 .. MaxSeedings)
    BY <1>1, Constants
  <2>2. QED
    BY <1>1, <1>7, <2>1 DEF CredTypeOK
<1>9. SeedingOK' /\ Listed'
  BY <1>1, Constants DEF SeedingOK, Listed
<1>10. Copied' /\ Whole' /\ Visited'
  BY <1>1 DEF Copied, Whole, Visited
<1>11. Filled'
  <2> SUFFICES ASSUME ~halfSeeded', NEW t \in teams' PROVE HasNothing(t)' \/ Full(t)'
    BY <1>1 DEF Filled
  <2>1. ~halfSeeded /\ seeding # "spread"
    BY <1>1
  <2>2. CASE t \in teams
    BY <1>1, <2>1, <2>2 DEF Filled, HasNothing, Full
  <2>3. CASE t \notin teams
    BY <1>1, <2>3 DEF Copied, HasNothing
  <2>4. QED
    BY <2>2, <2>3
<1>12. QED
  BY <1>4, <1>5, <1>6, <1>8, <1>9, <1>10, <1>11

LEMMA CredInvInit ==
  ASSUME CredInit
  PROVE  CredInv
<1>1. /\ configured \subseteq Credlist /\ Disjoint(configured)
      /\ teams \subseteq CredTeam /\ originals = {} /\ grown = {}
      /\ creds = [c \in CredTeam \X Username |-> NoPassword]
      /\ pcrs = [c \in CredTeam \X Username |-> <<>>]
      /\ seeding = "mutexes" /\ toSeed = {} /\ toFill = {} /\ wanted = {} /\ seedings = 1
      /\ credMutex = [t \in CredTeam |-> 0] /\ credHeld = {}
      /\ pcr = [r \in PcrRequest |-> NoPcr] /\ credFatal = FALSE
      /\ halfSeeded = FALSE /\ torn = {} /\ swapped = FALSE
  BY DEF CredInit
<1>2. \A r \in PcrRequest : /\ Unused(r) /\ ~Working(r) /\ ~Writing(r) /\ ~Second(r)
                            /\ \A t, n : ~Halfway(r, t, n)
  BY <1>1 DEF Unused, Working, Writing, Second, Halfway, NoPcr
<1>3. CredTypeOK
  <2>1. pcrs \in [CredTeam \X Username -> Seq([old : Password, new : Password])]
    BY <1>1
  <2>2. QED
    BY <1>1, <2>1, Constants DEF CredTypeOK
<1>4. RequestsOK /\ SeedingOK /\ Listed
  <2>1. RequestsOK
    BY <1>1, <1>2 DEF RequestsOK, RequestOK
  <2>2. SeedingOK /\ Listed
    BY <1>1, Constants DEF SeedingOK, Listed
  <2>3. QED
    BY <2>1, <2>2
<1>5. Owned /\ Unwritten
  BY <1>1, <1>2 DEF Owned, Unwritten, UnwrittenFor
<1>6. Recorded
  <2> SUFFICES ASSUME NEW t \in CredTeam, NEW n \in Username PROVE RecordedFor(t, n)
    BY DEF Recorded
  <2>1. Leads(pcrs[t, n], creds[t, n])
    BY <1>1 DEF Leads
  <2>2. QED
    BY <1>2, <2>1 DEF RecordedFor
<1>7. Copied /\ Whole /\ Visited
  BY <1>1 DEF Copied, Whole, Visited
<1>8. Filled
  BY <1>1 DEF Filled, HasNothing, CredTypeOK
<1>9. QED
  BY <1>3, <1>4, <1>5, <1>6, <1>7, <1>8 DEF CredInv

LEMMA CredInvStep ==
  ASSUME CredInv, [CredNext]_credVars
  PROVE  CredInv'
<1>1. CASE SeedStep
  BY <1>1, MakeMutexesStep, CheckSeededStep, SeedFirstStep, FillFirstStep, FillNewTeamsStep,
     SeedNewListsStep, SpreadNewListStep, SeedAgainStep, SeedQueryFailsStep DEF SeedStep
<1>2. CASE AddList \/ GrowList
  BY <1>2, AddListStep, GrowListStep
<1>3. CASE CredCrash
  BY <1>3, CredCrashStep
<1>4. ASSUME NEW r \in PcrRequest, PcrStep(r) PROVE CredInv'
  BY <1>4, AskStep, AcquireStep, NextNameStep, SaveRowStep, LogChangeStep, StatementFailsStep,
     ReleaseMutexStep DEF PcrStep
<1>5. CASE UNCHANGED credVars
  <2>1. UNCHANGED <<configured, teams, originals, creds, pcrs, seeding, toSeed, toFill, wanted, grown,
                    seedings, credMutex, credHeld, pcr, credFatal, halfSeeded, torn, swapped>>
    BY <1>5 DEF credVars, rowVars, seedVars, lockVars
  <2>2. SeedingOK' /\ Filled' /\ Visited'
    BY <2>1 DEF CredInv, SeedingOK, Filled, Visited, HasNothing, Full
  <2>3. QED
    BY <2>1, <2>2, SeedingMoves DEF CredInv, CredTypeOK
<1>6. QED
  BY <1>1, <1>2, <1>3, <1>4, <1>5 DEF CredNext

THEOREM CredInvHolds == CredSpec => []CredInv
<1>1. CredInit => CredInv
  BY CredInvInit
<1>2. CredInv /\ [CredNext]_credVars => CredInv'
  BY CredInvStep
<1>3. QED
  BY <1>1, <1>2, PTL DEF CredSpec

\* The tables, the seeding's lists, the mutexes and the history keep their
\* shape; credentials and their history only ever hold known passwords.
THEOREM CredTypeCorrect == CredSpec => []CredTypeOK
<1>1. CredInv => CredTypeOK
  BY DEF CredInv
<1>2. QED
  BY <1>1, CredInvHolds, PTL

\* One request at a time works on a team's credentials and no unlock kills the
\* process, unless Start replaced the mutex of a request under way
\* (UpdateCredentials, ResetCredentials).
THEOREM OneAtATime == CredSpec => []OnePcrPerTeam
<1>1. CredInv => OnePcrPerTeam
  BY DEF CredInv, Owned, OnePcrPerTeam, Working
<1>2. QED
  BY <1>1, CredInvHolds, PTL

\* The history of every credential is the way from its original to its
\* password, unless a change was torn or a mutex in use replaced.
THEOREM HistoryLinksUp == CredSpec => []HistoryIsComplete
<1>1. CredInv => HistoryIsComplete
  <2> SUFFICES ASSUME CredInv, ~swapped, NEW t \in CredTeam, NEW n \in Username,
                      <<t, n>> \notin torn, ~Changing(t, n)
               PROVE  Leads(pcrs[t, n], creds[t, n])
    BY DEF HistoryIsComplete, Leads
  <2>1. QED
    BY DEF CredInv, Recorded, RecordedFor
<1>2. QED
  BY <1>1, CredInvHolds, PTL

\* A seeding that has visited all it had to leaves no team without a
\* credential, of its own lists or of any seeded before, unless an earlier one
\* stopped half-way or a list grew after it was seeded (EnsureCredentialsSeeded).
THEOREM SeedingIsComplete == CredSpec => []SeedingHeals
<1>1. CredInv => SeedingHeals
  <2> SUFFICES ASSUME CredInv, ~halfSeeded,
                      \/ seeding = "newLists" /\ toSeed = {}
                      \/ seeding = "teams" /\ toFill = {},
                      NEW t \in teams, NEW n \in wanted \cup originals
               PROVE  creds[t, n] # NoPassword
    BY DEF SeedingHeals
  <2>1. wanted \subseteq originals
    <3>1. UNION {} = {}
      OBVIOUS
    <3>2. QED
      BY <3>1 DEF CredInv, Visited
  <2>2. Full(t)
    BY DEF CredInv, Filled
  <2>3. QED
    BY <2>1, <2>2 DEF Full
<1>2. QED
  BY <1>1, CredInvHolds, PTL

=============================================================================
