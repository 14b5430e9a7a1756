------------------------- MODULE ScoreLedgerProofs -------------------------
(***************************************************************************)
(* Proofs about ScoreLedger, for any pairs, any threshold and any bounds.  *)
(*                                                                         *)
(* What the maps and the SLA table must hold is a function of a prefix of  *)
(* the check table, the rows counted so far.  The proof says how each of   *)
(* these functions grows with one row (OfAppend, StreakAppend,             *)
(* ViolationsAppend), that counting a check moves just the next row into   *)
(* the prefix (Aligned), and that a reset that misses the rounds leaves    *)
(* both maps empty by the time it is over (Emptied, Wiped).                *)
(***************************************************************************)
EXTENDS ScoreLedger, FiniteSetTheorems, SequenceTheorems, WellFoundedInduction, TLAPS

\* The rows not yet counted are the batch.
Aligned == Calm => checks = Counted \o batch /\ Counted \in Seq(Check)

\* Outside of processCollectedResults nothing waits to be counted.
Idle == pc = "round" => batch = <<>>

\* What a reset leaves before the first round after it.
Emptied == (~mixed /\ Resetting) =>
  pc = "round" /\ checks = <<>> /\ slas = NoSla

\* The maps are empty once ResetScores has been through them.
Wiped ==
  /\ (~mixed /\ (wipe = "uptimes wiped" \/ (wipe = "no" /\ reload # "no"))) => uptime = NoUptime
  /\ (~mixed /\ wipe = "no" /\ reload # "no") => sla = NoSla

IInv ==
  /\ TypeOK /\ Aligned /\ Idle /\ Emptied /\ Wiped
  /\ UptimeIsHistory /\ CounterIsStreak /\ PenaltyPerViolation

-----------------------------------------------------------------------------
(* The rows of a pair, in a table that grows by one row *)

\* A table of n rows with the row c added.
LEMMA OneMore ==
  ASSUME NEW s \in Seq(Check), NEW c \in Check
  PROVE  /\ Append(s, c) \in Seq(Check)
         /\ DOMAIN s = 1 .. Len(s) /\ DOMAIN Append(s, c) = 1 .. Len(s) + 1
         /\ \A i \in 1 .. Len(s) : Append(s, c)[i] = s[i]
         /\ Append(s, c)[Len(s) + 1] = c
         /\ Len(s) \in Nat
BY AppendProperties, LenProperties

LEMMA OfAppend ==
  ASSUME NEW s \in Seq(Check), NEW c \in Check, NEW p \in Pair
  PROVE  Of(Append(s, c), p) = IF c.pair = p THEN Of(s, p) \cup {Len(s) + 1} ELSE Of(s, p)
BY OneMore DEF Of

LEMMA PassedAppend ==
  ASSUME NEW s \in Seq(Check), NEW c \in Check, NEW p \in Pair
  PROVE  PassedOf(Append(s, c), p) =
           IF c.pair = p /\ c.ok THEN PassedOf(s, p) \cup {Len(s) + 1} ELSE PassedOf(s, p)
BY OneMore, OfAppend DEF PassedOf, Of

\* A streak grows with a failure, ends with a success, and does not mind the
\* rows of other pairs.
LEMMA StreakAppend ==
  ASSUME NEW s \in Seq(Check), NEW c \in Check, NEW p \in Pair
  PROVE  StreakOf(Append(s, c), p) =
           IF c.pair # p THEN StreakOf(s, p)
           ELSE IF c.ok THEN {} ELSE StreakOf(s, p) \cup {Len(s) + 1}
<1> DEFINE t == Append(s, c)
<1> USE OneMore
<1>1. CASE c.pair # p
  <2>1. Of(t, p) = Of(s, p) /\ Of(s, p) \subseteq 1 .. Len(s)
    BY <1>1, OfAppend DEF Of
  <2>2. \A i \in Of(s, p) : t[i] = s[i]
    BY <2>1
  <2>3. QED
    BY <1>1, <2>1, <2>2 DEF StreakOf
<1>2. CASE c.pair = p
  <2>1. Of(t, p) = Of(s, p) \cup {Len(s) + 1} /\ Of(s, p) \subseteq 1 .. Len(s)
    BY <1>2, OfAppend DEF Of
  <2>2. /\ \A i \in Of(s, p) : t[i] = s[i] /\ Len(s) + 1 >= i /\ ~(i >= Len(s) + 1)
        /\ t[Len(s) + 1] = c
    BY <2>1
  <2>3. CASE c.ok
    BY <1>2, <2>1, <2>2, <2>3 DEF StreakOf
  <2>4. CASE ~c.ok
    <3>1. ASSUME NEW i \in StreakOf(t, p) PROVE i \in StreakOf(s, p) \cup {Len(s) + 1}
      BY <2>1, <2>2, <3>1 DEF StreakOf
    <3>2. ASSUME NEW i \in StreakOf(s, p) PROVE i \in StreakOf(t, p)
      BY <2>1, <2>2, <2>4, <3>2 DEF StreakOf
    <3>3. Len(s) + 1 \in StreakOf(t, p)
      BY <2>1, <2>2, <2>4 DEF StreakOf
    <3>4. QED
      BY <1>2, <2>4, <3>1, <3>2, <3>3
  <2>5. QED
    BY <2>3, <2>4
<1>3. QED
  BY <1>1, <1>2

\* A row is a violation by what comes before it, and stays one.
LEMMA ViolationsAppend ==
  ASSUME NEW s \in Seq(Check), NEW c \in Check, NEW p \in Pair
  PROVE  ViolationsOf(Append(s, c), p) =
           IF /\ c.pair = p /\ ~c.ok
              /\ Cardinality(StreakOf(Append(s, c), p)) % Threshold = 0
             THEN ViolationsOf(s, p) \cup {Len(s) + 1} ELSE ViolationsOf(s, p)
<1> DEFINE t == Append(s, c)
<1> USE OneMore
<1>1. \A i \in 1 .. Len(s) : SubSeq(t, 1, i) = SubSeq(s, 1, i)
  <2>1. ASSUME NEW i \in 1 .. Len(s) PROVE SubSeq(t, 1, i) = SubSeq(s, 1, i)
    <3>1. t = s \o <<c>> /\ <<c>> \in Seq(Check)
      BY AppendIsConcat
    <3>2. QED
      BY <3>1, SubSeqOfConcat1
  <2>2. QED
    BY <2>1
<1>2. SubSeq(t, 1, Len(s) + 1) = t
  BY SubSeqFull, AppendProperties
<1>3. Of(s, p) \subseteq 1 .. Len(s)
  BY DEF Of
<1>4. \A i \in Of(s, p) : i \in ViolationsOf(t, p) <=> i \in ViolationsOf(s, p)
  <2>1. SUFFICES ASSUME NEW i \in Of(s, p)
                 PROVE  i \in ViolationsOf(t, p) <=> i \in ViolationsOf(s, p)
    OBVIOUS
  <2>2. i \in Of(t, p) /\ t[i] = s[i] /\ SubSeq(t, 1, i) = SubSeq(s, 1, i)
    BY <1>1, <1>3, OfAppend
  <2>3. QED
    BY <2>2 DEF ViolationsOf
<1>5. CASE c.pair # p
  BY <1>3, <1>4, <1>5, OfAppend DEF ViolationsOf
<1>6. CASE c.pair = p
  <2>1. Len(s) + 1 \in ViolationsOf(t, p) <=>
          ~c.ok /\ Cardinality(StreakOf(t, p)) % Threshold = 0
    <3>1. Len(s) + 1 \in Of(t, p) /\ t[Len(s) + 1] = c
      BY <1>6, OfAppend
    <3>2. SubSeq(t, 1, Len(s) + 1) = t
      BY <1>2
    <3>3. QED
      BY <3>1, <3>2 DEF ViolationsOf
  <2>2. ViolationsOf(t, p) \subseteq Of(s, p) \cup {Len(s) + 1} /\ ViolationsOf(s, p) \subseteq Of(s, p)
    BY <1>6, OfAppend DEF ViolationsOf
  <2>3. CASE ~c.ok /\ Cardinality(StreakOf(t, p)) % Threshold = 0
    <3>1. ViolationsOf(t, p) = ViolationsOf(s, p) \cup {Len(s) + 1}
      BY <1>4, <2>1, <2>2, <2>3
    <3>2. QED
      BY <1>6, <2>3, <3>1
  <2>4. CASE ~(~c.ok /\ Cardinality(StreakOf(t, p)) % Threshold = 0)
    <3>1. ViolationsOf(t, p) = ViolationsOf(s, p)
      BY <1>3, <1>4, <2>1, <2>2, <2>4
    <3>2. QED
      BY <1>6, <2>4, <3>1
  <2>5. QED
    BY <2>3, <2>4
<1>7. QED
  BY <1>5, <1>6

\* All of them are finite, and none has the next row.
LEMMA RowSets ==
  ASSUME NEW s \in Seq(Check), NEW p \in Pair
  PROVE  \A S \in {Of(s, p), PassedOf(s, p), StreakOf(s, p), ViolationsOf(s, p)} :
           IsFiniteSet(S) /\ Cardinality(S) \in Nat /\ Len(s) + 1 \notin S
<1>1. Len(s) \in Nat /\ DOMAIN s = 1 .. Len(s)
  BY LenProperties
<1>2. IsFiniteSet(1 .. Len(s))
  BY <1>1, FS_Interval
<1>3. ASSUME NEW S \in {Of(s, p), PassedOf(s, p), StreakOf(s, p), ViolationsOf(s, p)}
      PROVE  S \in SUBSET (1 .. Len(s))
  BY <1>1 DEF Of, PassedOf, StreakOf, ViolationsOf
<1>4. \A S \in SUBSET (1 .. Len(s)) : IsFiniteSet(S) /\ Cardinality(S) \in Nat
  BY <1>2, FS_Subset, FS_CardinalityType
<1>5. \A S \in SUBSET (1 .. Len(s)) : Len(s) + 1 \notin S
  BY <1>1
<1>6. QED
  BY <1>3, <1>4, <1>5

\* The counters of one row more.
LEMMA UptimeAppend ==
  ASSUME NEW s \in Seq(Check), NEW c \in Check, NEW p \in Pair
  PROVE  UptimeOf(Append(s, c), p) =
           IF c.pair # p THEN UptimeOf(s, p)
           ELSE [passed |-> UptimeOf(s, p).passed + (IF c.ok THEN 1 ELSE 0),
                 total  |-> UptimeOf(s, p).total + 1]
<1>1. /\ IsFiniteSet(Of(s, p)) /\ Len(s) + 1 \notin Of(s, p)
      /\ IsFiniteSet(PassedOf(s, p)) /\ Len(s) + 1 \notin PassedOf(s, p)
      /\ Cardinality(Of(s, p)) \in Nat /\ Cardinality(PassedOf(s, p)) \in Nat
  BY RowSets
<1>2. /\ Cardinality(Of(s, p) \cup {Len(s) + 1}) = Cardinality(Of(s, p)) + 1
      /\ Cardinality(PassedOf(s, p) \cup {Len(s) + 1}) = Cardinality(PassedOf(s, p)) + 1
  BY <1>1, FS_AddElement
<1>3. CASE c.pair # p
  <2>1. Of(Append(s, c), p) = Of(s, p) /\ PassedOf(Append(s, c), p) = PassedOf(s, p)
    BY <1>3, OfAppend, PassedAppend
  <2>2. QED
    BY <1>3, <2>1 DEF UptimeOf
<1>4. CASE c.pair = p /\ c.ok
  BY <1>2, <1>4, OfAppend, PassedAppend DEF UptimeOf
<1>5. CASE c.pair = p /\ ~c.ok
  <2>1. Of(Append(s, c), p) = Of(s, p) \cup {Len(s) + 1} /\ PassedOf(Append(s, c), p) = PassedOf(s, p)
    BY <1>5, OfAppend, PassedAppend
  <2>2. QED
    BY <1>1, <1>2, <1>5, <2>1 DEF UptimeOf
<1>6. QED
  BY <1>3, <1>4, <1>5

\* Counting modulo the threshold.
LEMMA ModNext ==
  ASSUME NEW k \in Nat
  PROVE  /\ k % Threshold \in 0 .. Threshold - 1
         /\ (k + 1) % Threshold = 
              IF (k % Threshold) + 1 >= Threshold THEN 0 ELSE (k % Threshold) + 1
         /\ 0 % Threshold = 0
<1> USE ThresholdAssumption
<1> DEFINE q == k \div Threshold
           r == k % Threshold
<1>1. q \in Int /\ r \in 0 .. Threshold - 1 /\ k = Threshold * q + r
  OBVIOUS
<1>2. 0 % Threshold = 0
  OBVIOUS
<1> HIDE DEF q, r
<1>3. ASSUME r + 1 >= Threshold PROVE (k + 1) % Threshold = 0
  <2>1. k + 1 = Threshold * (q + 1) + 0
    BY <1>1, <1>3
  <2>2. QED
    BY <1>1, <2>1
<1>4. ASSUME ~(r + 1 >= Threshold) PROVE (k + 1) % Threshold = r + 1
  <2>1. k + 1 = Threshold * q + (r + 1) /\ r + 1 \in 0 .. Threshold - 1
    BY <1>1, <1>4
  <2>2. QED
    BY <1>1, <2>1
<1>5. QED
  BY <1>1, <1>2, <1>3, <1>4 DEF r

LEMMA ModTwice ==
  ASSUME NEW k \in Nat
  PROVE  (k + 1) % Threshold = ((k % Threshold) + 1) % Threshold
<1> DEFINE r == k % Threshold
<1>1. r \in 0 .. Threshold - 1 /\ r \in Nat
  BY ThresholdAssumption
<1>2. (k + 1) % Threshold = IF r + 1 >= Threshold THEN 0 ELSE r + 1
  BY ModNext
<1> HIDE DEF r
<1>3. r % Threshold = r
  BY <1>1, ThresholdAssumption
<1>4. (r + 1) % Threshold = IF r + 1 >= Threshold THEN 0 ELSE r + 1
  BY <1>1, <1>3, ModNext
<1>5. QED
  BY <1>2, <1>4 DEF r

-----------------------------------------------------------------------------
(* The rows counted and the batch *)

LEMMA RoundIsSeq == ASSUME NEW r \in Round PROVE r \in Seq(Check)
<1>1. PICK n \in 1 .. MaxRound : r \in [1 .. n -> Check]
  BY DEF Round
<1>2. n \in Nat
  BY <1>1, LedgerBoundsAssumption
<1>3. QED
  BY <1>1, <1>2, SeqDef

LEMMA PrefixOf ==
  ASSUME NEW s \in Seq(Check), NEW b \in Seq(Check)
  PROVE  SubSeq(s \o b, 1, Len(s \o b) - Len(b)) = s
<1>1. Len(s) \in Nat /\ Len(b) \in Nat /\ Len(s \o b) - Len(b) = Len(s)
  BY ConcatProperties, LenProperties
<1>2. \A i \in 1 .. Len(s) : (s \o b)[i] = s[i] /\ s[i] \in Check
  BY <1>1, ConcatProperties, ElementOfSeq
<1>3. /\ SubSeq(s \o b, 1, Len(s)) \in Seq(Check)
      /\ Len(SubSeq(s \o b, 1, Len(s))) = Len(s)
      /\ \A i \in 1 .. Len(s) : SubSeq(s \o b, 1, Len(s))[i] = (s \o b)[1 + i - 1]
  BY <1>1, <1>2, SubSeqProperties
<1>4. \A i \in 1 .. Len(s) : SubSeq(s \o b, 1, Len(s))[i] = s[i]
  BY <1>1, <1>2, <1>3
<1>5. QED
  BY <1>1, <1>3, <1>4, SeqEqual

\* The next row of the batch moves to the rows counted.
LEMMA OneCounted ==
  ASSUME NEW s \in Seq(Check), NEW b \in Seq(Check), b # <<>>
  PROVE  s \o b = Append(s, Head(b)) \o Tail(b) /\ Append(s, Head(b)) \in Seq(Check)
<1>1. Head(b) \in Check /\ Tail(b) \in Seq(Check) /\ Len(b) \in Nat \ {0}
  BY HeadTailProperties, EmptySeq
<1>2. b = <<Head(b)>> \o Tail(b)
  <2>1. <<Head(b)>> \o Tail(b) \in Seq(Check) /\ Len(<<Head(b)>> \o Tail(b)) = Len(b)
    BY <1>1, HeadTailProperties, ConcatProperties
  <2>2. \A i \in 1 .. Len(b) : b[i] = (<<Head(b)>> \o Tail(b))[i]
    BY <1>1, HeadTailProperties, ConcatProperties
  <2>3. QED
    BY <2>1, <2>2, SeqEqual
<1>3. Append(s, Head(b)) = s \o <<Head(b)>> /\ <<Head(b)>> \in Seq(Check)
  BY <1>1, AppendIsConcat
<1>4. Append(s, Head(b)) \in Seq(Check)
  BY <1>1, AppendProperties
<1>5. s \o (<<Head(b)>> \o Tail(b)) = (s \o <<Head(b)>>) \o Tail(b)
  <2>1. ASSUME NEW one \in Seq(Check), NEW rest \in Seq(Check)
        PROVE  s \o (one \o rest) = (s \o one) \o rest
    BY ConcatAssociative, SMTT(30)
  <2>2. QED
    BY <1>1, <1>3, <2>1
<1>6. QED
  BY <1>2, <1>3, <1>4, <1>5

\* Rows that follow take no violation back, and make none for other pairs.
LEMMA ViolationsConcat ==
  ASSUME NEW s \in Seq(Check), NEW b \in Seq(Check), NEW p \in Pair
  PROVE  /\ ViolationsOf(s, p) \subseteq ViolationsOf(s \o b, p)
         /\ (\A i \in DOMAIN b : b[i].pair # p) => ViolationsOf(s \o b, p) = ViolationsOf(s, p)
<1> DEFINE t == s \o b
<1>1. /\ Len(s) \in Nat /\ Len(b) \in Nat /\ DOMAIN s = 1 .. Len(s) /\ DOMAIN b = 1 .. Len(b)
      /\ t \in Seq(Check) /\ DOMAIN t = 1 .. Len(s) + Len(b)
      /\ \A i \in DOMAIN t : t[i] = IF i <= Len(s) THEN s[i] ELSE b[i - Len(s)]
  BY LenProperties, ConcatProperties
<1>2. ASSUME NEW i \in 1 .. Len(s) PROVE i \in DOMAIN t /\ t[i] = s[i] /\ SubSeq(t, 1, i) = SubSeq(s, 1, i)
  BY <1>1, SubSeqOfConcat1
<1> HIDE DEF t
<1>3. ASSUME NEW i \in 1 .. Len(s)
      PROVE  i \in ViolationsOf(t, p) <=> i \in ViolationsOf(s, p)
  <2>1. i \in Of(t, p) <=> i \in Of(s, p)
    BY <1>1, <1>2 DEF Of
  <2>2. QED
    BY <1>2, <2>1 DEF ViolationsOf
<1>4. ViolationsOf(s, p) \subseteq 1 .. Len(s)
  BY <1>1 DEF ViolationsOf, Of
<1>5. ASSUME \A i \in DOMAIN b : b[i].pair # p
      PROVE  ViolationsOf(t, p) \subseteq 1 .. Len(s)
  <2>1. ASSUME NEW i \in DOMAIN t, ~(i <= Len(s)) PROVE t[i].pair # p
    <3>1. i - Len(s) \in DOMAIN b /\ t[i] = b[i - Len(s)]
      BY <1>1, <2>1
    <3>2. QED
      BY <1>5, <3>1
  <2>2. QED
    BY <1>1, <2>1 DEF ViolationsOf, Of
<1>6. QED
  BY <1>3, <1>4, <1>5 DEF t

\* Of an empty table nothing is counted.
LEMMA NoRows ==
  ASSUME NEW p \in Pair
  PROVE  /\ Of(<<>>, p) = {} /\ StreakOf(<<>>, p) = {} /\ ViolationsOf(<<>>, p) = {}
         /\ UptimeOf(<<>>, p) = [passed |-> 0, total |-> 0]
<1>1. Of(<<>>, p) = {}
  BY DEF Of
<1>2. PassedOf(<<>>, p) = {} /\ StreakOf(<<>>, p) = {} /\ ViolationsOf(<<>>, p) = {}
  BY <1>1 DEF PassedOf, StreakOf, ViolationsOf
<1>3. QED
  BY <1>1, <1>2, FS_EmptySet DEF UptimeOf

-----------------------------------------------------------------------------
(* The steps *)

\* What Start loads has the types of the maps.
LEMMA LoadTypes ==
  ASSUME TypeOK
  PROVE  /\ LoadUptimes(NoUptime) \in [Pair -> [passed : Nat, total : Nat]]
         /\ LoadUptimes(uptime) \in [Pair -> [passed : Nat, total : Nat]]
         /\ LoadSLAs(NoSla) \in [Pair -> 0 .. Threshold - 1]
         /\ LoadSLAs(sla) \in [Pair -> 0 .. Threshold - 1]
<1>1. ASSUME NEW p \in Pair
      PROVE  UptimeOf(checks, p) \in [passed : Nat, total : Nat] /\ Cardinality(StreakOf(checks, p)) \in Nat
  BY RowSets DEF UptimeOf, TypeOK
<1>2. ASSUME NEW k \in Nat PROVE k % Threshold \in 0 .. Threshold - 1
  BY ModNext
<1>3. ASSUME NEW old \in [Pair -> [passed : Nat, total : Nat]]
      PROVE  LoadUptimes(old) \in [Pair -> [passed : Nat, total : Nat]]
  BY <1>1 DEF LoadUptimes
<1>4. ASSUME NEW old \in [Pair -> 0 .. Threshold - 1]
      PROVE  LoadSLAs(old) \in [Pair -> 0 .. Threshold - 1]
  <2>1. ASSUME NEW p \in Pair
        PROVE  (IF PassedOf(checks, p) = {} THEN old[p] ELSE 0) + Cardinality(StreakOf(checks, p)) \in Nat
    BY <1>1, <2>1, ThresholdAssumption
  <2>2. QED
    BY <1>2, <2>1 DEF LoadSLAs
<1>5. NoUptime \in [Pair -> [passed : Nat, total : Nat]] /\ NoSla \in [Pair -> 0 .. Threshold - 1]
  BY ThresholdAssumption DEF NoUptime, NoSla
<1>6. QED
  BY <1>3, <1>4, <1>5 DEF TypeOK

\* One check more in the uptimes.
LEMMA CountType ==
  ASSUME TypeOK, NEW c \in Check, CountCheck(c)
  PROVE  /\ c.pair \in Pair /\ c.ok \in BOOLEAN
         /\ uptime'[c.pair] =
              [passed |-> uptime[c.pair].passed + (IF c.ok THEN 1 ELSE 0),
               total  |-> uptime[c.pair].total + 1]
         /\ \A p \in Pair \ {c.pair} : uptime'[p] = uptime[p]
         /\ uptime' \in [Pair -> [passed : Nat, total : Nat]]
         /\ batch' \in Seq(Check)
<1>1. c.pair \in Pair /\ c.ok \in BOOLEAN
  BY DEF Check
<1>2. batch' \in Seq(Check)
  BY HeadTailProperties DEF CountCheck, TypeOK
<1>3. /\ uptime \in [Pair -> [passed : Nat, total : Nat]]
      /\ uptime[c.pair].passed \in Nat /\ uptime[c.pair].total \in Nat
  BY <1>1 DEF TypeOK
<1> DEFINE n == uptime[c.pair].passed
           m == n + (IF c.ok THEN 1 ELSE 0)
           k == uptime[c.pair].total + 1
<1>4. m \in Nat /\ k \in Nat
  BY <1>1, <1>3
<1>5. uptime' = [uptime EXCEPT ![c.pair].passed = IF c.ok THEN n + 1 ELSE n, ![c.pair].total = k]
  BY DEF CountCheck
<1>6. m = IF c.ok THEN n + 1 ELSE n
  <2>1. n \in Nat
    BY <1>3
  <2> HIDE DEF n
  <2>2. QED
    BY <1>1, <2>1
<1>7. uptime' = [uptime EXCEPT ![c.pair].passed = m, ![c.pair].total = k]
  <2> HIDE DEF m
  <2>1. QED
    BY <1>5, <1>6
<1> HIDE DEF n, m, k
<1>8. /\ uptime'[c.pair] = [passed |-> m, total |-> k]
      /\ \A p \in Pair \ {c.pair} : uptime'[p] = uptime[p]
      /\ uptime' \in [Pair -> [passed : Nat, total : Nat]]
  <2>1. uptime'[c.pair] = [passed |-> m, total |-> k]
    BY <1>1, <1>3, <1>7
  <2>2. \A p \in Pair \ {c.pair} : uptime'[p] = uptime[p]
    BY <1>1, <1>3, <1>7
  <2>3. uptime' \in [Pair -> [passed : Nat, total : Nat]]
    BY <1>1, <1>3, <1>4, <1>7
  <2>4. QED
    BY <2>1, <2>2, <2>3
<1>9. QED
  BY <1>1, <1>2, <1>8 DEF n, m, k

RowsOK ==
  checks \in Seq(Check) /\ slas \in [Pair -> Nat] /\ batch \in Seq(Check)

MapsOK ==
  uptime \in [Pair -> [passed : Nat, total : Nat]] /\ sla \in [Pair -> 0 .. Threshold - 1]

StagesOK ==
  /\ pc \in {"round", "saved", "locked"}
  /\ wipe \in {"no", "truncated", "published", "uptimes wiped"}
  /\ reload \in {"no", "uptimes", "slas"}

CountsOK == saved \in Nat /\ restarts \in Nat /\ resets \in Nat /\ faults \in Nat

HistoryOK == inDb \in BOOLEAN /\ mixed \in BOOLEAN /\ unpaid \in SUBSET Pair

LEMMA TypeParts == TypeOK <=> RowsOK /\ MapsOK /\ StagesOK /\ CountsOK /\ HistoryOK
BY DEF TypeOK, RowsOK, MapsOK, StagesOK, CountsOK, HistoryOK

LEMMA EmptyMaps ==
  /\ NoSla \in [Pair -> Nat] /\ NoSla \in [Pair -> 0 .. Threshold - 1]
  /\ NoUptime \in [Pair -> [passed : Nat, total : Nat]]
BY ThresholdAssumption DEF NoSla, NoUptime

\* Every step keeps the types.
LEMMA TypeStep == TypeOK /\ [Next]_vars => TypeOK'
<1> SUFFICES ASSUME TypeOK, [Next]_vars PROVE (RowsOK /\ MapsOK /\ StagesOK /\ CountsOK /\ HistoryOK)'
  BY DEF TypeOK, RowsOK, MapsOK, StagesOK, CountsOK, HistoryOK
<1>0. RowsOK /\ MapsOK /\ StagesOK /\ CountsOK /\ HistoryOK
  BY TypeParts
<1> USE <1>0, ThresholdAssumption DEF dbVars, roundVars, mapVars, resetVars, histVars
<1>1. ASSUME NEW results \in Round, SaveRound(results)
      PROVE  (RowsOK /\ MapsOK /\ StagesOK /\ CountsOK /\ HistoryOK)'
  <2>1. results \in Seq(Check) /\ Len(results) \in Nat /\ checks \o results \in Seq(Check)
    BY RoundIsSeq, LenProperties, ConcatProperties DEF RowsOK
  <2>2. RowsOK'
    BY <1>1, <2>1 DEF SaveRound, RowsOK
  <2>3. MapsOK'
    BY <1>1, <2>1 DEF SaveRound, MapsOK
  <2>4. StagesOK'
    BY <1>1, <2>1 DEF SaveRound, StagesOK
  <2>5. CountsOK'
    BY <1>1, <2>1 DEF SaveRound, CountsOK
  <2>6. HistoryOK'
    BY <1>1, <2>1 DEF SaveRound, HistoryOK
  <2>7. QED
    BY <2>2, <2>3, <2>4, <2>5, <2>6
<1>2. CASE Lock
  BY <1>2 DEF Lock, RowsOK, MapsOK, StagesOK, CountsOK, HistoryOK
<1>3. ASSUME NEW c \in Check, ApplySuccess(c)
      PROVE  (RowsOK /\ MapsOK /\ StagesOK /\ CountsOK /\ HistoryOK)'
  <2>1. c.pair \in Pair /\ batch' \in Seq(Check) /\ uptime' \in [Pair -> [passed : Nat, total : Nat]]
    BY <1>3, CountType DEF ApplySuccess
  <2>2. RowsOK'
    BY <1>3, <2>1 DEF ApplySuccess, CountCheck, RowsOK
  <2>3. MapsOK'
    <3>1. sla \in [Pair -> 0 .. Threshold - 1] /\ sla' = [sla EXCEPT ![c.pair] = 0]
      BY <1>3 DEF ApplySuccess, MapsOK
    <3>2. 0 \in 0 .. Threshold - 1
      OBVIOUS
    <3>3. sla' \in [Pair -> 0 .. Threshold - 1]
      BY ONLY <3>1, <3>2
    <3>4. QED
      BY <2>1, <3>3 DEF MapsOK
  <2>4. StagesOK'
    BY <1>3, <2>1 DEF ApplySuccess, CountCheck, StagesOK
  <2>5. CountsOK'
    BY <1>3, <2>1 DEF ApplySuccess, CountCheck, CountsOK
  <2>6. HistoryOK'
    BY <1>3, <2>1 DEF ApplySuccess, CountCheck, HistoryOK
  <2>7. QED
    BY <2>2, <2>3, <2>4, <2>5, <2>6
<1>4. ASSUME NEW c \in Check, ApplyFailure(c)
      PROVE  (RowsOK /\ MapsOK /\ StagesOK /\ CountsOK /\ HistoryOK)'
  <2>1. c.pair \in Pair /\ batch' \in Seq(Check) /\ uptime' \in [Pair -> [passed : Nat, total : Nat]]
    BY <1>4, CountType DEF ApplyFailure
  <2>2. RowsOK'
    BY <1>4, <2>1 DEF ApplyFailure, CountCheck, Completes, RowsOK
  <2>3. MapsOK'
    <3>1. sla \in [Pair -> 0 .. Threshold - 1] /\ sla' = [sla EXCEPT ![c.pair] = sla[c.pair] + 1]
      BY <1>4 DEF ApplyFailure, MapsOK
    <3>2. ~(sla[c.pair] + 1 >= Threshold)
      BY <1>4 DEF ApplyFailure, Completes
    <3>3. sla[c.pair] + 1 \in 0 .. Threshold - 1
      BY <2>1, <3>1, <3>2
    <3>4. sla' \in [Pair -> 0 .. Threshold - 1]
      BY ONLY <3>1, <3>3
    <3>5. QED
      BY <2>1, <3>4 DEF MapsOK
  <2>4. StagesOK'
    BY <1>4, <2>1 DEF ApplyFailure, CountCheck, Completes, StagesOK
  <2>5. CountsOK'
    BY <1>4, <2>1 DEF ApplyFailure, CountCheck, Completes, CountsOK
  <2>6. HistoryOK'
    BY <1>4, <2>1 DEF ApplyFailure, CountCheck, Completes, HistoryOK
  <2>7. QED
    BY <2>2, <2>3, <2>4, <2>5, <2>6
<1>5. ASSUME NEW c \in Check, ApplyViolation(c)
      PROVE  (RowsOK /\ MapsOK /\ StagesOK /\ CountsOK /\ HistoryOK)'
  <2>1. c.pair \in Pair /\ batch' \in Seq(Check) /\ uptime' \in [Pair -> [passed : Nat, total : Nat]]
    BY <1>5, CountType DEF ApplyViolation
  <2>2. RowsOK'
    BY <1>5, <2>1 DEF ApplyViolation, CountCheck, RowsOK
  <2>3. MapsOK'
    <3>1. sla \in [Pair -> 0 .. Threshold - 1] /\ sla' = [sla EXCEPT ![c.pair] = 0]
      BY <1>5 DEF ApplyViolation, MapsOK
    <3>2. 0 \in 0 .. Threshold - 1
      OBVIOUS
    <3>3. sla' \in [Pair -> 0 .. Threshold - 1]
      BY ONLY <3>1, <3>2
    <3>4. QED
      BY <2>1, <3>3 DEF MapsOK
  <2>4. StagesOK'
    BY <1>5, <2>1 DEF ApplyViolation, CountCheck, StagesOK
  <2>5. CountsOK'
    BY <1>5, <2>1 DEF ApplyViolation, CountCheck, CountsOK
  <2>6. HistoryOK'
    BY <1>5, <2>1 DEF ApplyViolation, CountCheck, HistoryOK
  <2>7. QED
    BY <2>2, <2>3, <2>4, <2>5, <2>6
<1>6. ASSUME NEW c \in Check, ApplyViolationFails(c)
      PROVE  (RowsOK /\ MapsOK /\ StagesOK /\ CountsOK /\ HistoryOK)'
  <2>1. c.pair \in Pair /\ batch' \in Seq(Check) /\ uptime' \in [Pair -> [passed : Nat, total : Nat]]
    BY <1>6, CountType DEF ApplyViolationFails
  <2>2. RowsOK'
    BY <1>6, <2>1 DEF ApplyViolationFails, CountCheck, Fault, RowsOK
  <2>3. MapsOK'
    <3>1. sla \in [Pair -> 0 .. Threshold - 1] /\ sla' = [sla EXCEPT ![c.pair] = 0]
      BY <1>6 DEF ApplyViolationFails, MapsOK
    <3>2. 0 \in 0 .. Threshold - 1
      OBVIOUS
    <3>3. sla' \in [Pair -> 0 .. Threshold - 1]
      BY ONLY <3>1, <3>2
    <3>4. QED
      BY <2>1, <3>3 DEF MapsOK
  <2>4. StagesOK'
    BY <1>6, <2>1 DEF ApplyViolationFails, CountCheck, Fault, StagesOK
  <2>5. CountsOK'
    BY <1>6, <2>1 DEF ApplyViolationFails, CountCheck, Fault, CountsOK
  <2>6. HistoryOK'
    BY <1>6, <2>1 DEF ApplyViolationFails, CountCheck, Fault, HistoryOK
  <2>7. QED
    BY <2>2, <2>3, <2>4, <2>5, <2>6
<1>7. CASE Unlock
  BY <1>7 DEF Unlock, RowsOK, MapsOK, StagesOK, CountsOK, HistoryOK
<1>8. CASE Restart
  <2>1. ASSUME NEW i \in DOMAIN batch PROVE batch[i].pair \in Pair
    <3>1. i \in 1 .. Len(batch)
      BY LenProperties DEF RowsOK
    <3>2. batch[i] \in Check
      BY <3>1, ElementOfSeq DEF RowsOK
    <3>3. QED
      BY <3>2 DEF Check
  <2>2. RowsOK'
    BY <1>8, <2>1, EmptySeq DEF Restart, RowsOK
  <2>3. MapsOK'
    BY <1>8, <2>1, LoadTypes DEF Restart, MapsOK
  <2>4. StagesOK'
    BY <1>8, <2>1 DEF Restart, StagesOK
  <2>5. CountsOK'
    BY <1>8, <2>1 DEF Restart, CountsOK
  <2>6. HistoryOK'
    BY <1>8, <2>1 DEF Restart, HistoryOK
  <2>7. QED
    BY <2>2, <2>3, <2>4, <2>5, <2>6
<1>9. CASE ResetTables
  <2>1. <<>> \in Seq(Check)
    BY EmptySeq
  <2>2. RowsOK'
    BY <1>9, <2>1, EmptyMaps DEF ResetTables, Resetting, RowsOK
  <2>3. MapsOK'
    BY <1>9, <2>1 DEF ResetTables, Resetting, MapsOK
  <2>4. StagesOK'
    BY <1>9, <2>1 DEF ResetTables, Resetting, StagesOK
  <2>5. CountsOK'
    BY <1>9, <2>1 DEF ResetTables, Resetting, CountsOK
  <2>6. HistoryOK'
    BY <1>9, <2>1 DEF ResetTables, Resetting, HistoryOK
  <2>7. QED
    BY <2>2, <2>3, <2>4, <2>5, <2>6
<1>10. CASE ResetAborts
  <2>1. RowsOK'
    BY <1>10 DEF ResetAborts, Fault, RowsOK
  <2>2. MapsOK'
    BY <1>10 DEF ResetAborts, Fault, MapsOK
  <2>3. StagesOK'
    BY <1>10 DEF ResetAborts, Fault, StagesOK
  <2>4. CountsOK'
    BY <1>10 DEF ResetAborts, Fault, CountsOK
  <2>5. HistoryOK'
    BY <1>10 DEF ResetAborts, Fault, HistoryOK
  <2>6. QED
    BY <2>1, <2>2, <2>3, <2>4, <2>5
<1>11. CASE PublishReset
  BY <1>11 DEF PublishReset, RowsOK, MapsOK, StagesOK, CountsOK, HistoryOK
<1>12. CASE Renumber
  BY <1>12 DEF Renumber, RowsOK, MapsOK, StagesOK, CountsOK, HistoryOK
<1>13. CASE WipeUptimes
  <2>1. RowsOK'
    BY <1>13 DEF WipeUptimes, RowsOK
  <2>2. MapsOK'
    BY <1>13, EmptyMaps DEF WipeUptimes, MapsOK
  <2>3. StagesOK'
    BY <1>13 DEF WipeUptimes, StagesOK
  <2>4. CountsOK'
    BY <1>13 DEF WipeUptimes, CountsOK
  <2>5. HistoryOK'
    BY <1>13 DEF WipeUptimes, HistoryOK
  <2>6. QED
    BY <2>1, <2>2, <2>3, <2>4, <2>5
<1>14. CASE WipeSlas
  <2>1. RowsOK'
    BY <1>14 DEF WipeSlas, RowsOK
  <2>2. MapsOK'
    BY <1>14, EmptyMaps DEF WipeSlas, MapsOK
  <2>3. StagesOK'
    BY <1>14 DEF WipeSlas, StagesOK
  <2>4. CountsOK'
    BY <1>14 DEF WipeSlas, CountsOK
  <2>5. HistoryOK'
    BY <1>14 DEF WipeSlas, HistoryOK
  <2>6. QED
    BY <2>1, <2>2, <2>3, <2>4, <2>5
<1>15. CASE ReloadUptimes
  <2>1. RowsOK'
    BY <1>15 DEF ReloadUptimes, RowsOK
  <2>2. MapsOK'
    BY <1>15, LoadTypes DEF ReloadUptimes, MapsOK
  <2>3. StagesOK'
    BY <1>15 DEF ReloadUptimes, StagesOK
  <2>4. CountsOK'
    BY <1>15 DEF ReloadUptimes, CountsOK
  <2>5. HistoryOK'
    BY <1>15 DEF ReloadUptimes, HistoryOK
  <2>6. QED
    BY <2>1, <2>2, <2>3, <2>4, <2>5
<1>16. CASE ReloadSlas
  <2>1. RowsOK'
    BY <1>16 DEF ReloadSlas, RowsOK
  <2>2. MapsOK'
    BY <1>16, LoadTypes DEF ReloadSlas, MapsOK
  <2>3. StagesOK'
    BY <1>16 DEF ReloadSlas, StagesOK
  <2>4. CountsOK'
    BY <1>16 DEF ReloadSlas, CountsOK
  <2>5. HistoryOK'
    BY <1>16 DEF ReloadSlas, HistoryOK
  <2>6. QED
    BY <2>1, <2>2, <2>3, <2>4, <2>5
<1>17. CASE UNCHANGED vars
  BY <1>17 DEF vars, RowsOK, MapsOK, StagesOK, CountsOK, HistoryOK
<1>18. QED
  BY <1>1, <1>2, <1>3, <1>4, <1>5, <1>6, <1>7, <1>8, <1>9, <1>10, <1>11, <1>12, <1>13, <1>14, <1>15, <1>16, <1>17 DEF Next

\* The streak and the violations in numbers.
LEMMA StreakCount ==
  ASSUME NEW s \in Seq(Check), NEW c \in Check, NEW p \in Pair
  PROVE  /\ Cardinality(StreakOf(s, p)) \in Nat
         /\ Cardinality(StreakOf(Append(s, c), p)) =
              IF c.pair # p THEN Cardinality(StreakOf(s, p))
              ELSE IF c.ok THEN 0 ELSE Cardinality(StreakOf(s, p)) + 1
<1>1. /\ IsFiniteSet(StreakOf(s, p)) /\ Cardinality(StreakOf(s, p)) \in Nat
      /\ Len(s) + 1 \notin StreakOf(s, p)
  BY RowSets
<1>2. Cardinality(StreakOf(s, p) \cup {Len(s) + 1}) = Cardinality(StreakOf(s, p)) + 1
  BY <1>1, FS_AddElement
<1>3. QED
  BY <1>1, <1>2, StreakAppend, FS_EmptySet, ZenonT(30)

LEMMA ViolationsCount ==
  ASSUME NEW s \in Seq(Check), NEW c \in Check, NEW p \in Pair
  PROVE  /\ Cardinality(ViolationsOf(s, p)) \in Nat
         /\ Cardinality(ViolationsOf(Append(s, c), p)) =
              Cardinality(ViolationsOf(s, p)) +
                (IF /\ c.pair = p /\ ~c.ok
                    /\ Cardinality(StreakOf(Append(s, c), p)) % Threshold = 0 THEN 1 ELSE 0)
<1>1. /\ IsFiniteSet(ViolationsOf(s, p)) /\ Cardinality(ViolationsOf(s, p)) \in Nat
      /\ Len(s) + 1 \notin ViolationsOf(s, p)
  BY RowSets
<1>2. Cardinality(ViolationsOf(s, p) \cup {Len(s) + 1}) = Cardinality(ViolationsOf(s, p)) + 1
  BY <1>1, FS_AddElement
<1> DEFINE due == c.pair = p /\ ~c.ok /\ Cardinality(StreakOf(Append(s, c), p)) % Threshold = 0
<1>3. CASE due
  <2>1. ViolationsOf(Append(s, c), p) = ViolationsOf(s, p) \cup {Len(s) + 1}
    BY <1>3, ViolationsAppend
  <2>2. QED
    BY <1>1, <1>2, <1>3, <2>1
<1>4. CASE ~due
  <2>1. ViolationsOf(Append(s, c), p) = ViolationsOf(s, p)
    BY <1>4, ViolationsAppend
  <2>2. QED
    BY <1>1, <1>4, <2>1
<1>5. QED
  BY <1>3, <1>4

\* Counting a check moves one row into the rows counted.
LEMMA CountedGrows ==
  ASSUME TypeOK, Aligned, Calm, NEW c \in Check, CountCheck(c)
  PROVE  /\ Counted \in Seq(Check) /\ Counted' = Append(Counted, c)
         /\ Aligned'
<1>1. /\ checks = Counted \o batch /\ Counted \in Seq(Check) /\ batch \in Seq(Check)
      /\ batch # <<>> /\ c = Head(batch) /\ checks' = checks /\ batch' = Tail(batch)
  BY DEF Aligned, TypeOK, CountCheck
<1>2. checks' = Append(Counted, c) \o batch' /\ Append(Counted, c) \in Seq(Check)
  BY <1>1, OneCounted
<1>3. batch' \in Seq(Check)
  BY <1>1, HeadTailProperties
<1>4. SubSeq(checks', 1, Len(checks') - Len(batch')) = Append(Counted, c)
  BY <1>2, <1>3, PrefixOf
<1>5. QED
  BY <1>1, <1>2, <1>4 DEF Counted, Aligned

\* A check is counted in the uptimes, in the streak and in the SLA rows.
LEMMA ApplyStep ==
  ASSUME IInv, NEW c \in Check,
         ApplySuccess(c) \/ ApplyFailure(c) \/ ApplyViolation(c) \/ ApplyViolationFails(c)
  PROVE  (Aligned /\ Idle /\ Emptied /\ Wiped /\ UptimeIsHistory /\ CounterIsStreak
            /\ PenaltyPerViolation)'
<1>1. /\ CountCheck(c) /\ pc = "locked" /\ c.pair \in Pair /\ c.ok \in BOOLEAN
      /\ UNCHANGED <<checks, pc, mixed, wipe, reload>>
      /\ TypeOK /\ sla \in [Pair -> 0 .. Threshold - 1] /\ slas \in [Pair -> Nat]
  BY DEF ApplySuccess, ApplyFailure, ApplyViolation, ApplyViolationFails, CountCheck, resetVars,
         IInv, TypeOK, Check
<1>2. mixed \/ ~Resetting
  BY <1>1 DEF IInv, Emptied
<1>3. (Idle /\ Emptied /\ Wiped)'
  BY <1>1, <1>2 DEF Idle, Emptied, Wiped, Resetting
<1>4. CASE ~Calm
  <2>1. ~Calm'
    BY <1>1, <1>4 DEF Calm, Resetting
  <2>2. QED
    BY <1>3, <2>1 DEF Aligned, UptimeIsHistory, CounterIsStreak, PenaltyPerViolation
<1>5. CASE Calm
  <2>1. Counted \in Seq(Check) /\ Counted' = Append(Counted, c) /\ Aligned'
    BY <1>1, <1>5, CountedGrows DEF IInv
  <2>2. UptimeIsHistory'
    <3>1. ASSUME NEW p \in Pair PROVE uptime'[p] = UptimeOf(Counted', p)
      <4>1. uptime[p] = UptimeOf(Counted, p)
        BY <1>5 DEF IInv, UptimeIsHistory
      <4>2. UptimeOf(Counted', p) =
              IF c.pair # p THEN uptime[p]
              ELSE [passed |-> uptime[p].passed + (IF c.ok THEN 1 ELSE 0),
                    total  |-> uptime[p].total + 1]
        BY <2>1, <4>1, UptimeAppend
      <4>3. /\ uptime'[c.pair] =
                 [passed |-> uptime[c.pair].passed + (IF c.ok THEN 1 ELSE 0),
                  total  |-> uptime[c.pair].total + 1]
            /\ \A q \in Pair \ {c.pair} : uptime'[q] = uptime[q]
        BY <1>1, CountType
      <4>4. QED
        BY <4>2, <4>3
    <3>2. QED
      BY <3>1 DEF UptimeIsHistory
  <2>3. ASSUME NEW p \in Pair
        PROVE  /\ sla'[p] = Cardinality(StreakOf(Counted', p)) % Threshold
               /\ slas'[p] <= Cardinality(ViolationsOf(Counted', p))
               /\ p \notin unpaid' => slas'[p] = Cardinality(ViolationsOf(Counted', p))
    <3> DEFINE k == Cardinality(StreakOf(Counted, p))
               v == Cardinality(ViolationsOf(Counted, p))
               l == Cardinality(StreakOf(Counted', p))
               w == Cardinality(ViolationsOf(Counted', p))
    <3>1. sla[p] = k % Threshold /\ slas[p] <= v /\ (p \notin unpaid => slas[p] = v)
      BY <1>5 DEF IInv, CounterIsStreak, PenaltyPerViolation
    <3>2. k \in Nat /\ l = IF c.pair # p THEN k ELSE IF c.ok THEN 0 ELSE k + 1
      BY <2>1, StreakCount
    <3>3. v \in Nat /\ w = v + (IF c.pair = p /\ ~c.ok /\ l % Threshold = 0 THEN 1 ELSE 0)
      BY <2>1, ViolationsCount
    <3>4. /\ (k + 1) % Threshold = IF sla[p] + 1 >= Threshold THEN 0 ELSE sla[p] + 1
          /\ 0 % Threshold = 0
      BY <3>1, <3>2, ModNext
    <3>5. sla[p] \in 0 .. Threshold - 1 /\ slas[p] \in Nat
      BY <1>1
    <3> HIDE DEF k, v, l, w
    <3>6. CASE c.pair # p
      <4>1. sla'[p] = sla[p] /\ slas'[p] = slas[p] /\ (p \in unpaid' <=> p \in unpaid)
        BY <1>1, <3>6 DEF ApplySuccess, ApplyFailure, ApplyViolation, ApplyViolationFails
      <4>2. l = k /\ w = v
        BY <3>2, <3>3, <3>6
      <4>3. QED
        BY <3>1, <4>1, <4>2 DEF l, w
    <3>7. CASE c.pair = p /\ ApplySuccess(c)
      <4>1. sla'[p] = 0 /\ slas'[p] = slas[p] /\ unpaid' = unpaid /\ c.ok
        BY <1>1, <3>7 DEF ApplySuccess
      <4>2. l = 0 /\ w = v
        BY <3>2, <3>3, <3>7, <4>1
      <4>3. QED
        BY <3>1, <3>4, <4>1, <4>2 DEF l, w
    <3>8. CASE c.pair = p /\ ApplyFailure(c)
      <4>1. /\ sla'[p] = sla[p] + 1 /\ slas'[p] = slas[p] /\ unpaid' = unpaid /\ ~c.ok
            /\ ~(sla[p] + 1 >= Threshold)
        BY <1>1, <3>8 DEF ApplyFailure, Completes
      <4>2. l = k + 1 /\ l % Threshold = sla[p] + 1 /\ w = v
        BY <3>2, <3>3, <3>4, <3>5, <3>8, <4>1
      <4>3. QED
        BY <3>1, <4>1, <4>2 DEF l, w
    <3>9. CASE c.pair = p /\ (ApplyViolation(c) \/ ApplyViolationFails(c))
      <4>1. /\ sla'[p] = 0 /\ ~c.ok /\ sla[p] + 1 >= Threshold
            /\ \/ slas'[p] = slas[p] + 1 /\ unpaid' = unpaid
               \/ slas'[p] = slas[p] /\ p \in unpaid'
        BY <1>1, <3>9 DEF ApplyViolation, ApplyViolationFails, Completes
      <4>2. l = k + 1 /\ l % Threshold = 0 /\ w = v + 1
        BY <3>2, <3>3, <3>4, <3>9, <4>1
      <4>3. QED
        BY <3>1, <3>3, <3>5, <4>1, <4>2 DEF l, w
    <3>10. QED
      BY <3>6, <3>7, <3>8, <3>9
  <2>4. CounterIsStreak' /\ PenaltyPerViolation'
    BY <2>3 DEF CounterIsStreak, PenaltyPerViolation
  <2>5. QED
    BY <1>3, <2>1, <2>2, <2>4
<1>6. QED
  BY <1>4, <1>5

\* Both maps and the tables are empty.
LEMMA InitInv == Init => IInv
<1> SUFFICES ASSUME Init PROVE IInv
  OBVIOUS
<1> USE ThresholdAssumption DEF Init
<1>1. TypeOK
  <2>1. RowsOK /\ MapsOK
    BY EmptySeq, EmptyMaps DEF RowsOK, MapsOK
  <2>2. StagesOK /\ CountsOK /\ HistoryOK
    BY DEF StagesOK, CountsOK, HistoryOK
  <2>3. QED
    BY <2>1, <2>2, TypeParts
<1>2. Counted = <<>> /\ <<>> \in Seq(Check)
  BY EmptySeq, SubSeqEmpty DEF Counted
<1>3. Aligned /\ Idle /\ Emptied /\ Wiped
  BY <1>2, ConcatEmptySeq DEF Aligned, Idle, Emptied, Wiped, Resetting
<1>4. UptimeIsHistory
  BY <1>2, NoRows DEF UptimeIsHistory, NoUptime
<1>5. CounterIsStreak
  BY <1>2, NoRows, FS_EmptySet, ModNext DEF CounterIsStreak, NoSla
<1>6. PenaltyPerViolation
  <2>1. ASSUME NEW p \in Pair PROVE Cardinality(ViolationsOf(Counted, p)) = 0 /\ slas[p] = 0
    BY <1>2, NoRows, FS_EmptySet DEF NoSla
  <2>2. QED
    BY <2>1 DEF PenaltyPerViolation
<1>7. QED
  BY <1>1, <1>3, <1>4, <1>5, <1>6 DEF IInv

-----------------------------------------------------------------------------

\* A new round is not counted yet.
LEMMA SaveStep ==
  ASSUME IInv, NEW results \in Round, SaveRound(results)
  PROVE  (Aligned /\ Idle /\ Emptied /\ Wiped /\ UptimeIsHistory /\ CounterIsStreak
            /\ PenaltyPerViolation)'
<1>1. /\ pc' = "saved" /\ batch' = results /\ checks' = checks \o results
      /\ mixed' = (mixed \/ Resetting) /\ UNCHANGED <<slas, uptime, sla, wipe, reload, unpaid>>
      /\ results \in Seq(Check) /\ checks \in Seq(Check) /\ batch = <<>>
  BY RoundIsSeq DEF SaveRound, IInv, TypeOK, Idle, mapVars, resetVars
<1>2. Calm' => Calm
  BY <1>1 DEF Calm, Resetting
<1>3. (Idle /\ Emptied /\ Wiped)'
  BY <1>1 DEF Idle, Emptied, Wiped, Resetting
<1>4. CASE ~Calm
  BY <1>2, <1>3, <1>4 DEF Aligned, UptimeIsHistory, CounterIsStreak, PenaltyPerViolation
<1>5. CASE Calm
  <2>1. Counted = checks
    BY <1>1, PrefixOf, ConcatEmptySeq, EmptySeq DEF Counted
  <2>2. Counted' = checks
    BY <1>1, PrefixOf DEF Counted
  <2>3. Aligned'
    BY <1>1, <2>2 DEF Aligned
  <2>4. UptimeIsHistory' /\ CounterIsStreak' /\ PenaltyPerViolation'
    BY <1>1, <1>5, <2>1, <2>2 DEF IInv, UptimeIsHistory, CounterIsStreak, PenaltyPerViolation
  <2>5. QED
    BY <1>3, <2>3, <2>4
<1>6. QED
  BY <1>4, <1>5

\* Start computes the maps from the rows, and they are what they would have
\* become; a crash may cost the SLA rows of the batch.
LEMMA RestartStep ==
  ASSUME IInv, Restart
  PROVE  (Aligned /\ Idle /\ Emptied /\ Wiped /\ UptimeIsHistory /\ CounterIsStreak
            /\ PenaltyPerViolation)'
<1>1. /\ pc' = "round" /\ batch' = <<>> /\ wipe' = "no" /\ reload' = "no"
      /\ UNCHANGED <<checks, slas, mixed>>
      /\ unpaid' = unpaid \cup {batch[i].pair : i \in DOMAIN batch}
      /\ checks \in Seq(Check) /\ batch \in Seq(Check) /\ slas \in [Pair -> Nat]
  BY DEF Restart, dbVars, IInv, TypeOK
<1>2. Counted' = checks
  BY <1>1, PrefixOf, ConcatEmptySeq, EmptySeq DEF Counted
<1>3. (Aligned /\ Idle /\ Emptied /\ Wiped)'
  BY <1>1, <1>2, ConcatEmptySeq DEF Aligned, Idle, Emptied, Wiped, Resetting
<1>4. UptimeIsHistory'
  <2>1. ASSUME NEW p \in Pair PROVE uptime'[p] = UptimeOf(checks, p)
    <3>1. CASE Of(checks, p) = {}
      <4>1. PassedOf(checks, p) = {}
        BY <3>1 DEF PassedOf
      <4>2. QED
        BY <3>1, <4>1, FS_EmptySet DEF Restart, LoadUptimes, NoUptime, UptimeOf
    <3>2. CASE Of(checks, p) # {}
      BY <3>2 DEF Restart, LoadUptimes
    <3>3. QED
      BY <3>1, <3>2
  <2>2. QED
    BY <1>2, <2>1 DEF UptimeIsHistory
<1>5. CounterIsStreak'
  <2>1. ASSUME NEW p \in Pair PROVE sla'[p] = Cardinality(StreakOf(checks, p)) % Threshold
    <3>1. Cardinality(StreakOf(checks, p)) \in Nat
      BY <1>1, RowSets
    <3>2. CASE Of(checks, p) = {}
      <4>1. StreakOf(checks, p) = {}
        BY <3>2 DEF StreakOf
      <4>2. QED
        BY <3>2, <4>1, FS_EmptySet, ModNext DEF Restart, LoadSLAs, NoSla
    <3>3. CASE Of(checks, p) # {}
      <4>1. sla'[p] = (0 + Cardinality(StreakOf(checks, p))) % Threshold
        BY <3>3 DEF Restart, LoadSLAs, NoSla
      <4>2. QED
        BY <3>1, <4>1
    <3>4. QED
      BY <3>2, <3>3
  <2>2. QED
    BY <1>2, <2>1 DEF CounterIsStreak
<1>6. PenaltyPerViolation'
  <2>1. ASSUME ~mixed, Resetting, NEW p \in Pair
        PROVE  slas[p] = 0 /\ Cardinality(ViolationsOf(checks, p)) = 0
    <3>1. checks = <<>> /\ slas = NoSla
      BY <2>1 DEF IInv, Emptied
    <3>2. QED
      BY <3>1, NoRows, FS_EmptySet DEF NoSla
  <2>2. ASSUME ~mixed, ~Resetting, NEW p \in Pair
        PROVE  /\ slas[p] <= Cardinality(ViolationsOf(checks, p))
               /\ p \notin unpaid' => slas[p] = Cardinality(ViolationsOf(checks, p))
    <3>1. /\ checks = Counted \o batch /\ Counted \in Seq(Check)
          /\ slas[p] <= Cardinality(ViolationsOf(Counted, p))
          /\ p \notin unpaid => slas[p] = Cardinality(ViolationsOf(Counted, p))
      BY <2>2 DEF IInv, Aligned, PenaltyPerViolation, Calm
    <3>2. /\ ViolationsOf(Counted, p) \subseteq ViolationsOf(checks, p)
          /\ (\A i \in DOMAIN batch : batch[i].pair # p) =>
               ViolationsOf(checks, p) = ViolationsOf(Counted, p)
      BY <1>1, <3>1, ViolationsConcat
    <3>3. /\ IsFiniteSet(ViolationsOf(checks, p)) /\ Cardinality(ViolationsOf(checks, p)) \in Nat
          /\ Cardinality(ViolationsOf(Counted, p)) \in Nat
      BY <1>1, <3>1, RowSets
    <3>4. Cardinality(ViolationsOf(Counted, p)) <= Cardinality(ViolationsOf(checks, p))
      BY <3>2, <3>3, FS_Subset
    <3>5. slas[p] <= Cardinality(ViolationsOf(checks, p))
      BY <1>1, <3>1, <3>3, <3>4
    <3>6. ASSUME p \notin unpaid' PROVE slas[p] = Cardinality(ViolationsOf(checks, p))
      <4>1. p \notin unpaid /\ \A i \in DOMAIN batch : batch[i].pair # p
        BY <1>1, <3>6
      <4>2. QED
        BY <3>1, <3>2, <4>1
    <3>7. QED
      BY <3>5, <3>6
  <2>3. ASSUME ~mixed, NEW p \in Pair
        PROVE  /\ slas[p] <= Cardinality(ViolationsOf(checks, p))
               /\ p \notin unpaid' => slas[p] = Cardinality(ViolationsOf(checks, p))
    BY <2>1, <2>2, <2>3
  <2>4. QED
    BY <1>1, <1>2, <2>3 DEF PenaltyPerViolation, Calm
<1>7. QED
  BY <1>3, <1>4, <1>5, <1>6

\* The ledger of no rows.
LEMMA EmptyAgain ==
  ASSUME checks' = <<>>, batch' = <<>>, slas' = NoSla, uptime' = NoUptime, sla' = NoSla
  PROVE  (Aligned /\ UptimeIsHistory /\ CounterIsStreak /\ PenaltyPerViolation)'
<1>1. Counted' = <<>> /\ <<>> \in Seq(Check)
  BY EmptySeq, SubSeqEmpty DEF Counted
<1>2. ASSUME NEW p \in Pair
      PROVE  /\ Cardinality(ViolationsOf(<<>>, p)) = 0 /\ slas'[p] = 0
             /\ Cardinality(StreakOf(<<>>, p)) = 0 /\ sla'[p] = 0 /\ 0 % Threshold = 0
             /\ UptimeOf(<<>>, p) = uptime'[p]
  BY <1>1, NoRows, FS_EmptySet, ModNext DEF NoSla, NoUptime
<1>3. Aligned'
  BY <1>1, ConcatEmptySeq DEF Aligned
<1>4. UptimeIsHistory' /\ CounterIsStreak' /\ PenaltyPerViolation'
  BY <1>1, <1>2 DEF UptimeIsHistory, CounterIsStreak, PenaltyPerViolation
<1>5. QED
  BY <1>3, <1>4

\* A reset that no round meets ends with everything empty.
LEMMA ResetStep ==
  ASSUME IInv,
         ResetTables \/ ResetAborts \/ PublishReset \/ WipeUptimes \/ WipeSlas
           \/ ReloadUptimes \/ ReloadSlas
  PROVE  (Aligned /\ Idle /\ Emptied /\ Wiped /\ UptimeIsHistory /\ CounterIsStreak
            /\ PenaltyPerViolation)'
<1> USE DEF dbVars, roundVars, mapVars, resetVars, histVars
<1> DEFINE Vacuous == (Aligned /\ UptimeIsHistory /\ CounterIsStreak /\ PenaltyPerViolation)'
<1>1. UNCHANGED <<pc, batch>> /\ Idle'
  BY DEF IInv, Idle, ResetTables, ResetAborts, PublishReset, WipeUptimes, WipeSlas, ReloadUptimes,
         ReloadSlas
<1>2. ~Calm' => Vacuous
  BY DEF Aligned, UptimeIsHistory, CounterIsStreak, PenaltyPerViolation
<1>3. ~mixed /\ Resetting => pc = "round" /\ batch = <<>> /\ checks = <<>> /\ slas = NoSla
  BY DEF IInv, Emptied, Idle
<1>4. CASE ResetTables
  <2>1. ~Calm' /\ Emptied' /\ Wiped'
    BY <1>4 DEF ResetTables, Calm, Resetting, Emptied, Wiped
  <2>2. QED
    BY <1>1, <1>2, <2>1
<1>5. CASE ResetAborts
  <2>1. ~Calm' /\ Emptied' /\ Wiped'
    BY <1>5 DEF ResetAborts, Calm, Emptied, Wiped
  <2>2. QED
    BY <1>1, <1>2, <2>1
<1>6. CASE PublishReset
  <2>1. ~Calm' /\ Emptied' /\ Wiped'
    BY <1>3, <1>6 DEF PublishReset, Calm, Resetting, Emptied, Wiped
  <2>2. QED
    BY <1>1, <1>2, <2>1
<1>7. CASE WipeUptimes
  <2>1. ~Calm' /\ Emptied' /\ Wiped'
    BY <1>3, <1>7 DEF WipeUptimes, Calm, Resetting, Emptied, Wiped
  <2>2. QED
    BY <1>1, <1>2, <2>1
<1>8. CASE WipeSlas
  <2>1. /\ wipe = "uptimes wiped" /\ wipe' = "no" /\ sla' = NoSla
        /\ UNCHANGED <<checks, slas, uptime, reload, mixed>>
    BY <1>8 DEF WipeSlas
  <2>2. ~mixed => uptime = NoUptime /\ checks = <<>> /\ slas = NoSla /\ pc = "round" /\ batch = <<>>
    BY <1>3, <2>1 DEF IInv, Wiped, Resetting
  <2>3. Emptied' /\ Wiped'
    BY <1>1, <2>1, <2>2 DEF Emptied, Wiped
  <2>4. Calm' => Vacuous
    BY <1>1, <2>1, <2>2, EmptyAgain DEF Calm
  <2>5. QED
    BY <1>1, <1>2, <2>3, <2>4
<1>9. CASE ReloadUptimes
  <2>1. /\ reload = "uptimes" /\ reload' = "slas" /\ uptime' = LoadUptimes(uptime)
        /\ UNCHANGED <<checks, slas, sla, wipe, mixed>>
    BY <1>9 DEF ReloadUptimes
  <2>2. ~mixed /\ uptime = NoUptime => uptime' = NoUptime
    <3>1. SUFFICES ASSUME ~mixed, uptime = NoUptime PROVE uptime' = NoUptime
      OBVIOUS
    <3>2. checks = <<>>
      BY <1>3, <2>1, <3>1 DEF Resetting
    <3>3. QED
      BY <2>1, <3>1, <3>2, NoRows DEF LoadUptimes, NoUptime
  <2>3. ~Calm' /\ Emptied'
    BY <1>1, <1>3, <2>1 DEF Calm, Resetting, Emptied
  <2>4. Wiped'
    BY <2>1, <2>2 DEF IInv, Wiped
  <2>5. QED
    BY <1>1, <1>2, <2>3, <2>4
<1>10. CASE ReloadSlas
  <2>1. /\ reload = "slas" /\ reload' = "no" /\ sla' = LoadSLAs(sla)
        /\ UNCHANGED <<checks, slas, uptime, wipe, mixed>>
    BY <1>10 DEF ReloadSlas
  <2>2. ~mixed /\ wipe = "no" =>
          /\ sla' = NoSla /\ uptime = NoUptime /\ checks = <<>> /\ slas = NoSla /\ batch = <<>>
    <3>1. SUFFICES ASSUME ~mixed, wipe = "no"
                   PROVE  /\ sla' = NoSla /\ uptime = NoUptime
                          /\ checks = <<>> /\ slas = NoSla /\ batch = <<>>
      OBVIOUS
    <3>2. /\ checks = <<>> /\ slas = NoSla /\ batch = <<>>
          /\ uptime = NoUptime /\ sla = NoSla
      BY <1>3, <2>1, <3>1 DEF IInv, Wiped, Resetting
    <3>3. LoadSLAs(sla) = NoSla
      BY <3>2, NoRows DEF LoadSLAs, NoSla
    <3>4. QED
      BY <2>1, <3>2, <3>3
  <2>3. Emptied' /\ Wiped'
    BY <1>1, <1>3, <2>1 DEF IInv, Emptied, Wiped, Resetting
  <2>4. Calm' => Vacuous
    BY <1>1, <2>1, <2>2, EmptyAgain DEF Calm, Resetting
  <2>5. QED
    BY <1>1, <1>2, <2>3, <2>4
<1>11. QED
  BY <1>4, <1>5, <1>6, <1>7, <1>8, <1>9, <1>10

\* The strengthened invariant is an invariant of the ledger.
LEMMA InductiveInv == Spec => []IInv
<1>1. IInv /\ [Next]_vars => IInv'
  <2>1. SUFFICES ASSUME IInv, [Next]_vars
                 PROVE  (Aligned /\ Idle /\ Emptied /\ Wiped /\ UptimeIsHistory
                           /\ CounterIsStreak /\ PenaltyPerViolation)'
    BY TypeStep DEF IInv
  <2>2. ASSUME UNCHANGED <<checks, slas, batch, uptime, sla, wipe, reload, mixed, unpaid>>,
               pc' = "round" => batch = <<>>, pc = "round" => pc' = "round"
        PROVE  (Aligned /\ Idle /\ Emptied /\ Wiped /\ UptimeIsHistory
                  /\ CounterIsStreak /\ PenaltyPerViolation)'
    <3>1. Counted' = Counted /\ Calm' = Calm /\ Resetting' = Resetting
      BY <2>2 DEF Counted, Calm, Resetting
    <3>2. QED
      BY <2>1, <2>2, <3>1 DEF IInv, Aligned, Idle, Emptied, Wiped, UptimeIsHistory, CounterIsStreak,
         PenaltyPerViolation
  <2>3. CASE Lock \/ Unlock \/ Renumber \/ UNCHANGED vars
    BY <2>1, <2>2, <2>3 DEF Lock, Unlock, Renumber, vars, dbVars, roundVars, mapVars, resetVars, histVars, IInv, Idle
  <2>4. QED
    BY <2>1, <2>3, SaveStep, ApplyStep, RestartStep, ResetStep DEF Next
<1>2. QED
  BY InitInv, <1>1, PTL DEF Spec

\* Every variable of the ledger has its type; the counters in memory stay
\* below the threshold (engine.go:574-611).
THEOREM TypeCorrect == Spec => []TypeOK
<1>1. IInv => TypeOK
  BY DEF IInv
<1>2. QED
  BY InductiveInv, <1>1, PTL

\* The uptimes shown are those of the rows counted, whatever rounds, crashes
\* and resets that miss the processing of a round came before
\* (engine.go:574-588, db/servicechecks.go:147-180).
THEOREM UptimesAreHistory == Spec => []UptimeIsHistory
<1>1. IInv => UptimeIsHistory
  BY DEF IInv
<1>2. QED
  BY InductiveInv, <1>1, PTL

\* The live counter and the one LoadSLAs computes are the streak modulo the
\* threshold (engine.go:596-611, db/servicechecks.go:298-302).
THEOREM CountersAreStreaks == Spec => []CounterIsStreak
<1>1. IInv => CounterIsStreak
  BY DEF IInv
<1>2. QED
  BY InductiveInv, <1>1, PTL

\* One SLA row for each time a streak completes the threshold, never more,
\* and fewer only by a failed insert or a crash (engine.go:596-611).
THEOREM PenaltiesArePaid == Spec => []PenaltyPerViolation
<1>1. IInv => PenaltyPerViolation
  BY DEF IInv
<1>2. QED
  BY InductiveInv, <1>1, PTL

-----------------------------------------------------------------------------
(* The loop of LoadSLAs *)

\* Induction, with a set in the place of the predicate.
LEMMA SetInduction ==
  ASSUME NEW T \in SUBSET Nat, 0 \in T, \A n \in T : n + 1 \in T
  PROVE  T = Nat
<1> DEFINE Rest == Nat \ T
<1>1. SUFFICES ASSUME Rest # {} PROVE FALSE
  OBVIOUS
<1>2. IsWellFoundedOn(OpToRel(<, Nat), Nat)
  BY NatLessThanWellFounded
<1>3. Rest \subseteq Nat
  OBVIOUS
<1> HIDE DEF Rest
<1>4. PICK x \in Rest : \A y \in Rest : ~ (<<y, x>> \in OpToRel(<, Nat))
  BY ONLY <1>1, <1>2, <1>3, WFMin
<1> USE DEF Rest
<1>5. x \in Nat /\ \A y \in Rest : ~ (y < x)
  BY <1>4 DEF OpToRel
<1>6. x # 0
  BY <1>4, <1>5
<1>7. x - 1 \in Nat /\ x - 1 < x /\ (x - 1) + 1 = x
  BY <1>5, <1>6
<1>8. x - 1 \in T
  BY <1>5, <1>7
<1>9. QED
  BY <1>4, <1>7, <1>8

\* What LoadSLAs makes of the counter of p, had it read the rows of s.
LoadSLA(old, s, p) ==
  IF Of(s, p) = {} THEN old
  ELSE ((IF PassedOf(s, p) = {} THEN old ELSE 0) + Cardinality(StreakOf(s, p))) % Threshold

\* It reads one row more as an iteration of the loop does.
LEMMA LoadRow ==
  ASSUME NEW old \in 0 .. Threshold - 1, NEW s \in Seq(Check), NEW c \in Check, NEW p \in Pair
  PROVE  LoadSLA(old, Append(s, c), p) =
           IF c.pair # p THEN LoadSLA(old, s, p)
           ELSE IF c.ok THEN 0 ELSE (LoadSLA(old, s, p) + 1) % Threshold
<1> DEFINE t == Append(s, c)
           from == IF PassedOf(s, p) = {} THEN old ELSE 0
           streak == Cardinality(StreakOf(s, p))
<1>1. streak \in Nat /\ old \in Nat /\ old % Threshold = old /\ from \in Nat
  BY StreakCount, ThresholdAssumption
<1>2. CASE c.pair # p
  BY <1>2, OfAppend, PassedAppend, StreakAppend DEF LoadSLA
<1>3. CASE c.pair = p /\ c.ok
  <2>1. Of(t, p) # {} /\ PassedOf(t, p) # {} /\ StreakOf(t, p) = {}
    BY <1>3, OfAppend, PassedAppend, StreakAppend
  <2>2. LoadSLA(old, t, p) = (0 + Cardinality({})) % Threshold
    BY <2>1 DEF LoadSLA
  <2>3. LoadSLA(old, t, p) = 0
    BY <2>2, FS_EmptySet, ThresholdAssumption
  <2>4. QED
    BY <1>3, <2>3
<1>4. CASE c.pair = p /\ ~c.ok
  <2>1. Of(t, p) # {} /\ PassedOf(t, p) = PassedOf(s, p) /\ Cardinality(StreakOf(t, p)) = streak + 1
    BY <1>4, OfAppend, PassedAppend, StreakCount
  <2>2. LoadSLA(old, t, p) = (from + (streak + 1)) % Threshold
    BY <2>1 DEF LoadSLA
  <2>3. LoadSLA(old, s, p) = (from + streak) % Threshold
    <3>1. CASE Of(s, p) = {}
      <4>1. PassedOf(s, p) = {} /\ StreakOf(s, p) = {}
        BY <3>1 DEF PassedOf, StreakOf
      <4>2. from = old /\ streak = 0
        BY <4>1, FS_EmptySet
      <4>3. QED
        BY <1>1, <3>1, <4>2 DEF LoadSLA
    <3>2. CASE Of(s, p) # {}
      BY <3>2 DEF LoadSLA
    <3>3. QED
      BY <3>1, <3>2
  <2> HIDE DEF from, streak
  <2>4. from + streak \in Nat /\ from + (streak + 1) = (from + streak) + 1
    BY <1>1
  <2>5. QED
    BY <1>4, <2>2, <2>3, <2>4, ModTwice
<1>5. QED
  BY <1>2, <1>3, <1>4

\* The counter that each iteration computes from the one before.
Loop(count, old, s, p) ==
  [n \in 0 .. Len(s) |->
     IF n = 0 THEN old
     ELSE IF s[n].pair # p THEN count[n - 1]
     ELSE IF s[n].ok THEN 0
     ELSE (count[n - 1] + 1) % Threshold]

\* The first n rows, one by one.
LEMMA Prefixes ==
  ASSUME NEW s \in Seq(Check), NEW n \in 0 .. Len(s)
  PROVE  /\ SubSeq(s, 1, n) \in Seq(Check)
         /\ n < Len(s) =>
              s[n + 1] \in Check /\ SubSeq(s, 1, n + 1) = Append(SubSeq(s, 1, n), s[n + 1])
<1>1. Len(s) \in Nat /\ n \in Nat
  BY LenProperties
<1>2. SubSeq(s, 1, n) \in Seq(Check) /\ Len(SubSeq(s, 1, n)) = n
  BY <1>1, ElementOfSeq, SubSeqProperties
<1>3. ASSUME n < Len(s)
      PROVE  s[n + 1] \in Check /\ SubSeq(s, 1, n + 1) = Append(SubSeq(s, 1, n), s[n + 1])
  <2>1. n + 1 \in 1 .. Len(s)
    BY <1>1, <1>3
  <2>2. s[n + 1] \in Check
    BY <2>1, ElementOfSeq
  <2> DEFINE a == SubSeq(s, 1, n + 1)
             b == Append(SubSeq(s, 1, n), s[n + 1])
  <2>3. a \in Seq(Check) /\ Len(a) = n + 1 /\ \A i \in 1 .. n + 1 : a[i] = s[i]
    BY <1>1, <2>1, ElementOfSeq, SubSeqProperties
  <2>4. b \in Seq(Check) /\ Len(b) = n + 1 /\ \A i \in 1 .. n + 1 : b[i] = s[i]
    <3>1. \A i \in 1 .. n : SubSeq(s, 1, n)[i] = s[i]
      BY <1>1, ElementOfSeq, SubSeqProperties
    <3>2. QED
      BY <1>1, <1>2, <2>2, <3>1, AppendProperties
  <2>5. a = b
    BY <2>3, <2>4, SeqEqual
  <2>6. QED
    BY <2>2, <2>5
<1>4. QED
  BY <1>2, <1>3

\* The closed form counts as the loop does, and what counts as the loop does
\* is the closed form.
LEMMA LoopIsLoad ==
  ASSUME NEW old \in 0 .. Threshold - 1, NEW s \in Seq(Check), NEW p \in Pair
  PROVE  CountRows(old, s, p) = LoadSLA(old, s, p)
<1> DEFINE load == [n \in 0 .. Len(s) |-> LoadSLA(old, SubSeq(s, 1, n), p)]
           count == CHOOSE f : f = Loop(f, old, s, p)
<1>1. Len(s) \in Nat
  BY LenProperties
<1>2. load[0] = old
  <2>1. SubSeq(s, 1, 0) = <<>>
    BY SubSeqEmpty
  <2>2. QED
    BY <1>1, <2>1, NoRows DEF LoadSLA, Of
<1>3. ASSUME NEW n \in 0 .. Len(s), n # 0
      PROVE  load[n] = IF s[n].pair # p THEN load[n - 1]
                       ELSE IF s[n].ok THEN 0 ELSE (load[n - 1] + 1) % Threshold
  <2>1. n - 1 \in 0 .. Len(s) /\ n - 1 < Len(s) /\ (n - 1) + 1 = n
    BY <1>1, <1>3
  <2>2. /\ SubSeq(s, 1, n - 1) \in Seq(Check) /\ s[n] \in Check
        /\ SubSeq(s, 1, n) = Append(SubSeq(s, 1, n - 1), s[n])
    <3> DEFINE m == n - 1
    <3>1. m \in 0 .. Len(s) /\ m < Len(s) /\ m + 1 = n
      BY <2>1
    <3> HIDE DEF m
    <3>2. /\ SubSeq(s, 1, m) \in Seq(Check) /\ s[m + 1] \in Check
          /\ SubSeq(s, 1, m + 1) = Append(SubSeq(s, 1, m), s[m + 1])
      BY <3>1, Prefixes
    <3>3. QED
      BY <3>1, <3>2 DEF m
  <2>3. /\ load[n] = LoadSLA(old, Append(SubSeq(s, 1, n - 1), s[n]), p)
        /\ load[n - 1] = LoadSLA(old, SubSeq(s, 1, n - 1), p)
    BY <2>1, <2>2
  <2> DEFINE a == SubSeq(s, 1, n - 1)
             c == s[n]
  <2>4. a \in Seq(Check) /\ c \in Check
    BY <2>2
  <2> HIDE DEF a, c, load
  <2>5. LoadSLA(old, Append(a, c), p) =
          IF c.pair # p THEN LoadSLA(old, a, p)
          ELSE IF c.ok THEN 0 ELSE (LoadSLA(old, a, p) + 1) % Threshold
    BY <2>4, LoadRow
  <2>6. QED
    BY <2>3, <2>5 DEF a, c
<1>4. load = Loop(load, old, s, p)
  <2> HIDE DEF load
  <2>1. \A n \in 0 .. Len(s) : load[n] = Loop(load, old, s, p)[n]
    BY <1>1, <1>2, <1>3 DEF Loop
  <2> USE DEF load
  <2>2. QED
    BY <2>1 DEF Loop
<1>5. count = Loop(count, old, s, p)
  <2> HIDE DEF load
  <2>1. \E f : f = Loop(f, old, s, p)
    BY <1>4
  <2>2. QED
    BY <2>1
<1>6. CountRows(old, s, p) = count[Len(s)]
  BY DEF CountRows, Loop
<1> HIDE DEF count, load
<1> DEFINE T == {n \in Nat : n \in 0 .. Len(s) => count[n] = load[n]}
<1>7. 0 \in T
  BY <1>1, <1>2, <1>5 DEF Loop
<1>8. ASSUME NEW n \in T PROVE n + 1 \in T
  <2>1. SUFFICES ASSUME n + 1 \in 0 .. Len(s) PROVE count[n + 1] = load[n + 1]
    OBVIOUS
  <2>2. n \in 0 .. Len(s) /\ (n + 1) - 1 = n /\ n + 1 # 0 /\ count[n] = load[n]
    BY <1>1, <2>1
  <2>3. count[n + 1] = Loop(count, old, s, p)[n + 1] /\ load[n + 1] = Loop(load, old, s, p)[n + 1]
    BY <1>4, <1>5
  <2>4. QED
    BY <2>1, <2>2, <2>3 DEF Loop
<1>9. T = Nat
  <2>1. T \in SUBSET Nat
    OBVIOUS
  <2> HIDE DEF T
  <2>2. QED
    BY <1>7, <1>8, <2>1, SetInduction
<1>10. count[Len(s)] = load[Len(s)]
  BY <1>1, <1>9
<1>11. load[Len(s)] = LoadSLA(old, s, p)
  <2>1. load[Len(s)] = LoadSLA(old, SubSeq(s, 1, Len(s)), p)
    BY <1>1 DEF load
  <2>2. QED
    BY <2>1, SubSeqFull
<1>12. QED
  BY <1>6, <1>10, <1>11

\* THE LOOP OF LoadSLAs.  Whatever rows the check table holds and whatever the
\* counter was before, the rows read one by one leave the counter that LoadSLAs
\* of the model gives: what a restart rebuilds is what the rows say
\* (db/servicechecks.go:286-303).
THEOREM LoadIsTheLoop == Spec => []LoadSLAsIsTheLoop
<1>1. TypeOK => LoadSLAsIsTheLoop
  <2>1. SUFFICES ASSUME TypeOK, NEW old \in 0 .. Threshold - 1, NEW p \in Pair
                 PROVE  LoadSLAs([q \in Pair |-> old])[p] = CountRows(old, checks, p)
    BY DEF LoadSLAsIsTheLoop
  <2>2. checks \in Seq(Check)
    BY <2>1 DEF TypeOK
  <2>3. LoadSLAs([q \in Pair |-> old])[p] = LoadSLA(old, checks, p)
    BY DEF LoadSLAs, LoadSLA
  <2>4. QED
    BY <2>2, <2>3, LoopIsLoad
<1>2. QED
  BY <1>1, TypeCorrect, PTL

\* The rows of other pairs, and where the rows of p stand among them, do not
\* matter to the counter of p: it is enough that the database returns the rows
\* of each pair in the order of their insertion, which LoadSLAs relies on and
\* does not ask for (db/servicechecks.go:279-303).
THEOREM OwnOrderCounts ==
  ASSUME NEW old \in 0 .. Threshold - 1, NEW p \in Pair,
         NEW s \in Seq(Check), NEW t \in Seq(Check),
         NEW f \in Bijection(Of(s, p), Of(t, p)),
         \A i \in Of(s, p) : t[f[i]].ok = s[i].ok,
         \A i, j \in Of(s, p) : i <= j => f[i] <= f[j]
  PROVE  CountRows(old, s, p) = CountRows(old, t, p)
<1>1. /\ f \in [Of(s, p) -> Of(t, p)]
      /\ \A i, j \in Of(s, p) : f[i] = f[j] => i = j
      /\ \A k \in Of(t, p) : \E i \in Of(s, p) : f[i] = k
  BY DEF Bijection, Injection, Surjection, IsInjective
<1>2. Of(s, p) \subseteq Nat /\ Of(t, p) \subseteq Nat
  BY LenProperties DEF Of
<1>3. \A i, j \in Of(s, p) : f[i] <= f[j] => i <= j
  <2> SUFFICES ASSUME NEW i \in Of(s, p), NEW j \in Of(s, p), f[i] <= f[j], ~(i <= j) PROVE FALSE
    OBVIOUS
  <2>1. f[j] <= f[i] /\ f[i] \in Nat /\ f[j] \in Nat /\ i \in Nat /\ j \in Nat
    BY <1>1, <1>2
  <2>2. f[i] = f[j]
    BY <2>1
  <2>3. QED
    BY <1>1, <2>1, <2>2
<1>4. Of(s, p) = {} <=> Of(t, p) = {}
  BY <1>1
<1>5. PassedOf(s, p) = {} <=> PassedOf(t, p) = {}
  BY <1>1 DEF PassedOf
<1>6. \A i \in Of(s, p) : i \in StreakOf(s, p) <=> f[i] \in StreakOf(t, p)
  <2>1. ASSUME NEW i \in Of(s, p), i \in StreakOf(s, p) PROVE f[i] \in StreakOf(t, p)
    <3>1. ASSUME NEW k \in Of(t, p), k >= f[i] PROVE ~t[k].ok
      <4>1. PICK j \in Of(s, p) : f[j] = k
        BY <1>1
      <4>2. f[i] <= f[j] /\ i \in Nat /\ j \in Nat
        BY <1>1, <1>2, <3>1, <4>1
      <4>3. j >= i
        BY <1>3, <4>2
      <4>4. QED
        BY <2>1, <4>1, <4>3 DEF StreakOf
    <3>2. QED
      BY <1>1, <3>1 DEF StreakOf
  <2>2. ASSUME NEW i \in Of(s, p), f[i] \in StreakOf(t, p) PROVE i \in StreakOf(s, p)
    <3>1. ASSUME NEW j \in Of(s, p), j >= i PROVE ~s[j].ok
      <4>1. f[j] >= f[i] /\ f[j] \in Of(t, p)
        BY <1>1, <1>2, <3>1
      <4>2. QED
        BY <2>2, <4>1 DEF StreakOf
    <3>2. QED
      BY <3>1 DEF StreakOf
  <2>3. QED
    BY <2>1, <2>2
<1>7. Cardinality(StreakOf(s, p)) = Cardinality(StreakOf(t, p))
  <2> DEFINE A == StreakOf(s, p)
             B == StreakOf(t, p)
             g == [i \in A |-> f[i]]
  <2>1. A \subseteq Of(s, p) /\ B \subseteq Of(t, p)
    BY DEF StreakOf
  <2> HIDE DEF A, B
  <2>2. g \in [A -> B] /\ \A i, j \in A : g[i] = g[j] => i = j
    BY <1>1, <1>6, <2>1 DEF A, B
  <2>3. \A k \in B : \E i \in A : g[i] = k
    <3>1. ASSUME NEW k \in B PROVE \E i \in A : g[i] = k
      <4>1. PICK i \in Of(s, p) : f[i] = k
        BY <1>1, <2>1
      <4>2. i \in A
        BY <1>6, <4>1 DEF A, B
      <4>3. QED
        BY <4>1, <4>2
    <3>2. QED
      BY <3>1
  <2>4. g \in Bijection(A, B)
    <3> HIDE DEF g
    <3>1. QED
      BY <2>2, <2>3 DEF Bijection, Injection, Surjection, IsInjective
  <2>5. ExistsBijection(A, B)
    BY <2>4 DEF ExistsBijection
  <2>6. IsFiniteSet(A)
    BY RowSets DEF A
  <2>7. Cardinality(A) = Cardinality(B)
    BY <2>5, <2>6, FS_Bijection
  <2>8. QED
    BY <2>7 DEF A, B
<1>8. LoadSLA(old, s, p) = LoadSLA(old, t, p)
  BY <1>4, <1>5, <1>7 DEF LoadSLA
<1>9. QED
  BY <1>8, LoopIsLoad

=============================================================================
