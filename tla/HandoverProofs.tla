--------------------------- MODULE HandoverProofs ---------------------------
(***************************************************************************)
(* Proofs about Handover, for any number of pairs, runners, starts, resets *)
(* and rounds.                                                             *)
(*                                                                         *)
(* Always holds whatever a reset meets: where a replaced loop stands       *)
(* (Replaced), the locals of rvb() (Locals), the queue of blocked clients  *)
(* (Queue), and that a round which has its message looks before the next   *)
(* pop (OneMore).  Nothing more is needed for what the latest loop's round *)
(* loses: each task it enqueued is on its way to the loop, or a runner     *)
(* exited with it, or an older loop took it (Kept), and an older loop that *)
(* took one had its message and takes no second (TookOne).                 *)
(*                                                                         *)
(* When no reset meets a round, one loop at most is in one and it is the   *)
(* latest (Serial); a task is in one place (Apart) and of a pair already   *)
(* enqueued (Known).  And unless a push comes late, all that can still be  *)
(* taken for a result has a lower number than the round's or is its own    *)
(* (Numbered), because a reset, which lowers the number, has emptied the   *)
(* lists and stopped every runner that holds a task (Emptied).  So a full  *)
(* collection is one result of each pair.                                  *)
(***************************************************************************)
EXTENDS Handover, SequenceTheorems, FiniteSetTheorems, TLAPS

Injective(s) == \A i, j \in DOMAIN s : s[i] = s[j] => i = j

\* A loop Start has moved on from is gone or has a reset on its way; the next
\* ones have not begun.
Replaced ==
  /\ \A g \in Gen : g < gen \/ (g = gen /\ main # "waiting") => loop[g] = "gone" \/ inbox[g] # "none"
  /\ \A g \in Gen : loop[g] = "none" <=> g > gen
  /\ main = "starting" => gen < MaxStarts

\* The locals of rvb() are there while the round is; the result just popped is one.
LocalsOf(g) ==
  /\ ~InRound(g) => /\ roundInbox[g] = "none" /\ todo[g] = {}
                    /\ runners[g] = 0 /\ collected[g] = <<>>
  /\ InRound(g) => runners[g] = Cardinality(Pair \ todo[g])
  /\ loop[g] \in {"collect", "blocked", "popped"} => todo[g] = {}
  /\ loop[g] = "clear" => todo[g] = Pair
  /\ loop[g] # "popped" => popped[g] = {}
  /\ loop[g] = "popped" => \E t \in popped[g] : popped[g] = {t}

Locals == \A g \in Gen : LocalsOf(g)

\* Redis has every blocked client once in its queue, and no other.
Queue == Injective(waiters) /\ \A i \in DOMAIN waiters : loop[waiters[i]] = "blocked"

\* A round that took one more result after its message looks before the next pop.
OneMoreOf(g) ==
  /\ after[g] <= 1
  /\ after[g] = 1 /\ InRound(g) => roundInbox[g] = "told" /\ loop[g] \in {"collect", "popped"}

OneMore == \A g \in Gen : OneMoreOf(g)

\* A reset that meets no round: then one loop at most is in one, the latest,
\* and no message is on its way to it.
Active(g) == InRound(g) \/ loop[g] = "saved"

Serial ==
  \A g \in Gen : Active(g) =>
     /\ g = gen /\ main = "waiting" /\ reset = "idle"
     /\ inbox[g] = "none" /\ roundInbox[g] = "none"

\* Where a task can be, the round of the latest loop being the only one.
Somewhere(t) ==
  \/ t \in Elements(tasks) \/ t \in Elements(results)
  \/ t \in Elements(collected[gen]) \/ t \in popped[gen]
  \/ \E r \in Runner : t \in working[r]

OwnTask(p) == [pair |-> p, round |-> CurrentRound, open |-> opening[gen]]

\* What may still be taken for a result: all but what a runner has in hand that
\* is about to exit.
Live(t) ==
  \/ t \in Elements(tasks) \/ t \in Elements(results)
  \/ t \in Elements(collected[gen]) \/ t \in popped[gen]
  \/ \E r \in Runner : ~signalled[r] /\ t \in working[r]

Numbered ==
  \A t \in Places(gen) : Live(t) =>
    \/ t.round < CurrentRound
    \/ t.round = CurrentRound /\ t.open = opening[gen] /\ Active(gen)

CollectedHere == \A t \in Elements(collected[gen]) : t.round = CurrentRound

\* How far the reset has come with emptying.
Emptied ==
  /\ reset # "idle" \/ main # "waiting" => DOMAIN rounds = {}
  /\ reset \in {"tasksGone", "resultsGone", "published"} \/ main # "waiting" => tasks = <<>>
  /\ reset \in {"resultsGone", "published"} \/ main # "waiting" => results = <<>>
  /\ reset = "published" \/ main # "waiting" => \A r \in Runner : ~signalled[r] => working[r] = {}

\* One task, one place: T and R are in the lists, C and P with the loop, W in
\* the runners' hands.
Disjoint(T, R, C, P, W) ==
  /\ T \cap R = {} /\ (T \cup R) \cap (C \cup P) = {} /\ C \cap P = {}
  /\ \A r \in Runner : W[r] \cap (T \cup R \cup C \cup P) = {}
  /\ \A q, r \in Runner : q # r => W[q] \cap W[r] = {}

Apart ==
  /\ Injective(tasks) /\ Injective(results) /\ Injective(collected[gen])
  /\ Disjoint(Elements(tasks), Elements(results), Elements(collected[gen]), popped[gen], working)

\* No task is of an opening to come, nor of a pair the round has still to enqueue.
Known ==
  /\ \A t \in Places(gen) :
       t.open <= opens /\ (InRound(gen) /\ t.open = opening[gen] => t.pair \notin todo[gen])
  /\ \A g \in Gen : opening[g] <= opens

Always == TypeOK /\ Replaced /\ Locals /\ Queue /\ OneMore

IInv ==
  /\ Always
  /\ ~crossed => Serial /\ Apart /\ Known
  /\ ~crossed /\ ~late => Numbered /\ CollectedHere /\ Emptied
  /\ FreshAfterReset

-----------------------------------------------------------------------------
(* Sequences *)

\* RPush adds its element at the end and moves nothing.
LEMMA AppendFacts ==
  ASSUME NEW S, NEW s \in Seq(S), NEW e \in S
  PROVE  /\ Append(s, e) \in Seq(S)
         /\ Elements(Append(s, e)) = Elements(s) \cup {e}
         /\ Injective(s) /\ e \notin Elements(s) => Injective(Append(s, e))
<1>1. /\ Append(s, e) \in Seq(S) /\ Len(s) \in Nat
      /\ DOMAIN s = 1 .. Len(s) /\ DOMAIN Append(s, e) = 1 .. (Len(s) + 1)
      /\ Len(Append(s, e)) = Len(s) + 1
      /\ \A i \in 1 .. Len(s) : Append(s, e)[i] = s[i]
      /\ Append(s, e)[Len(s) + 1] = e
  OBVIOUS
<1>2. \A i \in 1 .. (Len(s) + 1) : i \in 1 .. Len(s) \/ i = Len(s) + 1
  BY <1>1
<1>3. \A i \in 1 .. Len(s) : i \in 1 .. (Len(s) + 1)
  BY <1>1
<1>4. Len(s) + 1 \in 1 .. (Len(s) + 1)
  BY <1>1
<1>5. ASSUME NEW x \in Elements(Append(s, e)) PROVE x \in Elements(s) \cup {e}
  <2>1. PICK i \in 1 .. (Len(s) + 1) : x = Append(s, e)[i]
    BY <1>1, <1>5 DEF Elements
  <2>2. QED
    BY <2>1, <1>1, <1>2 DEF Elements
<1>6. ASSUME NEW x \in Elements(s) \cup {e} PROVE x \in Elements(Append(s, e))
  <2>1. PICK i \in 1 .. (Len(s) + 1) : x = Append(s, e)[i]
    BY <1>1, <1>3, <1>4, <1>6 DEF Elements
  <2>2. QED
    BY <2>1, <1>1 DEF Elements
<1>7. ASSUME Injective(s), e \notin Elements(s) PROVE Injective(Append(s, e))
  <2>1. \A k \in 1 .. Len(s) : s[k] # e
    BY <1>7 DEF Elements
  <2>2. \A i, j \in 1 .. Len(s) : s[i] = s[j] => i = j
    BY <1>1, <1>7 DEF Injective
  <2>3. \A i, j \in 1 .. (Len(s) + 1) : Append(s, e)[i] = Append(s, e)[j] => i = j
    BY <1>1, <1>2, <2>1, <2>2
  <2>4. QED
    BY <1>1, <2>3 DEF Injective
<1>8. QED
  BY <1>1, <1>5, <1>6, <1>7

\* BLPop takes the first element and moves the others up by one.
LEMMA TailFacts ==
  ASSUME NEW S, NEW s \in Seq(S), s # <<>>
  PROVE  /\ Head(s) \in S /\ Tail(s) \in Seq(S)
         /\ Elements(s) = Elements(Tail(s)) \cup {Head(s)}
         /\ Injective(s) => Injective(Tail(s)) /\ Head(s) \notin Elements(Tail(s))
<1>1. /\ Head(s) \in S /\ Tail(s) \in Seq(S)
      /\ DOMAIN s = 1 .. Len(s) /\ Len(s) \in Nat /\ Len(s) > 0
      /\ DOMAIN Tail(s) = 1 .. (Len(s) - 1) /\ Len(Tail(s)) = Len(s) - 1
      /\ Head(s) = s[1]
      /\ \A i \in 1 .. (Len(s) - 1) : Tail(s)[i] = s[i + 1]
  OBVIOUS
<1>2. \A i \in 1 .. (Len(s) - 1) : i + 1 \in 1 .. Len(s) /\ i + 1 # 1
  BY <1>1
<1>3. \A i \in 1 .. Len(s) : i # 1 => i - 1 \in 1 .. (Len(s) - 1) /\ Tail(s)[i - 1] = s[i]
  BY <1>1
<1>4. 1 \in 1 .. Len(s)
  BY <1>1
<1>5. ASSUME NEW x \in Elements(Tail(s)) \cup {Head(s)} PROVE x \in Elements(s)
  <2>1. PICK i \in 1 .. Len(s) : x = s[i]
    BY <1>1, <1>2, <1>4, <1>5 DEF Elements
  <2>2. QED
    BY <2>1 DEF Elements
<1>6. ASSUME NEW x \in Elements(s) PROVE x \in Elements(Tail(s)) \cup {Head(s)}
  <2>1. PICK i \in 1 .. Len(s) : x = s[i]
    BY <1>6 DEF Elements
  <2>2. QED
    BY <2>1, <1>1, <1>3 DEF Elements
<1>7. ASSUME Injective(s) PROVE Injective(Tail(s)) /\ Head(s) \notin Elements(Tail(s))
  <2>1. \A i, j \in 1 .. Len(s) : s[i] = s[j] => i = j
    BY <1>1, <1>7 DEF Injective
  <2>2. ASSUME NEW i \in 1 .. (Len(s) - 1), NEW j \in 1 .. (Len(s) - 1), Tail(s)[i] = Tail(s)[j]
        PROVE  i = j
    <3>1. i + 1 \in 1 .. Len(s) /\ j + 1 \in 1 .. Len(s) /\ s[i + 1] = s[j + 1]
      BY <1>1, <1>2, <2>2
    <3>2. QED
      BY <3>1, <2>1
  <2>3. ASSUME NEW i \in 1 .. (Len(s) - 1) PROVE Tail(s)[i] # Head(s)
    BY <1>1, <1>2, <1>4, <2>1
  <2>4. QED
    BY <2>2, <2>3, <1>1 DEF Injective, Elements
<1>8. QED
  BY <1>1, <1>5, <1>6, <1>7

\* Arithmetic of leaving out the k-th of n.
LEMMA Around ==
  ASSUME NEW n \in Nat, NEW k \in 1 .. n
  PROVE  /\ k \in Int /\ (k - 1) + (n - k) = n - 1
         /\ \A i \in 1 .. (k - 1) : i \in 1 .. n /\ i # k /\ i <= k - 1 /\ i \in 1 .. (n - 1)
         /\ \A i \in k .. (n - 1) : /\ i \in 1 .. (n - 1) /\ ~(i <= k - 1) /\ i + 1 \in 1 .. n /\ i + 1 # k
                                    /\ i - (k - 1) \in 1 .. (n - k) /\ k + (i - (k - 1)) = i + 1
         /\ \A i \in 1 .. (n - 1) : i \in Int /\ (i \in 1 .. (k - 1) \/ i \in k .. (n - 1))
         /\ \A i \in 1 .. (k - 1) : \A j \in k .. (n - 1) : i # j + 1
  OBVIOUS

\* What is left of a sequence when its k-th element is taken out.
LEMMA Removed ==
  ASSUME NEW s, NEW n \in Nat, NEW k \in 1 .. n, NEW q,
         \A i \in 1 .. (k - 1) : q[i] = s[i],
         \A i \in k .. (n - 1) : q[i] = s[i + 1],
         \A i, j \in 1 .. n : s[i] = s[j] => i = j
  PROVE  /\ \A i, j \in 1 .. (n - 1) : q[i] = q[j] => i = j
         /\ \A i \in 1 .. (n - 1) : \E j \in 1 .. n : q[i] = s[j] /\ s[j] # s[k]
<1> DEFINE at(i) == IF i <= k - 1 THEN i ELSE i + 1
<1>1. ASSUME NEW i \in 1 .. (n - 1) PROVE at(i) \in 1 .. n /\ at(i) # k /\ q[i] = s[at(i)]
  BY Around
<1>2. ASSUME NEW i \in 1 .. (n - 1), NEW j \in 1 .. (n - 1), at(i) = at(j) PROVE i = j
  BY <1>2
<1> HIDE DEF at
<1>3. QED
  BY <1>1, <1>2

Without(s, k) == SubSeq(s, 1, k - 1) \o SubSeq(s, k + 1, Len(s))

\* A client that leaves the queue leaves the others in it, each once.
LEMMA RemoveFacts ==
  ASSUME NEW S, NEW s \in Seq(S), Injective(s), NEW k \in DOMAIN s
  PROVE  /\ Without(s, k) \in Seq(S) /\ Injective(Without(s, k))
         /\ Elements(Without(s, k)) \subseteq Elements(s) \ {s[k]}
<1>1. Len(s) \in Nat /\ DOMAIN s = 1 .. Len(s) /\ k \in 1 .. Len(s)
  BY LenProperties
<1>2. \A i \in 1 .. Len(s) : s[i] \in S
  BY ElementOfSeq
<1> DEFINE a == SubSeq(s, 1, k - 1)
           b == SubSeq(s, k + 1, Len(s))
           q == Without(s, k)
<1>3. /\ a \in Seq(S) /\ Len(a) = k - 1
      /\ \A i \in 1 .. (k - 1) : a[i] = s[i]
  <2>1. k - 1 \in Int /\ k - 1 >= 0 /\ 1 .. k - 1 \subseteq 1 .. Len(s)
    BY <1>1
  <2>2. \A i \in 1 .. k - 1 : s[i] \in S
    BY <1>2, <2>1
  <2>3. /\ a \in Seq(S)
        /\ Len(a) = IF 1 <= k - 1 THEN (k - 1) - 1 + 1 ELSE 0
        /\ \A i \in 1 .. (k - 1) - 1 + 1 : a[i] = s[1 + i - 1]
    BY <2>1, <2>2, SubSeqProperties
  <2>4. (k - 1) - 1 + 1 = k - 1 /\ \A i \in 1 .. (k - 1) : 1 + i - 1 = i
    BY <1>1
  <2> HIDE DEF a
  <2>5. Len(a) = k - 1
    BY <1>1, <2>1, <2>3
  <2>6. QED
    BY <2>3, <2>4, <2>5
<1>4. /\ b \in Seq(S) /\ Len(b) = Len(s) - k
      /\ \A i \in 1 .. (Len(s) - k) : b[i] = s[k + i]
  <2>1. k + 1 \in Int /\ k + 1 >= 1 /\ Len(s) \in Int /\ k + 1 .. Len(s) \subseteq 1 .. Len(s)
    BY <1>1
  <2>2. \A i \in k + 1 .. Len(s) : s[i] \in S
    BY <1>2, <2>1
  <2>3. /\ b \in Seq(S)
        /\ Len(b) = IF k + 1 <= Len(s) THEN Len(s) - (k + 1) + 1 ELSE 0
        /\ \A i \in 1 .. Len(s) - (k + 1) + 1 : b[i] = s[(k + 1) + i - 1]
    BY <2>1, <2>2, SubSeqProperties
  <2>4. Len(s) - (k + 1) + 1 = Len(s) - k /\ \A i \in 1 .. (Len(s) - k) : (k + 1) + i - 1 = k + i
    BY <1>1
  <2> HIDE DEF b
  <2>5. Len(b) = Len(s) - k
    BY <1>1, <2>1, <2>3
  <2>6. QED
    BY <2>3, <2>4, <2>5
<1>5. q = a \o b
  BY DEF Without
<1> HIDE DEF a, b, q
<1>6. \A c, d \in Seq(S) : /\ c \o d \in Seq(S) /\ Len(c \o d) = Len(c) + Len(d)
                           /\ \A i \in 1 .. Len(c) + Len(d) :
                                (c \o d)[i] = IF i <= Len(c) THEN c[i] ELSE d[i - Len(c)]
  BY ConcatProperties
<1>7. q \in Seq(S) /\ DOMAIN q = 1 .. (Len(s) - 1)
  <2>1. q \in Seq(S) /\ Len(q) = (k - 1) + (Len(s) - k)
    BY <1>3, <1>4, <1>5, <1>6
  <2>2. Len(q) = Len(s) - 1
    BY <1>1, <2>1, Around
  <2>3. QED
    BY <2>1, <2>2, LenProperties
<1>8. \A i \in 1 .. (Len(s) - 1) : q[i] = IF i <= k - 1 THEN a[i] ELSE b[i - (k - 1)]
  <2>1. Len(a) + Len(b) = Len(s) - 1
    BY <1>1, <1>3, <1>4, Around
  <2>2. a \in Seq(S) /\ b \in Seq(S) /\ Len(a) = k - 1
    BY <1>3, <1>4
  <2>3. \A i \in 1 .. Len(a) + Len(b) : (a \o b)[i] = IF i <= Len(a) THEN a[i] ELSE b[i - Len(a)]
    BY <1>6, <2>2
  <2>4. QED
    BY <1>5, <2>1, <2>2, <2>3
<1>9. \A i \in 1 .. (k - 1) : q[i] = s[i]
  BY <1>1, <1>3, <1>8, Around
<1>10. ASSUME NEW i \in k .. (Len(s) - 1) PROVE q[i] = s[i + 1]
  <2>1. /\ i \in 1 .. (Len(s) - 1) /\ ~(i <= k - 1) /\ i - (k - 1) \in 1 .. (Len(s) - k)
        /\ k + (i - (k - 1)) = i + 1
    BY <1>1, Around
  <2>2. q[i] = b[i - (k - 1)]
    BY <1>8, <2>1
  <2>3. b[i - (k - 1)] = s[k + (i - (k - 1))]
    BY <1>4, <2>1
  <2>4. QED
    BY <2>1, <2>2, <2>3
<1>11. /\ \A i, j \in 1 .. (Len(s) - 1) : q[i] = q[j] => i = j
       /\ \A i \in 1 .. (Len(s) - 1) : \E j \in 1 .. Len(s) : q[i] = s[j] /\ s[j] # s[k]
  <2>1. \A i, j \in 1 .. Len(s) : s[i] = s[j] => i = j
    BY <1>1 DEF Injective
  <2>2. \A i \in k .. (Len(s) - 1) : q[i] = s[i + 1]
    BY <1>10
  <2>3. ASSUME NEW n \in Nat, n = Len(s)
        PROVE  /\ \A i, j \in 1 .. (n - 1) : q[i] = q[j] => i = j
               /\ \A i \in 1 .. (n - 1) : \E j \in 1 .. n : q[i] = s[j] /\ s[j] # s[k]
    <3>1. /\ k \in 1 .. n /\ \A i \in 1 .. (k - 1) : q[i] = s[i]
          /\ \A i \in k .. (n - 1) : q[i] = s[i + 1]
          /\ \A i, j \in 1 .. n : s[i] = s[j] => i = j
      BY <1>1, <1>9, <2>1, <2>2, <2>3
    <3>2. QED
      BY ONLY <2>3, <3>1, Removed, SMTT(30)
  <2>4. QED
    BY <1>1, <2>3
<1>12. Elements(q) \subseteq Elements(s) \ {s[k]}
  <2>1. ASSUME NEW x \in Elements(q) PROVE x \in Elements(s) \ {s[k]}
    <3>1. PICK i \in DOMAIN q : x = q[i]
      BY <1>7, <2>1, LenProperties DEF Elements
    <3>2. PICK j \in 1 .. Len(s) : q[i] = s[j] /\ s[j] # s[k]
      BY <1>7, <1>11
    <3>3. QED
      BY <3>1, <3>2 DEF Elements
  <2>2. QED
    BY <2>1
<1>13. QED
  BY <1>1, <1>7, <1>11, <1>12 DEF Injective, q

\* The client that has waited longest is a loop in a blocking pop.
LEMMA HeadBlocked ==
  ASSUME TypeOK, Queue, waiters # <<>>
  PROVE  /\ Head(waiters) \in Gen /\ loop[Head(waiters)] = "blocked"
         /\ \A i \in DOMAIN Tail(waiters) : /\ loop[Tail(waiters)[i]] = "blocked"
                                            /\ Tail(waiters)[i] # Head(waiters)
<1>1. waiters \in Seq(Gen) /\ Injective(waiters)
  BY DEF TypeOK, Queue
<1>2. DOMAIN waiters = 1 .. Len(waiters) /\ \A g \in Elements(waiters) : loop[g] = "blocked"
  BY <1>1 DEF Queue, Elements
<1>3. /\ Head(waiters) \in Gen /\ Tail(waiters) \in Seq(Gen)
      /\ Elements(waiters) = Elements(Tail(waiters)) \cup {Head(waiters)}
      /\ Head(waiters) \notin Elements(Tail(waiters))
  BY <1>1, TailFacts
<1>4. \A i \in DOMAIN Tail(waiters) : Tail(waiters)[i] \in Elements(Tail(waiters))
  BY <1>3, LenProperties DEF Elements
<1>5. QED
  BY <1>2, <1>3, <1>4

-----------------------------------------------------------------------------
(* The types *)

\* The locals of rvb() after its return.
LEMMA EndTypes ==
  ASSUME TypeOK, NEW g \in Gen, EndRound(g)
  PROVE  /\ roundInbox' \in [Gen -> Delivery] /\ expired' \in [Gen -> BOOLEAN]
         /\ todo' \in [Gen -> SUBSET Pair] /\ runners' \in [Gen -> Nat]
         /\ collected' \in [Gen -> Seq(Task)]
  BY DEF TypeOK, EndRound, Delivery

\* What goes into the records of a round's losses is a task.
LEMMA LossTypes ==
  ASSUME Always, [Next]_vars
  PROVE  stolen' \in [Gen -> SUBSET Task] /\ killed' \in SUBSET Task /\ disturbed' \in BOOLEAN
<1>1. /\ TypeOK /\ Queue /\ stolen \in [Gen -> SUBSET Task] /\ killed \in SUBSET Task
      /\ disturbed \in BOOLEAN /\ results \in Seq(Task) /\ working \in [Runner -> SUBSET Task]
  BY DEF Always, TypeOK
<1> DEFINE Goal == stolen' \in [Gen -> SUBSET Task] /\ killed' \in SUBSET Task /\ disturbed' \in BOOLEAN
<1>2. ASSUME UNCHANGED lossVars PROVE Goal
  BY <1>1, <1>2 DEF lossVars
<1>3. ASSUME Disturbs \/ Renumbers PROVE Goal
  BY <1>1, <1>3 DEF Disturbs, Renumbers
<1>4. ASSUME NEW g \in Gen, NEW task \in Task, Taken(g, task) PROVE Goal
  <2>1. stolen' = [stolen EXCEPT ![g] = stolen[g] \cup {task}] \/ stolen' = [stolen EXCEPT ![g] = stolen[g]]
    BY <1>4 DEF Taken
  <2>2. killed' = killed /\ disturbed' \in BOOLEAN
    BY <1>4 DEF Taken
  <2>3. stolen[g] \cup {task} \in SUBSET Task /\ stolen[g] \in SUBSET Task
    BY <1>1
  <2>4. QED
    BY <1>1, <2>1, <2>2, <2>3
<1>5. CASE Truncate \/ ResetStep \/ StartStep
  BY <1>2, <1>3, <1>5 DEF Truncate, ResetStep, DeleteTasks, DeleteResults, PublishReset, ResetNumber,
                          StartStep, StartLoads, StartSpawns
<1>6. ASSUME NEW g \in Gen, Open(g) PROVE Goal
  <2>1. CASE g = gen
    <3>1. stolen' = [h \in Gen |-> {}] /\ killed' = {} /\ disturbed' = FALSE
      BY <1>6, <2>1 DEF Open
    <3>2. QED
      BY <3>1
  <2>2. CASE g # gen
    BY <1>3, <1>6, <2>2 DEF Open
  <2>3. QED
    BY <2>1, <2>2
<1>7. ASSUME NEW g \in Gen, Clear(g) \/ Count(g) PROVE Goal
  BY <1>2, <1>3, <1>7 DEF Clear, Count
<1>8. ASSUME NEW g \in Gen, Pop(g) PROVE Goal
  <2>1. CASE results = <<>>
    BY <1>2, <1>8, <2>1 DEF Pop
  <2>2. CASE results # <<>>
    <3>1. Head(results) \in Task
      BY <1>1, <2>2, TailFacts
    <3>2. Taken(g, Head(results))
      BY <1>8, <2>2 DEF Pop
    <3>3. QED
      BY <1>4, <3>1, <3>2
  <2>3. QED
    BY <2>1, <2>2
<1>9. ASSUME NEW g \in Gen,
             ReadAtTop(g) \/ (\E p \in Pair : Enqueue(g, p)) \/ QuitRound(g) \/ Accept(g) \/ Discard(g)
               \/ Save(g) \/ Wake(g) \/ Deliver(g) \/ Deadline(g)
      PROVE  Goal
  BY <1>2, <1>9 DEF ReadAtTop, Enqueue, QuitRound, Accept, Discard, Save, Wake, Deliver, Deadline
<1>10. ASSUME NEW r \in Runner, Take(r) PROVE Goal
  BY <1>2, <1>10 DEF Take
<1>11. ASSUME NEW r \in Runner, Exit(r) PROVE Goal
  <2>1. /\ killed' = killed \cup {task \in working[r] : task.open = opening[gen]}
        /\ UNCHANGED <<stolen, disturbed>>
    BY <1>11 DEF Exit
  <2>2. {task \in working[r] : task.open = opening[gen]} \subseteq Task
    BY <1>1
  <2>3. QED
    BY <1>1, <2>1, <2>2
<1>12. ASSUME NEW r \in Runner, NEW task \in working[r], Push(r, task) PROVE Goal
  <2>1. CASE waiters = <<>>
    BY <1>2, <1>12, <2>1 DEF Push
  <2>2. CASE waiters # <<>>
    <3>1. Head(waiters) \in Gen
      BY <1>1, <2>2, TailFacts DEF TypeOK
    <3>2. Taken(Head(waiters), task) /\ task \in Task
      BY <1>1, <1>12, <2>2 DEF Push
    <3>3. QED
      BY <1>4, <3>1, <3>2
  <2>3. QED
    BY <2>1, <2>2
<1>13. CASE UNCHANGED vars
  BY <1>2, <1>13 DEF vars
<1> HIDE DEF Goal
<1>14. ASSUME NEW g \in Gen, LoopStep(g) PROVE Goal
  BY <1>6, <1>7, <1>8, <1>9, <1>14 DEF LoopStep
<1>15. ASSUME NEW r \in Runner, RunnerStep(r) PROVE Goal
  BY <1>10, <1>11, <1>12, <1>15 DEF RunnerStep
<1>16. QED
  BY <1>5, <1>9, <1>13, <1>14, <1>15 DEF Next, Goal

\* Every step keeps the types.
LEMMA TypeStep ==
  ASSUME Always, [Next]_vars
  PROVE  TypeOK'
<1> USE HandoverBoundsAssumption
<1>1. TypeOK /\ Gen = 1 .. MaxStarts /\ MaxStarts \in Nat
      /\ stolen' \in [Gen -> SUBSET Task] /\ killed' \in SUBSET Task /\ disturbed' \in BOOLEAN
  BY LossTypes DEF Always, Gen
<1>2. CASE Truncate
  <2>1. crossed' \in BOOLEAN
    BY <1>2 DEF Truncate
  <2>2. DOMAIN rounds' = {} /\ resets' \in Nat
    BY <1>1, <1>2 DEF Truncate, TypeOK
  <2>3. QED
    BY <1>1, <1>2, <2>1, <2>2 DEF TypeOK, Truncate, mainVars, roundVars, redisVars, runnerVars
<1>3. CASE DeleteTasks
  <2>1. tasks' = <<>>
    BY <1>3 DEF DeleteTasks
  <2>2. tasks' \in Seq(Task)
    BY <2>1
  <2>3. QED
    BY <1>1, <1>3, <2>2 DEF TypeOK, DeleteTasks, roundVars, runnerVars, historyVars
<1>4. CASE DeleteResults
  <2>1. results' \in Seq(Task)
    BY <1>4 DEF DeleteResults, ResultsAfterReset
  <2>2. QED
    BY <1>1, <1>4, <2>1 DEF TypeOK, DeleteResults, roundVars, runnerVars, historyVars
<1>5. CASE PublishReset
  BY <1>1, <1>5 DEF TypeOK, PublishReset, AfterPublish, Delivery, redisVars, historyVars
<1>6. CASE ResetNumber
  <2>1. /\ CurrentRound' = 1 /\ reset' = "idle"
        /\ UNCHANGED <<main, gen, resets, loop, inbox, roundInbox, expired, todo, runners, collected, popped,
                       tasks, results, waiters, working, signalled, rounds, opening, after, crossed, late, opens>>
    BY <1>6 DEF ResetNumber, FirstNumber, roundVars, redisVars, runnerVars, historyVars
  <2>2. CurrentRound' \in Nat \ {0} /\ reset' \in {"idle", "truncated", "tasksGone", "resultsGone", "published"}
    BY ONLY <2>1
  <2>3. QED
    BY <1>1, <2>1, <2>2, SMTT(30) DEF TypeOK
<1>7. CASE StartLoads
  <2>1. CurrentRound' \in Nat \ {0}
    BY <1>1, <1>7, SMTT(30) DEF TypeOK, StartLoads
  <2>2. QED
    BY <1>1, <1>7, <2>1 DEF TypeOK, StartLoads, roundVars, redisVars, runnerVars, historyVars
<1>8. CASE StartSpawns
  <2>1. gen' \in Gen
    BY <1>1, <1>8 DEF TypeOK, Always, Replaced, StartSpawns
  <2>2. loop' \in [Gen -> LoopStates]
    BY <1>1, <1>8 DEF TypeOK, StartSpawns, LoopStates
  <2>3. QED
    BY <1>1, <1>8, <2>1, <2>2 DEF TypeOK, StartSpawns, roundVars, redisVars, runnerVars, historyVars
<1>9. ASSUME NEW g \in Gen, Deliver(g) PROVE TypeOK'
  BY <1>1, <1>9 DEF TypeOK, Deliver, Delivery, mainVars, redisVars, runnerVars, historyVars
<1>10. ASSUME NEW g \in Gen, ReadAtTop(g) PROVE TypeOK'
  BY <1>1, <1>10 DEF TypeOK, ReadAtTop, Delivery, LoopStates, mainVars, roundVars, redisVars, runnerVars, historyVars
<1>11. ASSUME NEW g \in Gen, Open(g) PROVE TypeOK'
  <2>1. loop' \in [Gen -> LoopStates] /\ todo' \in [Gen -> SUBSET Pair]
    <3>1. /\ loop \in [Gen -> LoopStates]
          /\ loop' = [loop EXCEPT ![g] = IF tasks = <<>> THEN "enqueue" ELSE "clear"]
      BY <1>1, <1>11 DEF TypeOK, Open
    <3>2. loop' \in [Gen -> LoopStates]
      BY ONLY <3>1 DEF LoopStates
    <3>3. todo \in [Gen -> SUBSET Pair] /\ todo' = [todo EXCEPT ![g] = Pair]
      BY <1>1, <1>11 DEF TypeOK, Open
    <3>4. todo' \in [Gen -> SUBSET Pair]
      BY ONLY <3>3
    <3>5. QED
      BY <3>2, <3>4
  <2>2. opens' \in Nat /\ opening' \in [Gen -> Nat] /\ after' \in [Gen -> Nat]
    <3>1. /\ opens \in Nat /\ opening \in [Gen -> Nat] /\ after \in [Gen -> Nat]
          /\ opens' = opens + 1 /\ opening' = [opening EXCEPT ![g] = opens + 1]
          /\ after' = [after EXCEPT ![g] = 0]
      BY <1>1, <1>11 DEF TypeOK, Open
    <3>2. QED
      BY ONLY <3>1
  <2>3. crossed' \in BOOLEAN
    BY <1>11 DEF Open
  <2>4. QED
    BY <1>1, <1>11, <2>1, <2>2, <2>3 DEF TypeOK, Open, mainVars, redisVars, runnerVars
<1>12. ASSUME NEW g \in Gen, NEW p \in Pair, Enqueue(g, p) PROVE TypeOK'
  <2>1. [pair |-> p, round |-> CurrentRound, open |-> opening[g]] \in Task
    BY <1>1, <1>12 DEF TypeOK, Task
  <2>2. tasks' \in Seq(Task)
    BY <1>1, <1>12, <2>1, AppendFacts DEF TypeOK, Enqueue
  <2>3. loop' \in [Gen -> LoopStates]
    BY <1>1, <1>12 DEF TypeOK, Enqueue, LoopStates
  <2>4. todo' \in [Gen -> SUBSET Pair]
    BY <1>1, <1>12 DEF TypeOK, Enqueue
  <2>5. runners' \in [Gen -> Nat]
    <3>1. runners \in [Gen -> Nat] /\ runners' = [runners EXCEPT ![g] = runners[g] + 1]
      BY <1>1, <1>12 DEF TypeOK, Enqueue
    <3>2. QED
      BY <3>1
  <2>6. QED
    BY <1>1, <1>12, <2>2, <2>3, <2>4, <2>5 DEF TypeOK, Enqueue, mainVars, runnerVars, historyVars
<1>13. ASSUME NEW g \in Gen, QuitRound(g) PROVE TypeOK'
  <2>1. loop' \in [Gen -> LoopStates] /\ inbox' \in [Gen -> Delivery]
    BY <1>1, <1>13 DEF TypeOK, QuitRound, Delivery, LoopStates
  <2>2. EndRound(g)
    BY <1>13 DEF QuitRound
  <2>3. QED
    BY <1>1, <1>13, <2>1, <2>2, EndTypes DEF TypeOK, QuitRound, mainVars, redisVars, runnerVars, historyVars
<1>14. ASSUME NEW g \in Gen, Pop(g) PROVE TypeOK'
  <2>1. results' \in Seq(Task) /\ waiters' \in Seq(Gen) /\ popped' \in [Gen -> SUBSET Task]
    <3>1. results \in Seq(Task) /\ waiters \in Seq(Gen) /\ popped \in [Gen -> SUBSET Task]
      BY <1>1 DEF TypeOK
    <3>2. CASE results = <<>>
      <4>1. waiters' = Append(waiters, g) /\ popped' = popped /\ results' = results
        BY <1>14, <3>2 DEF Pop, Taken
      <4>2. QED
        BY <3>1, <4>1, AppendFacts
    <3>3. CASE results # <<>>
      <4>1. /\ results' = Tail(results) /\ waiters' = waiters
            /\ popped' = [popped EXCEPT ![g] = {Head(results)}]
        BY <1>14, <3>3 DEF Pop, Taken
      <4>2. Head(results) \in Task /\ Tail(results) \in Seq(Task)
        BY <3>1, <3>3, TailFacts
      <4>3. QED
        BY <3>1, <4>1, <4>2
    <3>4. QED
      BY <3>2, <3>3
  <2>2. loop' \in [Gen -> LoopStates]
    <3>1. loop' = [loop EXCEPT ![g] = "blocked"] \/ loop' = [loop EXCEPT ![g] = "popped"]
      BY <1>14 DEF Pop, Taken
    <3>2. loop \in [Gen -> LoopStates] /\ {"blocked", "popped"} \subseteq LoopStates
      BY <1>1 DEF TypeOK, LoopStates
    <3>3. QED
      BY <3>1, <3>2
  <2>3. after' \in [Gen -> Nat]
    <3>1. /\ after \in [Gen -> Nat]
          /\ after' = [after EXCEPT ![g] = after[g] + 1] \/ after' = [after EXCEPT ![g] = after[g]] \/ after' = after
      BY <1>1, <1>14 DEF TypeOK, Pop, Taken
    <3>2. QED
      BY <3>1
  <2>4. UNCHANGED <<CurrentRound, main, gen, reset, resets, inbox, roundInbox, expired, todo, runners,
                    collected, tasks, working, signalled, rounds, opening, crossed, late, opens>>
    BY <1>14 DEF Pop, mainVars, runnerVars
  <2>5. QED
    BY <1>1, <2>1, <2>2, <2>3, <2>4 DEF TypeOK
<1>15. ASSUME NEW g \in Gen, Accept(g) PROVE TypeOK'
  <2>1. PICK t \in popped[g] : popped[g] = {t}
    BY <1>15 DEF Always, Locals, LocalsOf, Accept
  <2>2. t \in Task /\ (CHOOSE task \in popped[g] : TRUE) = t
    BY <1>1, <1>15, <2>1 DEF TypeOK
  <2>3. collected[g] \o <<t>> \in Seq(Task)
    <3>1. collected[g] \in Seq(Task) /\ <<t>> \in Seq(Task)
      <4>1. collected \in [Gen -> Seq(Task)] /\ t \in Task
        BY <1>1, <2>2 DEF TypeOK
      <4>2. QED
        BY ONLY <1>15, <4>1
    <3>2. QED
      BY ONLY <3>1, ConcatProperties
  <2>4. collected' \in [Gen -> Seq(Task)]
    BY <1>1, <1>15, <2>2, <2>3 DEF TypeOK, Accept
  <2>5. QED
    BY <1>1, <1>15, <2>4 DEF TypeOK, Accept, LoopStates, mainVars, redisVars, runnerVars, historyVars
<1>16. ASSUME NEW g \in Gen, Discard(g) PROVE TypeOK'
  <2>1. waiters' \in Seq(Gen)
    <3>1. CASE loop[g] # "blocked"
      BY <1>1, <1>16, <3>1 DEF TypeOK, Discard
    <3>2. CASE loop[g] = "blocked"
      <4>1. PICK k \in DOMAIN waiters : waiters' = Without(waiters, k)
        BY <1>16, <3>2 DEF Discard, LeaveQueue, Without
      <4>2. waiters \in Seq(Gen) /\ Injective(waiters)
        BY <1>1 DEF TypeOK, Always, Queue
      <4>3. QED
        BY <4>1, <4>2, RemoveFacts
    <3>3. QED
      BY <3>1, <3>2
  <2>2. EndRound(g) /\ loop' \in [Gen -> LoopStates]
    BY <1>1, <1>16 DEF TypeOK, Discard, LoopStates
  <2>3. QED
    BY <1>1, <1>16, <2>1, <2>2, EndTypes DEF TypeOK, Discard, mainVars, runnerVars, historyVars
<1>17. ASSUME NEW g \in Gen, Save(g) PROVE TypeOK'
  <2>1. /\ DOMAIN rounds' \subseteq Nat \ {0}
        /\ \A n \in DOMAIN rounds' : rounds'[n] \in [open : Nat, results : Seq(Task)]
    BY <1>1, <1>17 DEF TypeOK, Save
  <2>2. EndRound(g) /\ loop' \in [Gen -> LoopStates]
    BY <1>1, <1>17 DEF TypeOK, Save, LoopStates
  <2>3. QED
    BY <1>1, <1>17, <2>1, <2>2, EndTypes DEF TypeOK, Save, mainVars, redisVars, runnerVars, historyVars
<1>18. ASSUME NEW g \in Gen, Count(g) PROVE TypeOK'
  <2>1. loop' \in [Gen -> LoopStates] /\ CurrentRound' \in Nat \ {0}
    BY <1>1, <1>18, SMTT(30) DEF TypeOK, Count, LoopStates
  <2>2. QED
    BY <1>1, <1>18, <2>1 DEF TypeOK, Count, mainVars, roundVars, redisVars, runnerVars, historyVars
<1>19. ASSUME NEW g \in Gen, Wake(g) PROVE TypeOK'
  BY <1>1, <1>19 DEF TypeOK, Wake, LoopStates, mainVars, roundVars, redisVars, runnerVars, historyVars
<1>20. ASSUME NEW g \in Gen, Deadline(g) PROVE TypeOK'
  BY <1>1, <1>20 DEF TypeOK, Deadline, mainVars, redisVars, runnerVars, historyVars
<1>21. ASSUME NEW r \in Runner, Take(r) PROVE TypeOK'
  <2>1. Head(tasks) \in Task /\ tasks' \in Seq(Task)
    BY <1>1, <1>21, TailFacts DEF TypeOK, Take
  <2>2. QED
    BY <1>1, <1>21, <2>1 DEF TypeOK, Take, mainVars, roundVars, historyVars
<1>22. ASSUME NEW r \in Runner, NEW task \in working[r], Push(r, task) PROVE TypeOK'
  <2>1. task \in Task
    BY <1>1 DEF TypeOK
  <2>2. waiters # <<>> => Head(waiters) \in Gen /\ Tail(waiters) \in Seq(Gen)
    BY <1>1, TailFacts DEF TypeOK
  <2>3. results' \in Seq(Task) /\ waiters' \in Seq(Gen)
    <3>1. CASE waiters = <<>>
      <4>1. results' = Append(results, task) /\ waiters' = waiters
        BY <1>22, <3>1 DEF Push, Taken
      <4>2. results \in Seq(Task) /\ waiters \in Seq(Gen)
        BY <1>1 DEF TypeOK
      <4>3. QED
        BY <2>1, <4>1, <4>2, AppendFacts
    <3>2. CASE waiters # <<>>
      BY <1>1, <1>22, <2>2, <3>2 DEF TypeOK, Push, Taken
    <3>3. QED
      BY <3>1, <3>2
  <2>4. popped' \in [Gen -> SUBSET Task]
    <3>1. /\ popped \in [Gen -> SUBSET Task]
          /\ popped' = popped \/ (waiters # <<>> /\ popped' = [popped EXCEPT ![Head(waiters)] = {task}])
      BY <1>1, <1>22 DEF TypeOK, Push, Taken
    <3>2. QED
      BY <2>1, <2>2, <3>1
  <2>5. loop' \in [Gen -> LoopStates]
    BY <1>1, <1>22, <2>2 DEF TypeOK, Push, Taken, LoopStates
  <2>6. after' \in [Gen -> Nat]
    <3>1. /\ after \in [Gen -> Nat]
          /\ \/ after' = after
             \/ /\ waiters # <<>>
                /\ \/ after' = [after EXCEPT ![Head(waiters)] = after[Head(waiters)] + 1]
                   \/ after' = [after EXCEPT ![Head(waiters)] = after[Head(waiters)]]
      BY <1>1, <1>22 DEF TypeOK, Push, Taken
    <3>2. QED
      BY <2>2, <3>1
  <2>7. working' \in [Runner -> SUBSET Task]
    BY <1>1, <1>22 DEF TypeOK, Push, Taken
  <2>8. late' \in BOOLEAN
    BY <1>22 DEF Push, Taken
  <2>9. UNCHANGED <<CurrentRound, main, gen, reset, resets, inbox, roundInbox, expired, todo, runners,
                    collected, tasks, signalled, rounds, opening, crossed, opens>>
    BY <1>22 DEF Push, mainVars
  <2>10. QED
    BY <1>1, <2>3, <2>4, <2>5, <2>6, <2>7, <2>8, <2>9 DEF TypeOK
<1>23. ASSUME NEW r \in Runner, Exit(r) PROVE TypeOK'
  BY <1>1, <1>23 DEF TypeOK, Exit, mainVars, roundVars, redisVars, historyVars
<1>24. CASE UNCHANGED vars
  BY <1>1, <1>24 DEF TypeOK, vars, mainVars, roundVars, redisVars, runnerVars, historyVars
<1>25. ASSUME NEW g \in Gen, Clear(g) PROVE TypeOK'
  <2>1. tasks' \in Seq(Task)
    <3>1. tasks' = tasks \/ tasks' = <<>>
      BY <1>25 DEF Clear
    <3>2. tasks \in Seq(Task) /\ <<>> \in Seq(Task)
      BY <1>1 DEF TypeOK
    <3>3. QED
      BY ONLY <3>1, <3>2
  <2>2. loop' \in [Gen -> LoopStates]
    BY <1>1, <1>25 DEF TypeOK, Clear, LoopStates
  <2>3. QED
    BY <1>1, <1>25, <2>1, <2>2 DEF TypeOK, Clear, mainVars, roundVars, runnerVars, historyVars
<1>26. QED
  BY <1>2, <1>3, <1>4, <1>5, <1>6, <1>7, <1>8, <1>9, <1>10, <1>11, <1>12, <1>13, <1>14,
     <1>15, <1>16, <1>17, <1>18, <1>19, <1>20, <1>21, <1>22, <1>23, <1>24, <1>25
     DEF Next, ResetStep, StartStep, LoopStep, RunnerStep

-----------------------------------------------------------------------------
(* The loops *)

\* Start spawns the loops in order, and each when the one before has its message.
LEMMA ReplacedStep ==
  ASSUME Always, [Next]_vars
  PROVE  Replaced'
<1>1. /\ Replaced /\ loop \in [Gen -> LoopStates] /\ inbox \in [Gen -> Delivery] /\ gen \in Gen
      /\ Gen = 1 .. MaxStarts /\ MaxStarts \in Nat
  BY HandoverBoundsAssumption DEF Always, TypeOK, Gen
<1>2. ASSUME loop' = loop, inbox' = inbox, gen' = gen, main' = main PROVE Replaced'
  BY <1>1, <1>2 DEF Replaced
<1>3. ASSUME NEW g \in Gen, NEW x \in LoopStates \ {"none"},
             loop[g] \notin {"none", "gone"}, loop' = [loop EXCEPT ![g] = x],
             inbox' = inbox, gen' = gen, main' = main
      PROVE  Replaced'
  BY <1>1, <1>3 DEF Replaced
<1>4. ASSUME NEW g \in Gen, loop[g] # "none", loop' = [loop EXCEPT ![g] = "gone"],
             inbox' = [inbox EXCEPT ![g] = "none"], gen' = gen, main' = main
      PROVE  Replaced'
  BY <1>1, <1>4 DEF Replaced
<1>5. CASE Truncate \/ DeleteTasks \/ DeleteResults \/ ResetNumber
  BY <1>2, <1>5 DEF Truncate, DeleteTasks, DeleteResults, ResetNumber, mainVars
<1>6. CASE PublishReset
  <2>1. \A g \in Gen : g <= gen => loop[g] = "gone" \/ inbox'[g] # "none"
    BY <1>1, <1>6 DEF PublishReset, AfterPublish, Replaced
  <2>2. loop' = loop /\ gen' = gen /\ (main' = "starting" => main = "starting")
    BY <1>6 DEF PublishReset
  <2>3. QED
    BY <1>1, <2>1, <2>2 DEF Replaced
<1>7. CASE StartLoads
  BY <1>1, <1>7 DEF StartLoads, Replaced
<1>8. CASE StartSpawns
  <2>1. /\ gen' = gen + 1 /\ main = "starting" /\ main' = "waiting" /\ inbox' = inbox
        /\ loop' = [loop EXCEPT ![gen + 1] = "top"]
    BY <1>8 DEF StartSpawns
  <2>2. gen + 1 \in Gen
    BY <1>1, <2>1 DEF Replaced
  <2>3. \A g \in Gen : g < gen + 1 => g # gen + 1 /\ (g < gen \/ g = gen)
    BY <1>1
  <2>4. QED
    BY <1>1, <2>1, <2>2, <2>3 DEF Replaced
<1>9. ASSUME NEW g \in Gen, Deliver(g) PROVE Replaced'
  <2>1. loop' = loop /\ gen' = gen /\ main' = main
    BY <1>9 DEF Deliver, mainVars
  <2>2. \A h \in Gen : inbox[h] # "none" => inbox'[h] # "none"
    BY <1>1, <1>9 DEF Deliver
  <2>3. QED
    BY <1>1, <2>1, <2>2 DEF Replaced
<1>10. ASSUME NEW g \in Gen, ReadAtTop(g) \/ QuitRound(g) PROVE Replaced'
  BY <1>4, <1>10 DEF ReadAtTop, QuitRound, mainVars
<1>11. ASSUME NEW g \in Gen, Open(g) \/ Clear(g) \/ (\E p \in Pair : Enqueue(g, p)) PROVE Replaced'
  BY <1>3, <1>11 DEF Open, Clear, Enqueue, mainVars, LoopStates
<1>12. ASSUME NEW g \in Gen, Pop(g) PROVE Replaced'
  BY <1>3, <1>12 DEF Pop, Taken, mainVars, LoopStates
<1>13. ASSUME NEW g \in Gen, Accept(g) \/ Save(g) \/ Count(g) \/ Wake(g) PROVE Replaced'
  BY <1>3, <1>13 DEF Accept, Save, Count, Wake, mainVars, LoopStates
<1>14. ASSUME NEW g \in Gen, Discard(g) PROVE Replaced'
  BY <1>3, <1>14 DEF Discard, mainVars, LoopStates
<1>15. ASSUME NEW g \in Gen, Deadline(g) PROVE Replaced'
  BY <1>2, <1>15 DEF Deadline, mainVars
<1>16. ASSUME NEW r \in Runner, Take(r) \/ Exit(r) PROVE Replaced'
  BY <1>2, <1>16 DEF Take, Exit, mainVars
<1>17. ASSUME NEW r \in Runner, NEW task \in working[r], Push(r, task) PROVE Replaced'
  <2>1. inbox' = inbox /\ gen' = gen /\ main' = main
    BY <1>17 DEF Push, Taken, mainVars
  <2>2. CASE waiters = <<>>
    BY <1>2, <1>17, <2>1, <2>2 DEF Push, Taken
  <2>3. CASE waiters # <<>>
    <3>1. Head(waiters) \in Gen /\ loop[Head(waiters)] = "blocked"
      BY <2>3, HeadBlocked DEF Always
    <3>2. loop' = [loop EXCEPT ![Head(waiters)] = "popped"]
      BY <1>17, <2>3 DEF Push, Taken
    <3>3. QED
      BY <1>3, <2>1, <3>1, <3>2 DEF LoopStates
  <2>4. QED
    BY <2>2, <2>3
<1>18. CASE UNCHANGED vars
  BY <1>2, <1>18 DEF vars, mainVars
<1>19. QED
  BY <1>5, <1>6, <1>7, <1>8, <1>9, <1>10, <1>11, <1>12, <1>13, <1>14, <1>15, <1>16, <1>17, <1>18
     DEF Next, ResetStep, StartStep, LoopStep, RunnerStep

\* What a step leaves alone it keeps.
LEMMA LocalsFrame ==
  ASSUME NEW h \in Gen, LocalsOf(h), loop'[h] = loop[h], roundInbox'[h] = roundInbox[h],
         todo'[h] = todo[h], runners'[h] = runners[h], collected'[h] = collected[h],
         popped'[h] = popped[h]
  PROVE  LocalsOf(h)'
BY DEF LocalsOf, InRound

\* The locals of rvb() begin and end with the round.
LEMMA LocalsStep ==
  ASSUME Always, [Next]_vars
  PROVE  Locals'
<1>1. /\ TypeOK /\ Locals /\ Queue
      /\ loop \in [Gen -> LoopStates] /\ roundInbox \in [Gen -> Delivery]
      /\ todo \in [Gen -> SUBSET Pair] /\ runners \in [Gen -> Nat]
      /\ collected \in [Gen -> Seq(Task)] /\ popped \in [Gen -> SUBSET Task]
  BY DEF Always, TypeOK
<1>2. ASSUME UNCHANGED <<loop, roundInbox, todo, runners, collected, popped>> PROVE Locals'
  BY <1>1, <1>2, LocalsFrame DEF Locals
<1>3. ASSUME NEW g \in Gen, LocalsOf(g)',
             \A h \in Gen : h # g => /\ loop'[h] = loop[h] /\ roundInbox'[h] = roundInbox[h]
                                     /\ todo'[h] = todo[h] /\ runners'[h] = runners[h]
                                     /\ collected'[h] = collected[h] /\ popped'[h] = popped[h]
      PROVE  Locals'
  <2>1. ASSUME NEW h \in Gen PROVE LocalsOf(h)'
    BY <1>1, <1>3, LocalsFrame DEF Locals
  <2>2. QED
    BY <2>1 DEF Locals
<1>4. CASE Truncate \/ DeleteTasks \/ DeleteResults \/ ResetNumber \/ StartLoads
  BY <1>2, <1>4 DEF Truncate, DeleteTasks, DeleteResults, ResetNumber, StartLoads, roundVars
<1>5. CASE PublishReset
  <2>1. ASSUME NEW g \in Gen PROVE LocalsOf(g)'
    <3>1. /\ loop' = loop /\ todo' = todo /\ runners' = runners /\ collected' = collected
          /\ popped' = popped /\ (~InRound(g) => roundInbox'[g] = roundInbox[g])
      BY <1>5 DEF PublishReset
    <3>2. LocalsOf(g)
      BY <1>1 DEF Locals
    <3>3. QED
      BY <3>1, <3>2 DEF LocalsOf, InRound
  <2>2. QED
    BY <2>1 DEF Locals
<1>6. CASE StartSpawns
  <2>1. gen + 1 \in Gen /\ loop[gen + 1] = "none"
    BY <1>6, HandoverBoundsAssumption DEF StartSpawns, Always, TypeOK, Replaced, Gen
  <2>2. /\ loop' = [loop EXCEPT ![gen + 1] = "top"]
        /\ UNCHANGED <<roundInbox, todo, runners, collected, popped>>
    BY <1>6 DEF StartSpawns, roundVars
  <2>3. ASSUME NEW g \in Gen, g = gen + 1 PROVE Locals'
    <3>1. LocalsOf(g)'
      BY <1>1, <2>1, <2>2, <2>3 DEF Locals, LocalsOf, InRound
    <3>2. QED
      BY <1>1, <1>3, <2>2, <2>3, <3>1
  <2>4. QED
    BY <2>1, <2>3
<1>7. ASSUME NEW g \in Gen, Deliver(g) PROVE Locals'
  <2>1. /\ UNCHANGED <<loop, todo, runners, collected, popped>>
        /\ \/ roundInbox' = roundInbox
           \/ roundInbox[g] = "sent" /\ roundInbox' = [roundInbox EXCEPT ![g] = "told"]
    BY <1>7 DEF Deliver
  <2>2. CASE roundInbox' = roundInbox
    BY <1>2, <2>1, <2>2
  <2>3. CASE roundInbox[g] = "sent" /\ roundInbox' = [roundInbox EXCEPT ![g] = "told"]
    <3>1. LocalsOf(g)'
      BY <1>1, <2>1, <2>3 DEF Locals, LocalsOf, InRound
    <3>2. QED
      BY <1>1, <1>3, <2>1, <2>3, <3>1
  <2>4. QED
    BY <2>1, <2>2, <2>3
<1>8. ASSUME NEW g \in Gen, NEW x \in {"gone", "sleep", "top"}, ~InRound(g),
             loop' = [loop EXCEPT ![g] = x],
             UNCHANGED <<roundInbox, todo, runners, collected, popped>>
      PROVE  Locals'
  <2>1. LocalsOf(g)'
    BY <1>1, <1>8 DEF Locals, LocalsOf, InRound
  <2>2. QED
    BY <1>1, <1>3, <1>8, <2>1
<1>9. ASSUME NEW g \in Gen, ReadAtTop(g) \/ Count(g) \/ Wake(g) PROVE Locals'
  BY <1>8, <1>9 DEF ReadAtTop, Count, Wake, InRound, roundVars
<1>10. ASSUME NEW g \in Gen, EndRound(g), NEW x \in {"gone", "saved"},
              loop[g] \in {"collect", "blocked"}, loop' = [loop EXCEPT ![g] = x],
              popped' = popped
       PROVE  Locals'
  <2>1. /\ roundInbox'[g] = "none" /\ todo'[g] = {} /\ runners'[g] = 0
        /\ collected'[g] = <<>> /\ loop'[g] = x /\ popped'[g] = {}
    BY <1>1, <1>10 DEF EndRound, Locals, LocalsOf
  <2>2. LocalsOf(g)'
    BY <1>10, <2>1 DEF LocalsOf, InRound
  <2>3. QED
    BY <1>1, <1>3, <1>10, <2>2 DEF EndRound
<1>11. ASSUME NEW g \in Gen, QuitRound(g) \/ Discard(g) \/ Save(g) PROVE Locals'
  BY <1>10, <1>11 DEF QuitRound, Discard, Save
<1>12. ASSUME NEW g \in Gen, Open(g) PROVE Locals'
  <2>1. /\ loop[g] = "top"
        /\ loop' = [loop EXCEPT ![g] = IF tasks = <<>> THEN "enqueue" ELSE "clear"]
        /\ todo' = [todo EXCEPT ![g] = Pair]
        /\ UNCHANGED <<roundInbox, runners, collected, popped>>
    BY <1>12 DEF Open
  <2>2. Pair \ Pair = {} /\ Cardinality({}) = 0
    BY FS_EmptySet
  <2>3. LocalsOf(g)'
    BY <1>1, <2>1, <2>2 DEF Locals, LocalsOf, InRound
  <2>4. QED
    BY <1>1, <1>3, <2>1, <2>3
<1>13. ASSUME NEW g \in Gen, NEW p \in Pair, Enqueue(g, p) PROVE Locals'
  <2>1. /\ loop[g] = "enqueue" /\ p \in todo[g]
        /\ loop' = [loop EXCEPT ![g] = IF todo[g] = {p} THEN "collect" ELSE "enqueue"]
        /\ todo' = [todo EXCEPT ![g] = todo[g] \ {p}]
        /\ runners' = [runners EXCEPT ![g] = runners[g] + 1]
        /\ UNCHANGED <<roundInbox, collected, popped>>
    BY <1>13 DEF Enqueue
  <2>2. Cardinality(Pair \ (todo[g] \ {p})) = Cardinality(Pair \ todo[g]) + 1
    <3>1. Pair \ (todo[g] \ {p}) = (Pair \ todo[g]) \cup {p} /\ p \notin Pair \ todo[g]
      BY <2>1
    <3>2. IsFiniteSet(Pair \ todo[g])
      BY PairAssumption, FS_Difference
    <3>3. QED
      BY <3>1, <3>2, FS_AddElement
  <2>3. runners'[g] = Cardinality(Pair \ todo'[g])
    BY <1>1, <2>1, <2>2 DEF Locals, LocalsOf, InRound
  <2>4. InRound(g)' /\ popped'[g] = {} /\ loop'[g] \in {"enqueue", "collect"}
    BY <1>1, <2>1 DEF Locals, LocalsOf, InRound
  <2>5. loop'[g] = "collect" => todo'[g] = {}
    BY <1>1, <2>1
  <2>6. LocalsOf(g)'
    BY <2>3, <2>4, <2>5 DEF LocalsOf
  <2>7. QED
    BY <1>1, <1>3, <2>1, <2>6
<1>14. ASSUME NEW g \in Gen, loop[g] \in {"collect", "blocked"}, NEW t \in Task,
              loop' = [loop EXCEPT ![g] = "popped"], popped' = [popped EXCEPT ![g] = {t}],
              UNCHANGED <<roundInbox, todo, runners, collected>>
       PROVE  Locals'
  <2>1. LocalsOf(g)'
    BY <1>1, <1>14 DEF Locals, LocalsOf, InRound
  <2>2. QED
    BY <1>1, <1>3, <1>14, <2>1
<1>15. ASSUME NEW g \in Gen, Pop(g) PROVE Locals'
  <2>1. loop[g] = "collect" /\ UNCHANGED <<roundInbox, todo, runners, collected>>
    BY <1>15 DEF Pop, Taken
  <2>2. CASE results # <<>>
    <3>1. Head(results) \in Task
      BY <1>1, <2>2, TailFacts DEF TypeOK
    <3>2. loop' = [loop EXCEPT ![g] = "popped"] /\ popped' = [popped EXCEPT ![g] = {Head(results)}]
      BY <1>15, <2>2 DEF Pop, Taken
    <3>3. QED
      BY <1>14, <2>1, <3>1, <3>2
  <2>3. CASE results = <<>>
    <3>1. loop' = [loop EXCEPT ![g] = "blocked"] /\ popped' = popped
      BY <1>15, <2>3 DEF Pop, Taken
    <3>2. LocalsOf(g)'
      BY <1>1, <2>1, <3>1 DEF Locals, LocalsOf, InRound
    <3>3. QED
      BY <1>1, <1>3, <2>1, <3>1, <3>2
  <2>4. QED
    BY <2>2, <2>3
<1>16. ASSUME NEW g \in Gen, Accept(g) PROVE Locals'
  <2>1. /\ loop[g] = "popped" /\ loop' = [loop EXCEPT ![g] = "collect"]
        /\ popped' = [popped EXCEPT ![g] = {}] /\ UNCHANGED <<roundInbox, todo, runners>>
        /\ \A h \in Gen : h # g => collected'[h] = collected[h]
    BY <1>1, <1>16 DEF Accept
  <2>2. LocalsOf(g)'
    BY <1>1, <2>1 DEF Locals, LocalsOf, InRound
  <2>3. QED
    BY <1>1, <1>3, <2>1, <2>2
<1>17. ASSUME NEW g \in Gen, Deadline(g) PROVE Locals'
  BY <1>2, <1>17 DEF Deadline
<1>18. ASSUME NEW r \in Runner, Take(r) \/ Exit(r) PROVE Locals'
  BY <1>2, <1>18 DEF Take, Exit, roundVars
<1>19. ASSUME NEW r \in Runner, NEW task \in working[r], Push(r, task) PROVE Locals'
  <2>1. UNCHANGED <<roundInbox, todo, runners, collected>>
    BY <1>19 DEF Push, Taken
  <2>2. CASE waiters = <<>>
    BY <1>2, <1>19, <2>1, <2>2 DEF Push, Taken
  <2>3. CASE waiters # <<>>
    <3>1. Head(waiters) \in Gen /\ loop[Head(waiters)] = "blocked"
      BY <1>1, <2>3, HeadBlocked
    <3>2. /\ loop' = [loop EXCEPT ![Head(waiters)] = "popped"]
          /\ popped' = [popped EXCEPT ![Head(waiters)] = {task}]
      BY <1>19, <2>3 DEF Push, Taken
    <3>3. task \in Task
      BY <1>1 DEF TypeOK
    <3>4. QED
      BY <1>14, <2>1, <3>1, <3>2, <3>3
  <2>4. QED
    BY <2>2, <2>3
<1>20. CASE UNCHANGED vars
  BY <1>2, <1>20 DEF vars, roundVars
<1>21. ASSUME NEW g \in Gen, Clear(g) PROVE Locals'
  <2>1. /\ loop[g] = "clear" /\ loop' = [loop EXCEPT ![g] = "enqueue"]
        /\ UNCHANGED <<roundInbox, todo, runners, collected, popped>>
    BY <1>21 DEF Clear, roundVars
  <2>2. LocalsOf(g)'
    BY <1>1, <2>1 DEF Locals, LocalsOf, InRound
  <2>3. QED
    BY <1>1, <1>3, <2>1, <2>2
<1>22. QED
  BY <1>4, <1>5, <1>6, <1>7, <1>9, <1>11, <1>12, <1>13, <1>15, <1>16, <1>17, <1>18, <1>19, <1>20, <1>21
     DEF Next, ResetStep, StartStep, LoopStep, RunnerStep

\* A client joins the queue once, and leaves it with a result or its time up.
LEMMA QueueStep ==
  ASSUME Always, [Next]_vars
  PROVE  Queue'
<1>1. /\ TypeOK /\ Queue /\ loop \in [Gen -> LoopStates] /\ waiters \in Seq(Gen)
      /\ DOMAIN waiters = 1 .. Len(waiters)
      /\ Injective(waiters) /\ \A i \in DOMAIN waiters : waiters[i] \in Gen /\ loop[waiters[i]] = "blocked"
  <2>1. TypeOK /\ Queue /\ loop \in [Gen -> LoopStates] /\ waiters \in Seq(Gen)
    BY DEF Always, TypeOK
  <2>2. DOMAIN waiters = 1 .. Len(waiters) /\ \A i \in DOMAIN waiters : waiters[i] \in Gen
    BY <2>1, LenProperties, ElementOfSeq
  <2>3. QED
    BY <2>1, <2>2 DEF Queue
<1>2. ASSUME loop' = loop, waiters' = waiters PROVE Queue'
  BY <1>1, <1>2 DEF Queue
<1>3. ASSUME NEW g \in Gen, loop[g] # "blocked", NEW x \in LoopStates,
             loop' = [loop EXCEPT ![g] = x], waiters' = waiters
      PROVE  Queue'
  BY <1>1, <1>3 DEF Queue
<1>4. CASE Truncate \/ DeleteTasks \/ DeleteResults \/ PublishReset \/ ResetNumber \/ StartLoads
  BY <1>2, <1>4
     DEF Truncate, DeleteTasks, DeleteResults, PublishReset, ResetNumber, StartLoads, redisVars
<1>5. CASE StartSpawns
  <2>1. gen + 1 \in Gen /\ loop[gen + 1] = "none"
    BY <1>5, HandoverBoundsAssumption DEF StartSpawns, Always, TypeOK, Replaced, Gen
  <2>2. loop' = [loop EXCEPT ![gen + 1] = "top"] /\ waiters' = waiters
    BY <1>5 DEF StartSpawns, redisVars
  <2>3. QED
    BY <1>3, <2>1, <2>2 DEF LoopStates
<1>6. ASSUME NEW g \in Gen, Deliver(g) \/ Deadline(g) PROVE Queue'
  BY <1>2, <1>6 DEF Deliver, Deadline, redisVars
<1>7. ASSUME NEW g \in Gen,
             ReadAtTop(g) \/ Open(g) \/ Clear(g) \/ (\E p \in Pair : Enqueue(g, p)) \/ QuitRound(g)
      PROVE  Queue'
  BY <1>3, <1>7 DEF ReadAtTop, Open, Clear, Enqueue, QuitRound, redisVars, LoopStates
<1>8. ASSUME NEW g \in Gen, Accept(g) \/ Save(g) \/ Count(g) \/ Wake(g)
      PROVE  Queue'
  BY <1>3, <1>8 DEF Accept, Save, Count, Wake, redisVars, LoopStates
<1>9. ASSUME NEW g \in Gen, Pop(g) PROVE Queue'
  <2>1. loop[g] = "collect"
    BY <1>9 DEF Pop, Taken
  <2>2. CASE results # <<>>
    BY <1>3, <1>9, <2>1, <2>2 DEF Pop, Taken, LoopStates
  <2>3. CASE results = <<>>
    <3>1. waiters' = Append(waiters, g) /\ loop' = [loop EXCEPT ![g] = "blocked"]
      BY <1>9, <2>3 DEF Pop, Taken
    <3>2. \A i \in 1 .. Len(waiters) : waiters[i] # g
      BY <1>1, <2>1
    <3>3. g \notin Elements(waiters)
      BY <3>2 DEF Elements
    <3>4. Injective(Append(waiters, g))
      BY <1>1, <3>3, AppendFacts
    <3>5. \A i \in DOMAIN Append(waiters, g) :
            \/ Append(waiters, g)[i] = g
            \/ i \in DOMAIN waiters /\ Append(waiters, g)[i] = waiters[i]
      BY <1>1, AppendProperties
    <3>6. QED
      BY <1>1, <3>1, <3>4, <3>5 DEF Queue
  <2>4. QED
    BY <2>2, <2>3
<1>10. ASSUME NEW g \in Gen, Discard(g) PROVE Queue'
  <2>1. loop' = [loop EXCEPT ![g] = "saved"]
    BY <1>10 DEF Discard
  <2>2. CASE loop[g] # "blocked"
    BY <1>3, <1>10, <2>1, <2>2 DEF Discard, LoopStates
  <2>3. CASE loop[g] = "blocked"
    <3>1. PICK k \in DOMAIN waiters :
            /\ waiters[k] = g
            /\ waiters' = Without(waiters, k)
      BY <1>10, <2>3 DEF Discard, LeaveQueue, Without
    <3>2. Injective(waiters) /\ waiters \in Seq(Gen)
      BY <1>1
    <3>3. /\ waiters' \in Seq(Gen) /\ Injective(waiters')
          /\ Elements(waiters') \subseteq Elements(waiters) \ {waiters[k]}
      BY <3>1, <3>2, RemoveFacts
    <3>4. \A h \in Elements(waiters) : h \in Gen /\ loop[h] = "blocked"
      BY <1>1 DEF Elements
    <3>5. \A h \in Elements(waiters') : loop'[h] = "blocked"
      BY <1>1, <2>1, <3>1, <3>3, <3>4
    <3>6. \A i \in DOMAIN waiters' : waiters'[i] \in Elements(waiters')
      BY <3>3, LenProperties DEF Elements
    <3>7. QED
      BY <3>3, <3>5, <3>6 DEF Queue
  <2>4. QED
    BY <2>2, <2>3
<1>11. ASSUME NEW r \in Runner, Take(r) \/ Exit(r) PROVE Queue'
  BY <1>2, <1>11 DEF Take, Exit, redisVars
<1>12. ASSUME NEW r \in Runner, NEW task \in working[r], Push(r, task) PROVE Queue'
  <2>1. CASE waiters = <<>>
    BY <1>2, <1>12, <2>1 DEF Push, Taken
  <2>2. CASE waiters # <<>>
    <3>1. waiters' = Tail(waiters) /\ loop' = [loop EXCEPT ![Head(waiters)] = "popped"]
      BY <1>12, <2>2 DEF Push, Taken
    <3>2. Injective(Tail(waiters)) /\ Tail(waiters) \in Seq(Gen)
      BY <1>1, <2>2, TailFacts
    <3>3. \A i \in DOMAIN Tail(waiters) :
            Tail(waiters)[i] \in Gen /\ loop[Tail(waiters)[i]] = "blocked" /\ Tail(waiters)[i] # Head(waiters)
      BY <1>1, <2>2, <3>2, HeadBlocked, LenProperties, ElementOfSeq
    <3>4. QED
      BY <1>1, <3>1, <3>2, <3>3 DEF Queue
  <2>3. QED
    BY <2>1, <2>2
<1>13. CASE UNCHANGED vars
  BY <1>2, <1>13 DEF vars, redisVars
<1>14. QED
  BY <1>4, <1>5, <1>6, <1>7, <1>8, <1>9, <1>10, <1>11, <1>12, <1>13
     DEF Next, ResetStep, StartStep, LoopStep, RunnerStep

\* One more result after the message, and then the loop looks.
LEMMA OneMoreFrame ==
  ASSUME NEW h \in Gen, OneMoreOf(h), loop'[h] = loop[h] \/ ~InRound(h)', after'[h] = after[h],
         roundInbox'[h] = roundInbox[h] \/ roundInbox'[h] = "told" \/ roundInbox[h] = "sent"
  PROVE  OneMoreOf(h)'
BY DEF OneMoreOf, InRound

\* A result taken under the message is the last before the look at it.
LEMMA OneMoreStep ==
  ASSUME Always, [Next]_vars
  PROVE  OneMore'
<1>1. /\ TypeOK /\ OneMore /\ Queue /\ loop \in [Gen -> LoopStates] /\ after \in [Gen -> Nat]
      /\ roundInbox \in [Gen -> Delivery]
  BY DEF Always, TypeOK
<1>2. ASSUME loop' = loop, after' = after, roundInbox' = roundInbox PROVE OneMore'
  BY <1>1, <1>2, OneMoreFrame DEF OneMore
<1>3. ASSUME NEW g \in Gen, OneMoreOf(g)',
             \A h \in Gen : h # g => /\ loop'[h] = loop[h] /\ after'[h] = after[h]
                                     /\ roundInbox'[h] = roundInbox[h]
      PROVE  OneMore'
  BY <1>1, <1>3, OneMoreFrame DEF OneMore
<1>4. CASE Truncate \/ DeleteTasks \/ DeleteResults \/ ResetNumber \/ StartLoads
  BY <1>2, <1>4
     DEF Truncate, DeleteTasks, DeleteResults, ResetNumber, StartLoads, roundVars, historyVars
<1>5. CASE PublishReset
  <2>1. ASSUME NEW g \in Gen PROVE OneMoreOf(g)'
    <3>1. /\ loop' = loop /\ after' = after /\ (roundInbox[g] = "told" => roundInbox'[g] = "told")
      BY <1>1, <1>5 DEF PublishReset, AfterPublish, historyVars
    <3>2. QED
      BY <1>1, <3>1 DEF OneMore, OneMoreOf, InRound
  <2>2. QED
    BY <2>1 DEF OneMore
<1>6. CASE StartSpawns
  <2>1. loop' = [loop EXCEPT ![gen + 1] = "top"] /\ after' = after /\ roundInbox' = roundInbox
    BY <1>6 DEF StartSpawns, roundVars, historyVars
  <2>2. \A h \in Gen : loop'[h] = loop[h] \/ ~InRound(h)'
    BY <1>1, <2>1 DEF InRound
  <2>3. QED
    BY <1>1, <2>1, <2>2, OneMoreFrame DEF OneMore
<1>7. ASSUME NEW g \in Gen, Deliver(g) PROVE OneMore'
  <2>1. /\ loop' = loop /\ after' = after
        /\ \A h \in Gen : roundInbox'[h] = roundInbox[h] \/ roundInbox'[h] = "told"
    BY <1>1, <1>7 DEF Deliver, historyVars
  <2>2. QED
    BY <1>1, <2>1, OneMoreFrame DEF OneMore
<1>8. ASSUME NEW g \in Gen, NEW x \in {"gone", "saved", "sleep", "top"},
             loop' = [loop EXCEPT ![g] = x], after' = after,
             \A h \in Gen : h # g => roundInbox'[h] = roundInbox[h]
      PROVE  OneMore'
  <2>1. OneMoreOf(g)'
    BY <1>1, <1>8 DEF OneMore, OneMoreOf, InRound
  <2>2. QED
    BY <1>1, <1>3, <1>8, <2>1
<1>9. ASSUME NEW g \in Gen, ReadAtTop(g) \/ Count(g) \/ Wake(g) PROVE OneMore'
  BY <1>8, <1>9 DEF ReadAtTop, Count, Wake, roundVars, historyVars
<1>10. ASSUME NEW g \in Gen, QuitRound(g) \/ Discard(g) \/ Save(g) PROVE OneMore'
  <2>1. \A h \in Gen : h # g => roundInbox'[h] = roundInbox[h]
    BY <1>1, <1>10 DEF QuitRound, Discard, Save, EndRound
  <2>2. QED
    BY <1>8, <1>10, <2>1 DEF QuitRound, Discard, Save, historyVars
<1>11. ASSUME NEW g \in Gen, Open(g) PROVE OneMore'
  <2>1. /\ loop' = [loop EXCEPT ![g] = IF tasks = <<>> THEN "enqueue" ELSE "clear"]
        /\ after' = [after EXCEPT ![g] = 0] /\ roundInbox' = roundInbox
    BY <1>11 DEF Open
  <2>2. OneMoreOf(g)'
    BY <1>1, <2>1 DEF OneMoreOf
  <2>3. QED
    BY <1>1, <1>3, <2>1, <2>2
<1>12. ASSUME NEW g \in Gen, Clear(g) \/ (\E p \in Pair : Enqueue(g, p)) PROVE OneMore'
  <2>1. /\ loop[g] \in {"clear", "enqueue"} /\ after' = after /\ roundInbox' = roundInbox
        /\ \A h \in Gen : h # g => loop'[h] = loop[h]
    BY <1>1, <1>12 DEF Clear, Enqueue, roundVars, historyVars
  <2>2. OneMoreOf(g)'
    BY <1>1, <2>1 DEF OneMore, OneMoreOf, InRound
  <2>3. QED
    BY <1>1, <1>3, <2>1, <2>2
<1>13. ASSUME NEW g \in Gen, Pop(g) PROVE OneMore'
  <2>1. /\ loop[g] = "collect" /\ roundInbox[g] # "told" /\ roundInbox' = roundInbox
        /\ \A h \in Gen : h # g => loop'[h] = loop[h]
        /\ after' = after \/ after' = [after EXCEPT ![g] = after[g]]
    BY <1>1, <1>13 DEF Pop, Taken, Reads
  <2>2. after[g] = 0 /\ after' = after
    BY <1>1, <2>1 DEF OneMore, OneMoreOf, InRound
  <2>3. OneMoreOf(g)'
    BY <1>1, <2>2 DEF OneMoreOf
  <2>4. QED
    BY <1>1, <1>3, <2>1, <2>2, <2>3
<1>14. ASSUME NEW g \in Gen, Accept(g) PROVE OneMore'
  <2>1. /\ loop[g] = "popped" /\ after' = after /\ roundInbox' = roundInbox
        /\ loop' = [loop EXCEPT ![g] = "collect"]
    BY <1>1, <1>14 DEF Accept, historyVars
  <2>2. OneMoreOf(g)'
    BY <1>1, <2>1 DEF OneMore, OneMoreOf, InRound
  <2>3. QED
    BY <1>1, <1>3, <2>1, <2>2
<1>15. ASSUME NEW g \in Gen, Deadline(g) PROVE OneMore'
  BY <1>2, <1>15 DEF Deadline, historyVars
<1>16. ASSUME NEW r \in Runner, Take(r) \/ Exit(r) PROVE OneMore'
  BY <1>2, <1>16 DEF Take, Exit, roundVars, historyVars
<1>17. ASSUME NEW r \in Runner, NEW task \in working[r], Push(r, task) PROVE OneMore'
  <2>1. roundInbox' = roundInbox
    BY <1>17 DEF Push, Taken
  <2>2. CASE waiters = <<>>
    BY <1>2, <1>17, <2>1, <2>2 DEF Push, Taken
  <2>3. CASE waiters # <<>>
    <3>1. PICK g \in Gen : g = Head(waiters) /\ loop[g] = "blocked"
      BY <1>1, <2>3, HeadBlocked
    <3>2. /\ loop' = [loop EXCEPT ![g] = "popped"]
          /\ after' = [after EXCEPT ![g] = IF roundInbox[g] = "told" THEN after[g] + 1 ELSE after[g]]
      BY <1>17, <2>3, <3>1 DEF Push, Taken
    <3>3. after[g] = 0
      BY <1>1, <3>1 DEF OneMore, OneMoreOf, InRound
    <3>4. OneMoreOf(g)'
      BY <1>1, <2>1, <3>2, <3>3 DEF OneMoreOf
    <3>5. QED
      BY <1>1, <1>3, <2>1, <3>2, <3>4
  <2>4. QED
    BY <2>2, <2>3
<1>18. CASE UNCHANGED vars
  BY <1>2, <1>18 DEF vars, roundVars, historyVars
<1>19. QED
  BY <1>4, <1>5, <1>6, <1>7, <1>9, <1>10, <1>11, <1>12, <1>13, <1>14, <1>15, <1>16, <1>17, <1>18
     DEF Next, ResetStep, StartStep, LoopStep, RunnerStep

\* The part of the invariant that holds whatever a reset meets.
LEMMA AlwaysInit == ASSUME Init PROVE Always
<1> USE HandoverBoundsAssumption DEF Init, Gen
<1>1. 1 \in 1 .. MaxStarts
  OBVIOUS
<1>2. TypeOK
  <2>1. /\ loop \in [Gen -> LoopStates] /\ inbox \in [Gen -> Delivery] /\ roundInbox \in [Gen -> Delivery]
        /\ collected \in [Gen -> Seq(Task)] /\ popped \in [Gen -> SUBSET Task]
        /\ tasks \in Seq(Task) /\ results \in Seq(Task) /\ waiters \in Seq(Gen)
    BY DEF LoopStates, Delivery
  <2>2. /\ expired \in [Gen -> BOOLEAN] /\ todo \in [Gen -> SUBSET Pair] /\ runners \in [Gen -> Nat]
        /\ opening \in [Gen -> Nat] /\ after \in [Gen -> Nat]
        /\ working \in [Runner -> SUBSET Task] /\ signalled \in [Runner -> BOOLEAN]
    OBVIOUS
  <2>3. DOMAIN rounds = {}
    OBVIOUS
  <2>4. CurrentRound \in Nat \ {0} /\ gen \in Gen /\ resets \in Nat /\ opens \in Nat
    BY <1>1
  <2>5. QED
    BY <2>1, <2>2, <2>3, <2>4 DEF TypeOK
<1>3. Replaced
  BY DEF Replaced
<1>4. Locals
  <2>1. ASSUME NEW g \in Gen PROVE LocalsOf(g)
    BY <2>1 DEF LocalsOf, InRound
  <2>2. QED
    BY <2>1 DEF Locals
<1>5. Queue
  BY DEF Queue, Injective
<1>6. OneMore
  BY DEF OneMore, OneMoreOf
<1>7. QED
  BY <1>2, <1>3, <1>4, <1>5, <1>6 DEF Always

LEMMA AlwaysStep == ASSUME Always, [Next]_vars PROVE Always'
<1>1. TypeOK' /\ Replaced' /\ Locals'
  BY TypeStep, ReplacedStep, LocalsStep
<1>2. Queue' /\ OneMore'
  BY QueueStep, OneMoreStep
<1>3. QED
  BY <1>1, <1>2 DEF Always

LEMMA AlwaysHolds == Spec => []Always
<1>1. Init => Always
  BY AlwaysInit
<1>2. Always /\ [Next]_vars => Always'
  BY AlwaysStep
<1>3. QED
  BY <1>1, <1>2, PTL DEF Spec

\* The lists hold tasks and the queue loop goroutines, whatever meets whom.
THEOREM TypeCorrect == Spec => []TypeOK
<1>1. Always => TypeOK
  BY DEF Always
<1>2. QED
  BY <1>1, AlwaysHolds, PTL

\* However many resets, rounds and runners there are, a round that has the
\* message of a reset takes one more result at most (engine.go:473-486).
THEOREM LoopsLookInTime == Spec => []OneMoreAtMost
<1>1. Always => OneMoreAtMost
  BY DEF Always, OneMore, OneMoreOf, OneMoreAtMost
<1>2. QED
  BY <1>1, AlwaysHolds, PTL

-----------------------------------------------------------------------------
(* Resets that meet no round *)

\* Where a task is, now and after a step.
LEMMA Where ==
  /\ \A t : t \in Places(gen) <=> Somewhere(t)
  /\ \A t : t \in Places(gen)' <=> Somewhere(t)'
  /\ \A t : Live(t) => Somewhere(t)
  /\ \A t : Live(t)' => Somewhere(t)'
BY DEF Places, Somewhere, Live

\* As long as no reset has met a round, none has.
LEMMA CrossedStays ==
  ASSUME TypeOK, [Next]_vars, ~crossed'
  PROVE  ~crossed
<1> USE DEF TypeOK
<1>1. CASE Truncate
  BY <1>1 DEF Truncate
<1>2. CASE ResetStep \/ StartStep
  BY <1>2 DEF ResetStep, DeleteTasks, DeleteResults, PublishReset, ResetNumber, StartStep,
              StartLoads, StartSpawns, historyVars
<1>3. ASSUME NEW g \in Gen, Open(g) PROVE ~crossed
  BY <1>3 DEF Open
<1>4. ASSUME NEW g \in Gen, LoopStep(g), ~Open(g) PROVE ~crossed
  BY <1>4 DEF LoopStep, ReadAtTop, Clear, Enqueue, QuitRound, Pop, Taken, Accept, Discard, Save, Count, Wake, historyVars
<1>5. ASSUME NEW g \in Gen, Deliver(g) \/ Deadline(g) PROVE ~crossed
  BY <1>5 DEF Deliver, Deadline, historyVars
<1>6. ASSUME NEW r \in Runner, RunnerStep(r) PROVE ~crossed
  <2>1. CASE Take(r) \/ Exit(r)
    BY <2>1 DEF Take, Exit, historyVars
  <2>2. ASSUME NEW task \in working[r], Push(r, task) PROVE ~crossed
    BY <2>2 DEF Push, Taken
  <2>3. QED
    BY <1>6, <2>1, <2>2 DEF RunnerStep
<1>7. CASE UNCHANGED vars
  BY <1>7 DEF vars, historyVars
<1>8. QED
  BY <1>1, <1>2, <1>3, <1>4, <1>5, <1>6, <1>7 DEF Next

\* The round that opens is of the latest loop, and no reset is under way.
LEMMA OpensAlone ==
  ASSUME Always, NEW g \in Gen, Open(g), ~crossed'
  PROVE  /\ g = gen /\ main = "waiting" /\ reset = "idle"
         /\ inbox[g] = "none" /\ roundInbox[g] = "none"
<1>1. inbox[g] # "sent" /\ reset = "idle"
  BY DEF Open
<1>2. inbox[g] = "none"
  BY <1>1 DEF Open, Ends, Always, TypeOK, Delivery
<1>3. loop[g] = "top" /\ roundInbox[g] = "none"
  BY DEF Open, Always, Locals, LocalsOf, InRound
<1>4. g \in Int /\ gen \in Int
  BY HandoverBoundsAssumption DEF Always, TypeOK, Gen
<1>5. QED
  BY <1>1, <1>2, <1>3, <1>4 DEF Always, Replaced

\* A reset ends the loop before the next one opens a round.
LEMMA SerialStep ==
  ASSUME Always, Serial, [Next]_vars, ~crossed'
  PROVE  Serial'
<1>1. /\ TypeOK /\ Queue /\ loop \in [Gen -> LoopStates] /\ inbox \in [Gen -> Delivery]
      /\ roundInbox \in [Gen -> Delivery] /\ gen \in Gen
  BY DEF Always, TypeOK
<1>2. ASSUME \A g \in Gen : Active(g)' => Active(g), UNCHANGED <<gen, main, reset, inbox>>,
             \A g \in Gen : Active(g)' => roundInbox'[g] = roundInbox[g]
      PROVE  Serial'
  BY <1>2 DEF Serial
<1>3. ASSUME \A g \in Gen : ~Active(g), loop' = loop PROVE Serial'
  BY <1>3 DEF Serial, Active, InRound
<1>4. CASE Truncate
  <2>1. \A g \in Gen : ~Active(g)
    BY <1>4 DEF Truncate, Active
  <2>2. QED
    BY <1>3, <1>4, <2>1 DEF Truncate
<1>5. CASE ResetStep \/ StartLoads
  <2>1. \A g \in Gen : ~Active(g)
    BY <1>5 DEF Serial, ResetStep, DeleteTasks, DeleteResults, PublishReset, ResetNumber, StartLoads
  <2>2. loop' = loop
    BY <1>5 DEF ResetStep, DeleteTasks, DeleteResults, PublishReset, ResetNumber, StartLoads
  <2>3. QED
    BY <1>3, <2>1, <2>2
<1>6. CASE StartSpawns
  <2>1. loop' = [loop EXCEPT ![gen + 1] = "top"] /\ main = "starting"
    BY <1>6 DEF StartSpawns
  <2>2. \A g \in Gen : ~Active(g)
    BY <2>1 DEF Serial
  <2>3. \A g \in Gen : ~Active(g)'
    BY <1>1, <2>1, <2>2 DEF Active, InRound
  <2>4. QED
    BY <2>3 DEF Serial
<1>7. ASSUME NEW g \in Gen, Deliver(g) PROVE Serial'
  <2>1. loop' = loop /\ gen' = gen /\ main' = main /\ reset' = reset
    BY <1>7 DEF Deliver, mainVars
  <2>2. \A h \in Gen : /\ inbox[h] = "none" => inbox'[h] = "none"
                       /\ roundInbox[h] = "none" => roundInbox'[h] = "none"
    BY <1>1, <1>7 DEF Deliver
  <2>3. QED
    BY <2>1, <2>2 DEF Serial, Active, InRound
<1>8. ASSUME NEW g \in Gen, NEW x \in {"gone", "sleep", "top"}, loop' = [loop EXCEPT ![g] = x],
             gen' = gen, main' = main, reset' = reset,
             \A h \in Gen : h # g => inbox'[h] = inbox[h] /\ roundInbox'[h] = roundInbox[h]
      PROVE  Serial'
  <2>1. \A h \in Gen : Active(h)' => h # g /\ Active(h)
    BY <1>1, <1>8 DEF Active, InRound
  <2>2. QED
    BY <1>8, <2>1 DEF Serial
<1>9. ASSUME NEW g \in Gen, ReadAtTop(g) \/ Count(g) \/ Wake(g) PROVE Serial'
  <2>1. \A h \in Gen : h # g => inbox'[h] = inbox[h] /\ roundInbox'[h] = roundInbox[h]
    BY <1>1, <1>9 DEF ReadAtTop, Count, Wake, roundVars
  <2>2. QED
    BY <1>8, <1>9, <2>1 DEF ReadAtTop, Count, Wake, mainVars
<1>10. ASSUME NEW g \in Gen, QuitRound(g) PROVE Serial'
  BY <1>1, <1>10 DEF QuitRound, Reads, Serial, Active, InRound
<1>11. ASSUME NEW g \in Gen, Discard(g) \/ Save(g) PROVE Serial'
  <2>1. /\ loop[g] \in {"collect", "blocked"} /\ loop' = [loop EXCEPT ![g] = "saved"]
        /\ UNCHANGED <<gen, main, reset, inbox>> /\ EndRound(g)
    BY <1>11 DEF Discard, Save, mainVars
  <2>2. roundInbox'[g] = "none" /\ \A h \in Gen : h # g => roundInbox'[h] = roundInbox[h]
    BY <1>1, <2>1 DEF EndRound
  <2>3. \A h \in Gen : Active(h)' => Active(h)
    BY <1>1, <2>1 DEF Active, InRound
  <2>4. QED
    BY <2>1, <2>2, <2>3 DEF Serial
<1>12. ASSUME NEW g \in Gen, Open(g) PROVE Serial'
  <2>1. /\ g = gen /\ main = "waiting" /\ reset = "idle"
        /\ inbox[g] = "none" /\ roundInbox[g] = "none"
    BY <1>12, OpensAlone
  <2>2. /\ loop' = [loop EXCEPT ![g] = IF tasks = <<>> THEN "enqueue" ELSE "clear"]
        /\ UNCHANGED <<gen, main, reset, inbox, roundInbox>>
    BY <1>12 DEF Open, mainVars
  <2>3. \A h \in Gen : Active(h)' => h = g \/ Active(h)
    BY <1>1, <2>2 DEF Active, InRound
  <2>4. QED
    BY <2>1, <2>2, <2>3 DEF Serial
<1>13. ASSUME NEW g \in Gen, NEW x \in {"collect", "enqueue", "blocked", "popped"}, InRound(g),
              loop' = [loop EXCEPT ![g] = x],
              UNCHANGED <<gen, main, reset, inbox, roundInbox>>
       PROVE  Serial'
  <2>1. \A h \in Gen : Active(h)' => Active(h)
    BY <1>1, <1>13 DEF Active, InRound
  <2>2. QED
    BY <1>2, <1>13, <2>1
<1>14. ASSUME NEW g \in Gen, Clear(g) \/ (\E p \in Pair : Enqueue(g, p)) \/ Accept(g) PROVE Serial'
  BY <1>13, <1>14 DEF Clear, Enqueue, Accept, InRound, mainVars, roundVars
<1>15. ASSUME NEW g \in Gen, Pop(g) PROVE Serial'
  BY <1>13, <1>15 DEF Pop, Taken, InRound, mainVars
<1>16. ASSUME NEW r \in Runner, NEW task \in working[r], Push(r, task) PROVE Serial'
  <2>1. UNCHANGED <<gen, main, reset, inbox, roundInbox>>
    BY <1>16 DEF Push, Taken, mainVars
  <2>2. CASE waiters = <<>>
    <3>1. loop' = loop
      BY <1>16, <2>2 DEF Push, Taken
    <3>2. QED
      BY <1>2, <2>1, <3>1 DEF Active, InRound
  <2>3. CASE waiters # <<>>
    <3>1. PICK g \in Gen : g = Head(waiters) /\ loop[g] = "blocked"
      BY <1>1, <2>3, HeadBlocked
    <3>2. loop' = [loop EXCEPT ![g] = "popped"]
      BY <1>16, <2>3, <3>1 DEF Push, Taken
    <3>3. QED
      BY <1>13, <2>1, <3>1, <3>2 DEF InRound
  <2>4. QED
    BY <2>2, <2>3
<1>17. ASSUME loop' = loop, UNCHANGED <<gen, main, reset, inbox, roundInbox>> PROVE Serial'
  BY <1>2, <1>17 DEF Active, InRound
<1>18. ASSUME NEW g \in Gen, Deadline(g) PROVE Serial'
  BY <1>17, <1>18 DEF Deadline, mainVars
<1>19. ASSUME NEW r \in Runner, Take(r) \/ Exit(r) PROVE Serial'
  BY <1>17, <1>19 DEF Take, Exit, mainVars, roundVars
<1>20. CASE UNCHANGED vars
  BY <1>17, <1>20 DEF vars, mainVars, roundVars
<1>21. QED
  BY <1>4, <1>5, <1>6, <1>7, <1>9, <1>10, <1>11, <1>12, <1>14, <1>15, <1>16, <1>18, <1>19, <1>20
     DEF Next, StartStep, LoopStep, RunnerStep

\* The result just popped is collected if it bears the number of the round.
LEMMA Accepted ==
  ASSUME TypeOK, NEW g \in Gen, Accept(g), NEW e \in Task, popped[g] = {e}
  PROVE  /\ e.round = CurrentRound =>
              /\ Elements(collected'[g]) = Elements(collected[g]) \cup {e}
              /\ Injective(collected[g]) /\ e \notin Elements(collected[g]) => Injective(collected'[g])
         /\ e.round # CurrentRound => collected'[g] = collected[g]
         /\ popped'[g] = {}
<1>1. (CHOOSE task \in popped[g] : TRUE) = e
  OBVIOUS
<1>2. collected[g] \in Seq(Task) /\ collected \in [Gen -> Seq(Task)] /\ popped \in [Gen -> SUBSET Task]
  BY DEF TypeOK
<1>3. popped'[g] = {}
  BY <1>2 DEF Accept
<1>4. CASE e.round = CurrentRound
  <2>1. collected'[g] = collected[g] \o <<e>>
    BY <1>1, <1>2, <1>4 DEF Accept, Accepts
  <2>2. collected[g] \o <<e>> = Append(collected[g], e)
    BY <1>2, AppendIsConcat
  <2>3. /\ Elements(Append(collected[g], e)) = Elements(collected[g]) \cup {e}
        /\ Injective(collected[g]) /\ e \notin Elements(collected[g]) => Injective(Append(collected[g], e))
    BY <1>2, AppendFacts
  <2>4. QED
    BY <1>3, <1>4, <2>1, <2>2, <2>3
<1>5. CASE e.round # CurrentRound
  BY <1>2, <1>3, <1>5 DEF Accept, Accepts
<1>6. QED
  BY <1>4, <1>5

\* What Del leaves of a list.
LEMMA EmptyFacts == Elements(<<>>) = {} /\ Injective(<<>>)
BY DEF Elements, Injective

\* Only enqueueing makes a task, and only a late push brings one back.
LEMMA NoNewTasks ==
  ASSUME Always, Serial, [Next]_vars, ~crossed', \A g \in Gen, p \in Pair : ~Enqueue(g, p)
  PROVE  /\ \A t : Somewhere(t)' => Somewhere(t)
         /\ ~late' => \A t : Live(t)' => Live(t)
<1>1. /\ TypeOK /\ Queue /\ Locals /\ gen \in Gen
      /\ popped \in [Gen -> SUBSET Task] /\ collected \in [Gen -> Seq(Task)]
      /\ working \in [Runner -> SUBSET Task] /\ signalled \in [Runner -> BOOLEAN]
      /\ tasks \in Seq(Task) /\ results \in Seq(Task)
  BY DEF Always, TypeOK
<1> DEFINE Goal == /\ \A t : Somewhere(t)' => Somewhere(t)
                   /\ ~late' => \A t : Live(t)' => Live(t)
<1>2. ASSUME UNCHANGED <<tasks, results, working, signalled>>,
             Elements(collected'[gen']) \subseteq Elements(collected[gen]), popped'[gen'] \subseteq popped[gen]
      PROVE  Goal
  <2>1. \A t : Somewhere(t)' => Somewhere(t)
    BY <1>2 DEF Somewhere
  <2>2. \A t : Live(t)' => Live(t)
    BY <1>2 DEF Live
  <2>3. QED
    BY <2>1, <2>2
<1>3. ASSUME UNCHANGED <<gen, collected, popped, working, signalled>>,
             Elements(tasks') \subseteq Elements(tasks), Elements(results') \subseteq Elements(results)
      PROVE  Goal
  <2>1. \A t : Somewhere(t)' => Somewhere(t)
    BY <1>3 DEF Somewhere
  <2>2. \A t : Live(t)' => Live(t)
    BY <1>3 DEF Live
  <2>3. QED
    BY <2>1, <2>2
<1>4. CASE Truncate \/ ResetNumber \/ StartLoads
  BY <1>3, <1>4 DEF Truncate, ResetNumber, StartLoads, roundVars, redisVars, runnerVars
<1>5. CASE DeleteTasks
  BY <1>3, <1>5, EmptyFacts DEF DeleteTasks, roundVars, runnerVars
<1>6. CASE DeleteResults
  BY <1>3, <1>6, EmptyFacts DEF DeleteResults, ResultsAfterReset, roundVars, runnerVars
<1>7. CASE PublishReset
  <2>1. /\ UNCHANGED <<gen, tasks, results, collected, popped, working>>
        /\ \A r \in Runner : signalled'[r] = TRUE
    BY <1>7 DEF PublishReset, redisVars
  <2>2. \A t : Somewhere(t)' => Somewhere(t)
    BY <2>1 DEF Somewhere
  <2>3. \A t : Live(t)' => Live(t)
    BY <2>1 DEF Live
  <2>4. QED
    BY <2>2, <2>3
<1>8. CASE StartSpawns
  <2>1. /\ gen' = gen + 1 /\ gen + 1 \in Gen /\ loop[gen + 1] = "none"
        /\ UNCHANGED <<tasks, results, collected, popped, working, signalled>>
    BY <1>8, HandoverBoundsAssumption
       DEF StartSpawns, Always, TypeOK, Replaced, Gen, roundVars, redisVars, runnerVars
  <2>2. collected[gen + 1] = <<>> /\ popped[gen + 1] = {}
    BY <1>1, <2>1 DEF Locals, LocalsOf, InRound
  <2>3. Elements(collected'[gen']) = {} /\ popped'[gen'] = {}
    BY <2>1, <2>2, EmptyFacts
  <2>4. QED
    BY <1>2, <2>1, <2>3
<1>9. ASSUME NEW g \in Gen, Deliver(g) \/ Deadline(g) \/ ReadAtTop(g) \/ Count(g) \/ Wake(g)
      PROVE  Goal
  BY <1>3, <1>9 DEF Deliver, Deadline, ReadAtTop, Count, Wake, mainVars, roundVars, redisVars, runnerVars
<1>10. ASSUME NEW g \in Gen, QuitRound(g) \/ Discard(g) \/ Save(g) PROVE Goal
  <2>1. g = gen
    BY <1>10 DEF QuitRound, Discard, Save, Serial, Active, InRound
  <2>2. /\ UNCHANGED <<gen, popped, tasks, results, working, signalled>> /\ EndRound(g)
    BY <1>10 DEF QuitRound, Discard, Save, mainVars, redisVars, runnerVars
  <2>3. collected'[gen] = <<>>
    BY <1>1, <2>1, <2>2 DEF EndRound
  <2>4. QED
    BY <1>2, <2>2, <2>3, EmptyFacts
<1>11. ASSUME NEW g \in Gen, Open(g) PROVE Goal
  BY <1>3, <1>11 DEF Open, mainVars, redisVars, runnerVars
<1>12. ASSUME NEW g \in Gen, Pop(g) PROVE Goal
  <2>1. g = gen /\ UNCHANGED <<gen, tasks, collected, working, signalled>>
    BY <1>12 DEF Pop, Taken, Serial, Active, InRound, mainVars, runnerVars
  <2>2. CASE results = <<>>
    BY <1>3, <1>12, <2>1, <2>2 DEF Pop, Taken
  <2>3. CASE results # <<>>
    <3>1. results' = Tail(results) /\ popped'[gen] = {Head(results)}
      BY <1>1, <1>12, <2>1, <2>3 DEF Pop, Taken
    <3>2. Elements(results) = Elements(results') \cup {Head(results)}
      BY <1>1, <2>3, <3>1, TailFacts
    <3>3. \A t : Somewhere(t)' => Somewhere(t)
      BY <2>1, <3>1, <3>2 DEF Somewhere
    <3>4. \A t : Live(t)' => Live(t)
      BY <2>1, <3>1, <3>2 DEF Live
    <3>5. QED
      BY <3>3, <3>4
  <2>4. QED
    BY <2>2, <2>3
<1>13. ASSUME NEW g \in Gen, Accept(g) PROVE Goal
  <2>1. g = gen /\ UNCHANGED <<gen, tasks, results, working, signalled>>
    BY <1>13 DEF Accept, Serial, Active, InRound, mainVars, redisVars, runnerVars
  <2>2. PICK e \in Task : popped[gen] = {e}
    BY <1>1, <1>13, <2>1 DEF Accept, Locals, LocalsOf
  <2>3. Elements(collected'[gen]) \subseteq Elements(collected[gen]) \cup popped[gen] /\ popped'[gen] = {}
    BY <1>1, <1>13, <2>1, <2>2, Accepted
  <2>4. \A t : Somewhere(t)' => Somewhere(t)
    BY <2>1, <2>3 DEF Somewhere
  <2>5. \A t : Live(t)' => Live(t)
    BY <2>1, <2>3 DEF Live
  <2>6. QED
    BY <2>4, <2>5
<1>14. ASSUME NEW r \in Runner, Take(r) PROVE Goal
  <2>1. UNCHANGED <<gen, results, collected, popped, signalled>>
    BY <1>14 DEF Take, mainVars, roundVars
  <2>2. /\ tasks # <<>> /\ tasks' = Tail(tasks)
        /\ working' = [working EXCEPT ![r] = working[r] \cup {Head(tasks)}]
    BY <1>14 DEF Take
  <2>3. Elements(tasks) = Elements(tasks') \cup {Head(tasks)}
    BY <1>1, <2>2, TailFacts
  <2>4. \A q \in Runner : working'[q] \subseteq working[q] \cup {Head(tasks)}
    BY <1>1, <2>2
  <2>5. \A t : Somewhere(t)' => Somewhere(t)
    BY <2>1, <2>3, <2>4 DEF Somewhere
  <2>6. \A t : Live(t)' => Live(t)
    BY <2>1, <2>3, <2>4 DEF Live
  <2>7. QED
    BY <2>5, <2>6
<1>15. ASSUME NEW r \in Runner, NEW task \in working[r], Push(r, task) PROVE Goal
  <2>1. UNCHANGED <<gen, tasks, collected, signalled>>
    BY <1>15 DEF Push, Taken, mainVars
  <2>2. /\ \A q \in Runner : working'[q] \subseteq working[q]
        /\ late' = (late \/ signalled[r] \/ reset = "resultsGone")
    BY <1>1, <1>15 DEF Push, Taken
  <2>3. Elements(results') \cup popped'[gen] \subseteq Elements(results) \cup popped[gen] \cup {task}
    <3>1. CASE waiters = <<>>
      <4>1. results' = Append(results, task) /\ popped' = popped
        BY <1>15, <3>1 DEF Push, Taken
      <4>2. Elements(results') = Elements(results) \cup {task}
        BY <1>1, <4>1, AppendFacts
      <4>3. QED
        BY <4>1, <4>2
    <3>2. CASE waiters # <<>>
      <4>1. PICK h \in Gen : h = Head(waiters)
        BY <1>1, <3>2, HeadBlocked
      <4>2. results' = results /\ popped' = [popped EXCEPT ![h] = {task}]
        BY <1>15, <3>2, <4>1 DEF Push, Taken
      <4>3. popped'[gen] \subseteq popped[gen] \cup {task}
        BY <1>1, <4>2
      <4>4. QED
        BY <4>2, <4>3
    <3>3. QED
      BY <3>1, <3>2
  <2>4. \A t : Somewhere(t)' => Somewhere(t)
    BY <2>1, <2>2, <2>3 DEF Somewhere
  <2>5. ASSUME ~late' PROVE \A t : Live(t)' => Live(t)
    <3>1. ~signalled[r]
      BY <2>2, <2>5
    <3>2. QED
      BY <2>1, <2>2, <2>3, <3>1 DEF Live
  <2>6. QED
    BY <2>4, <2>5
<1>16. ASSUME NEW r \in Runner, Exit(r) PROVE Goal
  <2>1. /\ UNCHANGED <<gen, tasks, results, collected, popped>>
        /\ working'[r] = {} /\ \A q \in Runner : q # r => working'[q] = working[q] /\ signalled'[q] = signalled[q]
    BY <1>1, <1>16 DEF Exit, mainVars, roundVars, redisVars
  <2>2. \A t : Somewhere(t)' => Somewhere(t)
    BY <2>1 DEF Somewhere
  <2>3. \A t : Live(t)' => Live(t)
    BY <2>1 DEF Live
  <2>4. QED
    BY <2>2, <2>3
<1>17. CASE UNCHANGED vars
  BY <1>3, <1>17 DEF vars, mainVars, roundVars, redisVars, runnerVars
<1>18. ASSUME NEW g \in Gen, Clear(g) PROVE Goal
  <2>1. /\ tasks' = tasks \/ tasks' = <<>>
        /\ UNCHANGED <<gen, collected, popped, results, working, signalled>>
    BY <1>18 DEF Clear, mainVars, roundVars, runnerVars
  <2>2. Elements(tasks') \subseteq Elements(tasks)
    BY <2>1, EmptyFacts
  <2>3. QED
    BY <1>3, <2>1, <2>2
<1> HIDE DEF Goal
<1>19. ASSUME NEW g \in Gen, LoopStep(g) PROVE Goal
  BY <1>9, <1>10, <1>11, <1>12, <1>13, <1>18, <1>19 DEF LoopStep
<1>20. ASSUME NEW r \in Runner, RunnerStep(r) PROVE Goal
  BY <1>14, <1>15, <1>16, <1>20 DEF RunnerStep
<1>21. QED
  BY <1>4, <1>5, <1>6, <1>7, <1>8, <1>9, <1>17, <1>19, <1>20 DEF Next, ResetStep, StartStep, Goal

\* Whatever is in a list or in a hand is a task.
LEMMA TasksAreTasks ==
  ASSUME TypeOK, NEW t, Somewhere(t)
  PROVE  t \in Task
<1>1. /\ tasks \in Seq(Task) /\ results \in Seq(Task) /\ collected[gen] \in Seq(Task)
      /\ popped[gen] \subseteq Task /\ \A r \in Runner : working[r] \subseteq Task
  BY DEF TypeOK
<1>2. \A s \in Seq(Task) : Elements(s) \subseteq Task
  BY ElementOfSeq DEF Elements
<1>3. QED
  BY <1>1, <1>2 DEF Somewhere

\* Between its opening and its count the round of the latest loop is the same.
LEMMA SameRound ==
  ASSUME Always, Serial, [Next]_vars, ~crossed', \A g \in Gen : ~Open(g)
  PROVE  /\ opens' = opens /\ opening' = opening
         /\ Active(gen)' => gen' = gen /\ Active(gen) /\ CurrentRound' = CurrentRound
         /\ InRound(gen)' => InRound(gen)
<1>1. /\ TypeOK /\ Queue /\ loop \in [Gen -> LoopStates] /\ gen \in Gen
  BY DEF Always, TypeOK
<1> DEFINE Goal == /\ opens' = opens /\ opening' = opening
                   /\ Active(gen)' => gen' = gen /\ Active(gen) /\ CurrentRound' = CurrentRound
                   /\ InRound(gen)' => InRound(gen)
<1>2. ASSUME UNCHANGED <<loop, gen, CurrentRound, opens, opening>> PROVE Goal
  BY <1>2 DEF Active, InRound
<1>3. CASE Truncate \/ ResetStep \/ StartLoads
  <2>1. ~Active(gen) /\ UNCHANGED <<loop, gen, opens, opening>>
    BY <1>1, <1>3 DEF Truncate, Serial, ResetStep, DeleteTasks, DeleteResults, PublishReset,
                      ResetNumber, StartLoads, Active, historyVars
  <2>2. QED
    BY <2>1 DEF Active, InRound
<1>4. CASE StartSpawns
  <2>1. /\ gen' = gen + 1 /\ loop' = [loop EXCEPT ![gen + 1] = "top"] /\ gen + 1 \in Gen
        /\ UNCHANGED <<opens, opening>>
    BY <1>4, HandoverBoundsAssumption DEF StartSpawns, Always, TypeOK, Replaced, Gen, historyVars
  <2>2. loop'[gen'] = "top"
    BY <1>1, <2>1
  <2>3. QED
    BY <2>1, <2>2 DEF Active, InRound
<1>5. ASSUME NEW g \in Gen, Deliver(g) \/ Deadline(g) PROVE Goal
  BY <1>2, <1>5 DEF Deliver, Deadline, mainVars, historyVars
<1>6. ASSUME NEW g \in Gen, ReadAtTop(g) \/ Wake(g) \/ Count(g) PROVE Goal
  <2>1. UNCHANGED <<gen, opens, opening>>
    BY <1>6 DEF ReadAtTop, Wake, Count, mainVars, historyVars
  <2>2. CASE g = gen
    <3>1. loop'[gen] \in {"gone", "top", "sleep"}
      BY <1>1, <1>6, <2>2 DEF ReadAtTop, Wake, Count
    <3>2. QED
      BY <2>1, <3>1 DEF Active, InRound
  <2>3. CASE g # gen
    <3>1. ~Count(g)
      BY <2>3 DEF Count, Serial, Active
    <3>2. loop'[gen] = loop[gen] /\ CurrentRound' = CurrentRound
      BY <1>1, <1>6, <2>3, <3>1 DEF ReadAtTop, Wake
    <3>3. QED
      BY <2>1, <3>2 DEF Active, InRound
  <2>4. QED
    BY <2>2, <2>3
<1>7. ASSUME NEW g \in Gen, QuitRound(g) \/ Discard(g) \/ Save(g) PROVE Goal
  <2>1. g = gen /\ InRound(gen)
    BY <1>7 DEF QuitRound, Discard, Save, Serial, Active, InRound
  <2>2. loop'[gen] \in {"gone", "saved"} /\ UNCHANGED <<gen, CurrentRound, opens, opening>>
    BY <1>1, <1>7, <2>1 DEF QuitRound, Discard, Save, mainVars, historyVars
  <2>3. QED
    BY <2>1, <2>2 DEF Active
<1>8. ASSUME NEW g \in Gen, Clear(g) \/ (\E p \in Pair : Enqueue(g, p)) \/ Pop(g) \/ Accept(g) PROVE Goal
  <2>1. g = gen /\ InRound(gen)
    BY <1>8 DEF Clear, Enqueue, Pop, Taken, Accept, Serial, Active, InRound
  <2>2. UNCHANGED <<gen, CurrentRound, opens, opening>>
    BY <1>8 DEF Clear, Enqueue, Pop, Taken, Accept, mainVars, historyVars
  <2>3. QED
    BY <2>1, <2>2 DEF Active
<1>9. ASSUME NEW r \in Runner, Take(r) \/ Exit(r) PROVE Goal
  BY <1>2, <1>9 DEF Take, Exit, mainVars, historyVars
<1>10. ASSUME NEW r \in Runner, NEW task \in working[r], Push(r, task) PROVE Goal
  <2>1. UNCHANGED <<gen, CurrentRound, opens, opening>>
    BY <1>10 DEF Push, Taken, mainVars
  <2>2. CASE waiters = <<>>
    BY <1>2, <1>10, <2>1, <2>2 DEF Push, Taken
  <2>3. CASE waiters # <<>>
    <3>1. InRound(gen)
      BY <1>1, <2>3, HeadBlocked DEF Serial, Active, InRound
    <3>2. QED
      BY <2>1, <3>1 DEF Active
  <2>4. QED
    BY <2>2, <2>3
<1>11. CASE UNCHANGED vars
  BY <1>2, <1>11 DEF vars, mainVars, historyVars
<1>12. ASSUME NEW g \in Gen, LoopStep(g) PROVE Goal
  BY <1>6, <1>7, <1>8, <1>12 DEF LoopStep
<1>13. ASSUME NEW r \in Runner, RunnerStep(r) PROVE Goal
  BY <1>9, <1>10, <1>13 DEF RunnerStep
<1>14. QED
  BY <1>3, <1>4, <1>5, <1>11, <1>12, <1>13 DEF Next, StartStep, Goal

\* What a round has enqueued or collected changes only within it.
LEMMA RoundShrinks ==
  ASSUME Always, Serial, [Next]_vars, ~crossed', \A g \in Gen : ~Open(g), InRound(gen)'
  PROVE  todo'[gen'] \subseteq todo[gen]
<1>1. /\ gen' = gen /\ InRound(gen) /\ todo \in [Gen -> SUBSET Pair] /\ gen \in Gen
  BY SameRound DEF Active, Always, TypeOK
<1>2. loop'[gen] \notin {"gone", "saved"} /\ loop \in [Gen -> LoopStates]
  BY <1>1 DEF InRound, Always, TypeOK
<1>3. CASE Truncate \/ ResetStep \/ StartStep
  BY <1>1, <1>3 DEF Truncate, ResetStep, DeleteTasks, DeleteResults, PublishReset, ResetNumber,
                    StartStep, StartLoads, StartSpawns, roundVars
<1>4. ASSUME NEW g \in Gen, LoopStep(g) PROVE todo'[gen'] \subseteq todo[gen]
  <2>1. CASE QuitRound(g) \/ Discard(g) \/ Save(g)
    <3>1. g = gen
      BY <2>1 DEF QuitRound, Discard, Save, Serial, Active, InRound
    <3>2. QED
      BY <1>1, <1>2, <2>1, <3>1 DEF QuitRound, Discard, Save
  <2>2. ASSUME NEW p \in Pair, Enqueue(g, p) PROVE todo'[gen'] \subseteq todo[gen]
    BY <1>1, <2>2 DEF Enqueue
  <2>3. CASE ReadAtTop(g) \/ Clear(g) \/ Pop(g) \/ Accept(g) \/ Count(g) \/ Wake(g)
    BY <1>1, <2>3 DEF ReadAtTop, Clear, Pop, Taken, Accept, Count, Wake, roundVars
  <2>4. QED
    BY <1>4, <2>1, <2>2, <2>3 DEF LoopStep
<1>5. ASSUME NEW g \in Gen, Deliver(g) \/ Deadline(g) PROVE todo'[gen'] \subseteq todo[gen]
  BY <1>1, <1>5 DEF Deliver, Deadline
<1>6. ASSUME NEW r \in Runner, RunnerStep(r) PROVE todo'[gen'] \subseteq todo[gen]
  <2>1. CASE Take(r) \/ Exit(r)
    BY <1>1, <2>1 DEF Take, Exit, roundVars
  <2>2. ASSUME NEW task \in working[r], Push(r, task) PROVE todo'[gen'] \subseteq todo[gen]
    BY <1>1, <2>2 DEF Push, Taken
  <2>3. QED
    BY <1>6, <2>1, <2>2 DEF RunnerStep
<1>7. CASE UNCHANGED vars
  BY <1>1, <1>7 DEF vars, roundVars
<1>8. QED
  BY <1>3, <1>4, <1>5, <1>6, <1>7 DEF Next

\* A task is made for the pair just taken from those to enqueue.
LEMMA KnownStep ==
  ASSUME Always, Serial, Known, [Next]_vars, ~crossed'
  PROVE  Known'
<1>1. \A t : Somewhere(t) => t.open <= opens /\ (InRound(gen) /\ t.open = opening[gen] => t.pair \notin todo[gen])
  BY Where DEF Known
<1>2. \A g \in Gen : opening'[g] <= opens'
  <2>1. /\ \A g \in Gen : opening[g] <= opens
        /\ opens \in Nat /\ opening \in [Gen -> Nat]
    BY DEF Known, Always, TypeOK
  <2>2. ASSUME NEW g \in Gen, Open(g) PROVE \A h \in Gen : opening'[h] <= opens'
    <3>1. opens' = opens + 1 /\ opening' = [opening EXCEPT ![g] = opens + 1]
      BY <2>2 DEF Open
    <3>2. QED
      BY <2>1, <3>1
  <2>3. CASE \A g \in Gen : ~Open(g)
    BY <2>1, <2>3, SameRound
  <2>4. QED
    BY <2>2, <2>3
<1>3. SUFFICES ASSUME NEW t, Somewhere(t)'
               PROVE  /\ t.open <= opens'
                      /\ InRound(gen)' /\ t.open = opening'[gen'] => t.pair \notin todo'[gen']
  BY <1>2, Where DEF Known
<1>4. CASE \E g \in Gen : Open(g)
  <2>1. PICK g \in Gen : Open(g)
    BY <1>4
  <2>2. g = gen /\ gen' = gen
    BY <2>1, OpensAlone DEF Open, mainVars
  <2>3. \A h \in Gen, p \in Pair : ~Enqueue(h, p)
    BY <2>1 DEF Open, Enqueue, Always, TypeOK
  <2>4. Somewhere(t)
    BY <1>3, <2>3, NoNewTasks
  <2>5. t.open <= opens /\ opens \in Nat /\ opens' = opens + 1 /\ opening'[gen] = opens + 1
    BY <1>1, <2>1, <2>2, <2>4 DEF Open, Always, TypeOK
  <2>6. t.open \in Nat
    BY <2>4, TasksAreTasks DEF Task, Always
  <2>7. QED
    BY <2>2, <2>5, <2>6
<1>5. CASE \E g \in Gen, p \in Pair : Enqueue(g, p)
  <2>1. PICK g \in Gen, p \in Pair : Enqueue(g, p)
    BY <1>5
  <2>2. g = gen /\ InRound(gen)
    BY <2>1 DEF Enqueue, Serial, Active, InRound
  <2>3. /\ gen' = gen /\ opens' = opens /\ opening' = opening
        /\ todo'[gen] = todo[gen] \ {p} /\ p \in todo[gen]
        /\ UNCHANGED <<results, collected, popped, working>>
        /\ tasks' = tasks \/ tasks' = Append(tasks, OwnTask(p))
    BY <2>1, <2>2 DEF Enqueue, OwnTask, mainVars, runnerVars, historyVars, Always, TypeOK
  <2>4. OwnTask(p) \in Task /\ tasks \in Seq(Task)
    BY <2>2 DEF OwnTask, Task, Always, TypeOK
  <2>5. Elements(tasks') \subseteq Elements(tasks) \cup {OwnTask(p)}
    BY <2>3, <2>4, AppendFacts, ZenonT(30)
  <2>6. Somewhere(t) \/ t = OwnTask(p)
    BY <1>3, <2>3, <2>5 DEF Somewhere
  <2>7. CASE Somewhere(t)
    BY <1>1, <2>2, <2>3, <2>7
  <2>8. CASE t = OwnTask(p)
    <3>1. t.pair = p /\ t.open = opening[gen]
      BY <2>8 DEF OwnTask
    <3>2. opening[gen] <= opens
      BY DEF Always, TypeOK, Known
    <3>3. QED
      BY <2>3, <3>1, <3>2
  <2>9. QED
    BY <2>6, <2>7, <2>8
<1>6. CASE (\A g \in Gen : ~Open(g)) /\ (\A g \in Gen, p \in Pair : ~Enqueue(g, p))
  <2>1. Somewhere(t)
    BY <1>3, <1>6, NoNewTasks
  <2>2. opens' = opens /\ opening' = opening
    BY <1>6, SameRound
  <2>3. InRound(gen)' => gen' = gen /\ InRound(gen) /\ todo'[gen'] \subseteq todo[gen]
    BY <1>6, SameRound, RoundShrinks DEF Active
  <2>4. QED
    BY <1>1, <2>1, <2>2, <2>3
<1>7. QED
  BY <1>4, <1>5, <1>6

-----------------------------------------------------------------------------
(* One task, one place *)

\* A task that moves from one place to another is in one place still.
LEMMA Moves ==
  ASSUME NEW T, NEW R, NEW C, NEW P, NEW W, DOMAIN W = Runner, Disjoint(T, R, C, P, W), NEW e
  PROVE  /\ e \notin T \cup R \cup C \cup P /\ (\A r \in Runner : e \notin W[r])
              => Disjoint(T \cup {e}, R, C, P, W)
         /\ \A r \in Runner : e \in T => Disjoint(T \ {e}, R, C, P, [W EXCEPT ![r] = W[r] \cup {e}])
         /\ \A r \in Runner : e \in W[r] => Disjoint(T, R \cup {e}, C, P, [W EXCEPT ![r] = W[r] \ {e}])
         /\ \A r \in Runner : e \in W[r] => Disjoint(T, R, C, {e}, [W EXCEPT ![r] = W[r] \ {e}])
         /\ e \in R => Disjoint(T, R \ {e}, C, {e}, W)
         /\ e \in P => Disjoint(T, R, C \cup {e}, {}, W)
BY DEF Disjoint

\* A place that loses tasks shares none.
LEMMA Shrinks ==
  ASSUME NEW T, NEW R, NEW C, NEW P, NEW W, Disjoint(T, R, C, P, W),
         NEW t \in SUBSET T, NEW r \in SUBSET R, NEW c \in SUBSET C, NEW p \in SUBSET P,
         NEW w, \A q \in Runner : w[q] \subseteq W[q]
  PROVE  Disjoint(t, r, c, p, w)
BY DEF Disjoint

\* A task is handed on, never copied.
LEMMA ApartStep ==
  ASSUME Always, Serial, Apart, Known, [Next]_vars, ~crossed'
  PROVE  Apart'
<1>1. /\ TypeOK /\ Queue /\ Locals /\ gen \in Gen
      /\ popped \in [Gen -> SUBSET Task] /\ collected \in [Gen -> Seq(Task)]
      /\ working \in [Runner -> SUBSET Task] /\ DOMAIN working = Runner
      /\ tasks \in Seq(Task) /\ results \in Seq(Task)
  BY DEF Always, TypeOK
<1>2. /\ Injective(tasks) /\ Injective(results) /\ Injective(collected[gen])
      /\ Disjoint(Elements(tasks), Elements(results), Elements(collected[gen]), popped[gen], working)
  BY DEF Apart
<1>3. ASSUME UNCHANGED <<gen, tasks, results, collected, popped, working>> PROVE Apart'
  BY <1>2, <1>3 DEF Apart
<1>4. ASSUME Injective(tasks'), Injective(results'), Injective(collected'[gen']),
             Elements(tasks') \subseteq Elements(tasks), Elements(results') \subseteq Elements(results),
             Elements(collected'[gen']) \subseteq Elements(collected[gen]),
             popped'[gen'] \subseteq popped[gen], \A r \in Runner : working'[r] \subseteq working[r]
      PROVE  Apart'
  BY <1>2, <1>4, Shrinks DEF Apart
<1>5. CASE Truncate \/ PublishReset \/ ResetNumber \/ StartLoads
  BY <1>3, <1>5 DEF Truncate, PublishReset, ResetNumber, StartLoads, roundVars, redisVars, runnerVars
<1>6. CASE DeleteTasks
  BY <1>2, <1>4, <1>6, EmptyFacts DEF DeleteTasks, roundVars, runnerVars
<1>7. CASE DeleteResults
  BY <1>2, <1>4, <1>7, EmptyFacts DEF DeleteResults, ResultsAfterReset, roundVars, runnerVars
<1>8. CASE StartSpawns
  <2>1. /\ gen' = gen + 1 /\ gen + 1 \in Gen /\ loop[gen + 1] = "none"
        /\ UNCHANGED <<tasks, results, collected, popped, working>>
    BY <1>8, HandoverBoundsAssumption
       DEF StartSpawns, Always, TypeOK, Replaced, Gen, roundVars, redisVars, runnerVars
  <2>2. collected[gen + 1] = <<>> /\ popped[gen + 1] = {}
    BY <1>1, <2>1 DEF Locals, LocalsOf, InRound
  <2>3. Elements(collected'[gen']) = {} /\ Injective(collected'[gen']) /\ popped'[gen'] = {}
    BY <2>1, <2>2, EmptyFacts
  <2>4. QED
    BY <1>2, <1>4, <2>1, <2>3
<1>9. ASSUME NEW g \in Gen, Deliver(g) \/ Deadline(g) \/ ReadAtTop(g) \/ Count(g) \/ Wake(g)
      PROVE  Apart'
  BY <1>3, <1>9 DEF Deliver, Deadline, ReadAtTop, Count, Wake, mainVars, roundVars, redisVars, runnerVars
<1>10. ASSUME NEW g \in Gen, QuitRound(g) \/ Discard(g) \/ Save(g) PROVE Apart'
  <2>1. g = gen
    BY <1>10 DEF QuitRound, Discard, Save, Serial, Active, InRound
  <2>2. /\ UNCHANGED <<gen, popped, tasks, results, working>> /\ EndRound(g)
    BY <1>10 DEF QuitRound, Discard, Save, mainVars, redisVars, runnerVars
  <2>3. collected'[gen] = <<>>
    BY <1>1, <2>1, <2>2 DEF EndRound
  <2>4. Elements(collected'[gen']) = {} /\ Injective(collected'[gen'])
    BY <2>2, <2>3, EmptyFacts
  <2>5. QED
    BY <1>2, <1>4, <2>2, <2>4
<1>11. ASSUME NEW g \in Gen, Open(g) \/ Clear(g) PROVE Apart'
  <2>1. /\ tasks' = tasks \/ tasks' = <<>>
        /\ UNCHANGED <<gen, results, collected, popped, working>>
    BY <1>11 DEF Open, Clear, mainVars, roundVars, redisVars, runnerVars
  <2>2. Elements(tasks') \subseteq Elements(tasks) /\ Injective(tasks')
    BY <1>2, <2>1, EmptyFacts
  <2>3. QED
    BY <1>2, <1>4, <2>1, <2>2
<1>12. ASSUME NEW g \in Gen, NEW p \in Pair, Enqueue(g, p) PROVE Apart'
  <2>1. g = gen /\ InRound(gen)
    BY <1>12 DEF Enqueue, Serial, Active, InRound
  <2>2. UNCHANGED <<gen, results, collected, popped, working>> /\ p \in todo[gen]
    BY <1>12, <2>1 DEF Enqueue, mainVars, runnerVars
  <2>3. CASE tasks' = tasks
    BY <1>3, <2>2, <2>3
  <2>4. CASE tasks' = Append(tasks, OwnTask(p))
    <3>1. OwnTask(p) \in Task
      BY <1>1 DEF OwnTask, Task, TypeOK
    <3>2. ~Somewhere(OwnTask(p))
      BY <2>1, <2>2, Where DEF Known, OwnTask
    <3>3. Elements(tasks') = Elements(tasks) \cup {OwnTask(p)} /\ Injective(tasks')
      <4>1. OwnTask(p) \notin Elements(tasks)
        BY <3>2 DEF Somewhere
      <4>2. QED
        BY <1>1, <1>2, <2>4, <3>1, <4>1, AppendFacts
    <3>4. Disjoint(Elements(tasks) \cup {OwnTask(p)}, Elements(results), Elements(collected[gen]),
                   popped[gen], working)
      <4>1. /\ OwnTask(p) \notin Elements(tasks) \cup Elements(results) \cup Elements(collected[gen])
                                 \cup popped[gen]
            /\ \A r \in Runner : OwnTask(p) \notin working[r]
        BY <3>2 DEF Somewhere
      <4>2. QED
        BY <1>1, <1>2, <4>1, Moves
    <3>5. QED
      BY <1>2, <2>2, <3>3, <3>4 DEF Apart
  <2>5. QED
    BY <1>12, <2>1, <2>3, <2>4 DEF Enqueue, OwnTask
<1>13. ASSUME NEW g \in Gen, Pop(g) PROVE Apart'
  <2>1. g = gen /\ UNCHANGED <<gen, tasks, collected, working>>
    BY <1>13 DEF Pop, Taken, Serial, Active, InRound, mainVars, runnerVars
  <2>2. CASE results = <<>>
    BY <1>3, <1>13, <2>1, <2>2 DEF Pop, Taken
  <2>3. CASE results # <<>>
    <3>1. PICK e : e = Head(results)
      OBVIOUS
    <3>2. results' = Tail(results) /\ popped'[gen] = {e}
      BY <1>1, <1>13, <2>1, <2>3, <3>1 DEF Pop, Taken
    <3>3. /\ Elements(results) = Elements(results') \cup {e} /\ e \notin Elements(results')
          /\ Injective(results')
      BY <1>1, <1>2, <2>3, <3>1, <3>2, TailFacts
    <3>4. Elements(results') = Elements(results) \ {e} /\ e \in Elements(results)
      BY <3>3
    <3>5. Disjoint(Elements(tasks), Elements(results) \ {e}, Elements(collected[gen]), {e}, working)
      BY <1>1, <1>2, <3>4, Moves
    <3>6. QED
      BY <1>2, <2>1, <3>2, <3>3, <3>4, <3>5 DEF Apart
  <2>4. QED
    BY <2>2, <2>3
<1>14. ASSUME NEW g \in Gen, Accept(g) PROVE Apart'
  <2>1. g = gen /\ UNCHANGED <<gen, tasks, results, working>>
    BY <1>14 DEF Accept, Serial, Active, InRound, mainVars, redisVars, runnerVars
  <2>2. PICK e \in Task : popped[gen] = {e}
    BY <1>1, <1>14, <2>1 DEF Accept, Locals, LocalsOf
  <2>3. e \notin Elements(collected[gen])
    BY <1>2, <2>2 DEF Disjoint
  <2>4. CASE e.round = CurrentRound
    <3>1. /\ Elements(collected'[gen]) = Elements(collected[gen]) \cup {e}
          /\ Injective(collected'[gen]) /\ popped'[gen] = {}
      BY <1>1, <1>2, <1>14, <2>1, <2>2, <2>3, <2>4, Accepted
    <3>2. Disjoint(Elements(tasks), Elements(results), Elements(collected[gen]) \cup {e}, {}, working)
      BY <1>1, <1>2, <2>2, Moves
    <3>3. QED
      BY <1>2, <2>1, <3>1, <3>2 DEF Apart
  <2>5. CASE e.round # CurrentRound
    <3>1. collected'[gen] = collected[gen] /\ popped'[gen] = {}
      BY <1>1, <1>14, <2>1, <2>2, <2>5, Accepted
    <3>2. QED
      BY <1>2, <1>4, <2>1, <3>1
  <2>6. QED
    BY <2>4, <2>5
<1>15. ASSUME NEW r \in Runner, Take(r) PROVE Apart'
  <2>1. UNCHANGED <<gen, results, collected, popped>>
    BY <1>15 DEF Take, mainVars, roundVars
  <2>2. PICK e : e = Head(tasks)
    OBVIOUS
  <2>3. tasks # <<>> /\ tasks' = Tail(tasks) /\ working' = [working EXCEPT ![r] = working[r] \cup {e}]
    BY <1>15, <2>2 DEF Take
  <2>4. /\ Elements(tasks) = Elements(tasks') \cup {e} /\ e \notin Elements(tasks')
        /\ Injective(tasks')
    BY <1>1, <1>2, <2>2, <2>3, TailFacts
  <2>5. Elements(tasks') = Elements(tasks) \ {e} /\ e \in Elements(tasks)
    BY <2>4
  <2>6. Disjoint(Elements(tasks) \ {e}, Elements(results), Elements(collected[gen]), popped[gen],
                 [working EXCEPT ![r] = working[r] \cup {e}])
    BY <1>1, <1>2, <2>5, Moves
  <2>7. QED
    BY <1>2, <2>1, <2>3, <2>4, <2>5, <2>6 DEF Apart
<1>16. ASSUME NEW r \in Runner, NEW task \in working[r], Push(r, task) PROVE Apart'
  <2>1. /\ UNCHANGED <<gen, tasks, collected>>
        /\ working' = [working EXCEPT ![r] = working[r] \ {task}]
    BY <1>16 DEF Push, Taken, mainVars
  <2>2. CASE waiters = <<>>
    <3>1. results' = Append(results, task) /\ popped' = popped /\ task \in Task
      BY <1>1, <1>16, <2>2 DEF Push, Taken
    <3>2. task \notin Elements(results)
      BY <1>2 DEF Disjoint
    <3>3. Elements(results') = Elements(results) \cup {task} /\ Injective(results')
      BY <1>1, <1>2, <3>1, <3>2, AppendFacts
    <3>4. Disjoint(Elements(tasks), Elements(results) \cup {task}, Elements(collected[gen]), popped[gen],
                   [working EXCEPT ![r] = working[r] \ {task}])
      BY <1>1, <1>2, Moves
    <3>5. QED
      BY <1>2, <2>1, <3>1, <3>3, <3>4 DEF Apart
  <2>3. CASE waiters # <<>>
    <3>1. Head(waiters) = gen
      BY <1>1, <2>3, HeadBlocked DEF Serial, Active, InRound
    <3>2. popped'[gen] = {task} /\ results' = results
      BY <1>1, <1>16, <2>3, <3>1 DEF Push, Taken
    <3>3. Disjoint(Elements(tasks), Elements(results), Elements(collected[gen]), {task},
                   [working EXCEPT ![r] = working[r] \ {task}])
      BY <1>1, <1>2, Moves
    <3>4. QED
      BY <1>2, <2>1, <3>2, <3>3 DEF Apart
  <2>4. QED
    BY <2>2, <2>3
<1>17. ASSUME NEW r \in Runner, Exit(r) PROVE Apart'
  <2>1. /\ UNCHANGED <<gen, tasks, results, collected, popped>>
        /\ \A q \in Runner : working'[q] \subseteq working[q]
    BY <1>1, <1>17 DEF Exit, mainVars, roundVars, redisVars
  <2>2. QED
    BY <1>2, <1>4, <2>1
<1>18. CASE UNCHANGED vars
  BY <1>3, <1>18 DEF vars, mainVars, roundVars, redisVars, runnerVars
<1>19. ASSUME NEW g \in Gen, LoopStep(g) PROVE Apart'
  BY <1>9, <1>10, <1>11, <1>12, <1>13, <1>14, <1>19 DEF LoopStep
<1>20. ASSUME NEW r \in Runner, RunnerStep(r) PROVE Apart'
  BY <1>15, <1>16, <1>17, <1>20 DEF RunnerStep
<1>21. QED
  BY <1>5, <1>6, <1>7, <1>8, <1>9, <1>18, <1>19, <1>20 DEF Next, ResetStep, StartStep

-----------------------------------------------------------------------------
(* The numbers begin again *)

\* A round goes on, whatever else happens, till it is counted.
LEMMA GoesOn ==
  ASSUME Always, Serial, [Next]_vars,
         ~ResetNumber, ~StartStep, \A g \in Gen : ~Open(g) /\ ~Count(g)
  PROVE  CurrentRound' = CurrentRound /\ gen' = gen /\ (Active(gen) => Active(gen)')
<1>1. TypeOK /\ Queue /\ loop \in [Gen -> LoopStates] /\ gen \in Gen
  BY DEF Always, TypeOK
<1> DEFINE Goal == CurrentRound' = CurrentRound /\ gen' = gen /\ (Active(gen) => Active(gen)')
<1>2. ASSUME UNCHANGED <<loop, gen, CurrentRound>> PROVE Goal
  BY <1>2 DEF Active, InRound
<1>3. ASSUME UNCHANGED <<gen, CurrentRound>>, NEW g \in Gen, NEW x \in LoopStates \ {"none", "top", "sleep", "gone"},
             loop' = [loop EXCEPT ![g] = x]
      PROVE  Goal
  BY <1>1, <1>3 DEF Active, InRound, LoopStates
<1>4. CASE Truncate \/ DeleteTasks \/ DeleteResults \/ PublishReset
  BY <1>2, <1>4 DEF Truncate, DeleteTasks, DeleteResults, PublishReset
<1>5. ASSUME NEW g \in Gen, Deliver(g) \/ Deadline(g) PROVE Goal
  BY <1>2, <1>5 DEF Deliver, Deadline, mainVars
<1>6. ASSUME NEW g \in Gen, ReadAtTop(g) \/ Wake(g) PROVE Goal
  <2>1. loop[g] \in {"top", "sleep"} /\ \A h \in Gen : h # g => loop'[h] = loop[h]
    BY <1>1, <1>6 DEF ReadAtTop, Wake
  <2>2. UNCHANGED <<gen, CurrentRound>>
    BY <1>6 DEF ReadAtTop, Wake, mainVars
  <2>3. QED
    BY <1>1, <2>1, <2>2 DEF Active, InRound
<1>7. ASSUME NEW g \in Gen, QuitRound(g) PROVE Goal
  BY <1>1, <1>7 DEF QuitRound, Reads, Serial, Active, InRound
<1>8. ASSUME NEW g \in Gen, Clear(g) \/ (\E p \in Pair : Enqueue(g, p)) \/ Accept(g) \/ Discard(g) \/ Save(g)
      PROVE  Goal
  BY <1>3, <1>8 DEF Clear, Enqueue, Accept, Discard, Save, LoopStates, mainVars
<1>9. ASSUME NEW g \in Gen, Pop(g) PROVE Goal
  BY <1>3, <1>9 DEF Pop, Taken, LoopStates, mainVars
<1>10. ASSUME NEW r \in Runner, Take(r) \/ Exit(r) PROVE Goal
  BY <1>2, <1>10 DEF Take, Exit, mainVars
<1>11. ASSUME NEW r \in Runner, NEW task \in working[r], Push(r, task) PROVE Goal
  <2>1. UNCHANGED <<gen, CurrentRound>>
    BY <1>11 DEF Push, Taken, mainVars
  <2>2. CASE waiters = <<>>
    BY <1>2, <1>11, <2>1, <2>2 DEF Push, Taken
  <2>3. CASE waiters # <<>>
    <3>1. Head(waiters) \in Gen /\ loop' = [loop EXCEPT ![Head(waiters)] = "popped"]
      BY <1>1, <1>11, <2>3, HeadBlocked DEF Push, Taken
    <3>2. QED
      BY <1>3, <2>1, <3>1 DEF LoopStates
  <2>4. QED
    BY <2>2, <2>3
<1>12. CASE UNCHANGED vars
  BY <1>2, <1>12 DEF vars, mainVars
<1>13. ASSUME NEW g \in Gen, LoopStep(g) PROVE Goal
  BY <1>6, <1>7, <1>8, <1>9, <1>13 DEF LoopStep
<1>14. ASSUME NEW r \in Runner, RunnerStep(r) PROVE Goal
  BY <1>10, <1>11, <1>14 DEF RunnerStep
<1>15. QED
  BY <1>4, <1>5, <1>12, <1>13, <1>14 DEF Next, ResetStep, Goal

\* When the number begins again nothing is left that could be taken for a result.
LEMMA NothingLive ==
  ASSUME Always, Serial, Emptied, reset = "published" \/ main # "waiting"
  PROVE  \A t : ~Live(t)
<1>1. ~InRound(gen) /\ loop[gen] # "popped"
  BY DEF Serial, Active, InRound, Always, TypeOK
<1>2. collected[gen] = <<>> /\ popped[gen] = {}
  BY <1>1 DEF Always, TypeOK, Locals, LocalsOf
<1>3. tasks = <<>> /\ results = <<>> /\ \A r \in Runner : ~signalled[r] => working[r] = {}
  BY DEF Emptied
<1>4. QED
  BY <1>2, <1>3, EmptyFacts DEF Live

\* While no push comes late, what is left over has a lower number.
LEMMA NumberedStep ==
  ASSUME Always, Serial, Emptied, Numbered, [Next]_vars, ~crossed', ~late'
  PROVE  Numbered'
<1>1. \A t : Live(t) => \/ t.round < CurrentRound
                        \/ t.round = CurrentRound /\ t.open = opening[gen] /\ Active(gen)
  BY Where DEF Numbered
<1>2. SUFFICES ASSUME NEW t, Live(t)'
               PROVE  \/ t.round < CurrentRound'
                      \/ t.round = CurrentRound' /\ t.open = opening'[gen'] /\ Active(gen)'
  BY Where DEF Numbered
<1>3. (\A g \in Gen, p \in Pair : ~Enqueue(g, p)) => Live(t)
  BY <1>2, NoNewTasks
<1>4. Live(t) => t.round \in Nat
  BY Where, TasksAreTasks DEF Task, Always
<1>5. CurrentRound \in Nat
  BY DEF Always, TypeOK
<1>6. CASE \E g \in Gen, p \in Pair : Enqueue(g, p)
  <2>1. PICK g \in Gen, p \in Pair : Enqueue(g, p)
    BY <1>6
  <2>2. g = gen /\ InRound(gen)
    BY <2>1 DEF Enqueue, Serial, Active, InRound
  <2>3. /\ UNCHANGED <<gen, CurrentRound, opening, results, collected, popped, working, signalled>>
        /\ tasks' = tasks \/ tasks' = Append(tasks, OwnTask(p))
    BY <2>1, <2>2 DEF Enqueue, OwnTask, mainVars, runnerVars, historyVars
  <2>4. OwnTask(p) \in Task /\ tasks \in Seq(Task)
    BY <2>2 DEF OwnTask, Task, Always, TypeOK
  <2>5. Elements(tasks') \subseteq Elements(tasks) \cup {OwnTask(p)}
    BY <2>3, <2>4, AppendFacts
  <2>6. Live(t) \/ t = OwnTask(p)
    BY <1>2, <2>3, <2>5 DEF Live
  <2>7. Active(gen)'
    <3>1. loop \in [Gen -> LoopStates] /\ gen \in Gen
      BY DEF Always, TypeOK
    <3>2. gen' = gen /\ loop' = [loop EXCEPT ![gen] = IF todo[gen] = {p} THEN "collect" ELSE "enqueue"]
      BY <2>1, <2>2 DEF Enqueue, mainVars
    <3>3. loop'[gen'] \in {"collect", "enqueue"}
      BY <3>1, <3>2
    <3>4. QED
      BY <3>3 DEF Active, InRound
  <2>8. QED
    BY <1>1, <2>3, <2>6, <2>7 DEF OwnTask
<1>7. CASE \E g \in Gen : Count(g)
  <2>1. PICK g \in Gen : Count(g)
    BY <1>7
  <2>2. \A h \in Gen, p \in Pair : ~Enqueue(h, p)
    BY <2>1, <1>5 DEF Count, Enqueue
  <2>3. CurrentRound' = CurrentRound + 1
    BY <2>1 DEF Count
  <2>4. QED
    BY <1>1, <1>3, <1>4, <1>5, <2>2, <2>3
<1>8. CASE \E g \in Gen : Open(g)
  <2>1. PICK g \in Gen : Open(g)
    BY <1>8
  <2>2. g = gen /\ gen' = gen /\ loop[gen] = "top" /\ CurrentRound' = CurrentRound
    BY <2>1, OpensAlone DEF Open, mainVars
  <2>3. \A h \in Gen, p \in Pair : ~Enqueue(h, p)
    BY <2>1 DEF Open, Enqueue, Always, TypeOK
  <2>4. QED
    BY <1>1, <1>3, <2>2, <2>3 DEF Active, InRound
<1>9. CASE ResetNumber \/ StartStep
  <2>1. \A t1 : ~Live(t1)
    BY <1>9, NothingLive DEF ResetNumber, StartStep, StartLoads, StartSpawns
  <2>2. \A h \in Gen, p \in Pair : ~Enqueue(h, p)
    BY <1>9 DEF ResetNumber, StartStep, StartLoads, StartSpawns, Enqueue, mainVars
  <2>3. QED
    BY <1>3, <2>1, <2>2
<1>10. CASE /\ \A g \in Gen, p \in Pair : ~Enqueue(g, p)
            /\ \A g \in Gen : ~Open(g) /\ ~Count(g)
            /\ ~ResetNumber /\ ~StartStep
  <2>1. CurrentRound' = CurrentRound /\ gen' = gen /\ (Active(gen) => Active(gen)')
    BY <1>10, GoesOn
  <2>2. opening' = opening
    BY <1>10, SameRound
  <2>3. QED
    BY <1>1, <1>3, <1>10, <2>1, <2>2
<1>11. QED
  BY <1>6, <1>7, <1>8, <1>9, <1>10

\* A result is kept under the number the field keeps till the save.
LEMMA CollectedHereStep ==
  ASSUME Always, Serial, CollectedHere, [Next]_vars, ~crossed'
  PROVE  CollectedHere'
<1>1. TypeOK /\ Locals /\ gen \in Gen /\ collected \in [Gen -> Seq(Task)]
  BY DEF Always, TypeOK
<1>2. Locals' /\ gen' \in Gen
  BY AlwaysStep DEF Always, TypeOK, Gen
<1>3. CASE ~InRound(gen)'
  <2>1. collected'[gen'] = <<>>
    BY <1>2, <1>3 DEF Locals, LocalsOf
  <2>2. QED
    BY <2>1, EmptyFacts DEF CollectedHere
<1>4. CASE \E g \in Gen : Open(g)
  <2>1. PICK g \in Gen : Open(g)
    BY <1>4
  <2>2. UNCHANGED <<gen, CurrentRound, collected>>
    BY <2>1 DEF Open, mainVars
  <2>3. QED
    BY <2>2 DEF CollectedHere
<1>5. ASSUME InRound(gen)', \A g \in Gen : ~Open(g) PROVE CollectedHere'
  <2>1. gen' = gen /\ CurrentRound' = CurrentRound /\ InRound(gen)
    BY <1>5, SameRound DEF Active
  <2>2. CASE collected' = collected
    BY <2>1, <2>2 DEF CollectedHere
  <2>3. ASSUME NEW g \in Gen, QuitRound(g) \/ Discard(g) \/ Save(g) PROVE CollectedHere'
    <3>1. g = gen
      BY <2>3 DEF QuitRound, Discard, Save, Serial, Active, InRound
    <3>2. collected'[gen] = <<>>
      BY <1>1, <2>3, <3>1 DEF QuitRound, Discard, Save, EndRound
    <3>3. QED
      BY <2>1, <3>2, EmptyFacts DEF CollectedHere
  <2>4. ASSUME NEW g \in Gen, Accept(g) PROVE CollectedHere'
    <3>1. g = gen
      BY <2>4 DEF Accept, Serial, Active, InRound
    <3>2. PICK e \in Task : popped[gen] = {e}
      BY <1>1, <2>4, <3>1 DEF Accept, Locals, LocalsOf, TypeOK
    <3>3. CASE e.round = CurrentRound
      <4>1. Elements(collected'[gen]) = Elements(collected[gen]) \cup {e}
        BY <1>1, <2>4, <3>1, <3>2, <3>3, Accepted
      <4>2. QED
        BY <2>1, <3>3, <4>1 DEF CollectedHere
    <3>4. CASE e.round # CurrentRound
      <4>1. collected'[gen] = collected[gen]
        BY <1>1, <2>4, <3>1, <3>2, <3>4, Accepted
      <4>2. QED
        BY <2>1, <4>1 DEF CollectedHere
    <3>5. QED
      BY <3>3, <3>4
  <2>5. CASE Truncate \/ ResetStep \/ StartStep
    BY <2>2, <2>5 DEF Truncate, ResetStep, DeleteTasks, DeleteResults, PublishReset, ResetNumber,
                      StartStep, StartLoads, StartSpawns, roundVars
  <2>6. ASSUME NEW g \in Gen, Deliver(g) \/ Deadline(g) \/ ReadAtTop(g) \/ Clear(g) \/ Count(g) \/ Wake(g) \/ Pop(g)
        PROVE  CollectedHere'
    BY <2>2, <2>6 DEF Deliver, Deadline, ReadAtTop, Clear, Count, Wake, Pop, Taken, roundVars
  <2>7. ASSUME NEW g \in Gen, NEW p \in Pair, Enqueue(g, p) PROVE CollectedHere'
    BY <2>2, <2>7 DEF Enqueue
  <2>8. ASSUME NEW r \in Runner, RunnerStep(r) PROVE CollectedHere'
    BY <2>2, <2>8 DEF RunnerStep, Take, Push, Taken, Exit, roundVars
  <2>9. CASE UNCHANGED vars
    BY <2>2, <2>9 DEF vars, roundVars
  <2>10. ASSUME NEW g \in Gen, LoopStep(g) PROVE CollectedHere'
    BY <1>5, <2>3, <2>4, <2>6, <2>7, <2>10 DEF LoopStep
  <2>11. QED
    BY <2>5, <2>6, <2>8, <2>9, <2>10 DEF Next
<1>6. QED
  BY <1>3, <1>4, <1>5

\* A reset empties the tables and the lists one by one, and they stay empty
\* till the next loop opens a round.
LEMMA EmptiedStep ==
  ASSUME Always, Serial, Emptied, [Next]_vars, ~crossed', ~late'
  PROVE  Emptied'
<1>1. /\ TypeOK /\ Queue /\ gen \in Gen /\ working \in [Runner -> SUBSET Task]
      /\ signalled \in [Runner -> BOOLEAN] /\ loop \in [Gen -> LoopStates]
  BY DEF Always, TypeOK
<1>2. /\ reset # "idle" \/ main # "waiting" => DOMAIN rounds = {}
      /\ reset \in {"tasksGone", "resultsGone", "published"} \/ main # "waiting" => tasks = <<>>
      /\ reset \in {"resultsGone", "published"} \/ main # "waiting" => results = <<>>
      /\ reset = "published" \/ main # "waiting" => \A r \in Runner : ~signalled[r] => working[r] = {}
  BY DEF Emptied
<1>3. ASSUME UNCHANGED <<main, reset, rounds, tasks, results, signalled, working>> PROVE Emptied'
  BY <1>2, <1>3 DEF Emptied
<1>4. ASSUME reset' = "idle", main' = "waiting" PROVE Emptied'
  BY <1>4 DEF Emptied
<1>5. CASE Truncate
  <2>1. /\ reset' = "truncated" /\ main' = main /\ DOMAIN rounds' = {}
        /\ UNCHANGED <<tasks, results, signalled, working>>
    BY <1>5 DEF Truncate, redisVars, runnerVars
  <2>2. QED
    BY <1>2, <2>1 DEF Emptied
<1>6. CASE DeleteTasks
  BY <1>2, <1>6 DEF DeleteTasks, Emptied, runnerVars
<1>7. CASE DeleteResults
  BY <1>2, <1>7 DEF DeleteResults, ResultsAfterReset, Emptied, runnerVars
<1>8. CASE PublishReset
  <2>1. /\ reset = "resultsGone" /\ reset' = "published" /\ UNCHANGED <<tasks, results, rounds>>
        /\ \A r \in Runner : signalled'[r]
    BY <1>8 DEF PublishReset, redisVars
  <2>2. QED
    BY <1>2, <2>1 DEF Emptied
<1>9. CASE ResetNumber \/ StartLoads \/ StartSpawns
  <2>1. /\ UNCHANGED <<tasks, results, rounds, signalled, working>>
        /\ reset' # "idle" \/ main' # "waiting" => reset # "idle" \/ main # "waiting"
        /\ reset' \in {"tasksGone", "resultsGone", "published"} => reset' = reset
        /\ main' # "waiting" => main # "waiting"
    BY <1>9 DEF ResetNumber, StartLoads, StartSpawns, redisVars, runnerVars
  <2>2. QED
    BY <1>2, <2>1 DEF Emptied
<1>10. ASSUME NEW g \in Gen, Deliver(g) \/ Deadline(g) \/ ReadAtTop(g) \/ Wake(g) PROVE Emptied'
  BY <1>3, <1>10 DEF Deliver, Deadline, ReadAtTop, Wake, mainVars, redisVars, runnerVars
<1>11. ASSUME NEW g \in Gen,
              Clear(g) \/ (\E p \in Pair : Enqueue(g, p)) \/ QuitRound(g) \/ Pop(g) \/ Accept(g)
                \/ Discard(g) \/ Save(g) \/ Count(g)
       PROVE  Emptied'
  <2>1. reset = "idle" /\ main = "waiting"
    BY <1>11 DEF Clear, Enqueue, QuitRound, Pop, Taken, Accept, Discard, Save, Count, Serial, Active, InRound
  <2>2. UNCHANGED <<reset, main>>
    BY <1>11 DEF Clear, Enqueue, QuitRound, Pop, Taken, Accept, Discard, Save, Count, mainVars
  <2>3. QED
    BY <1>4, <2>1, <2>2
<1>12. ASSUME NEW g \in Gen, Open(g) PROVE Emptied'
  <2>1. reset' = "idle" /\ main' = "waiting"
    BY <1>12, OpensAlone DEF Open, mainVars
  <2>2. QED
    BY <1>4, <2>1
<1>13. ASSUME NEW r \in Runner, Take(r) PROVE Emptied'
  <2>1. reset \notin {"tasksGone", "resultsGone", "published"} /\ main = "waiting"
    BY <1>2, <1>13 DEF Take
  <2>2. UNCHANGED <<main, reset, rounds>>
    BY <1>13 DEF Take, mainVars
  <2>3. QED
    BY <1>2, <2>1, <2>2 DEF Emptied
<1>14. ASSUME NEW r \in Runner, NEW task \in working[r], Push(r, task) PROVE Emptied'
  <2>1. ~signalled[r] /\ reset # "resultsGone" /\ UNCHANGED <<main, reset, rounds, tasks>>
    BY <1>14 DEF Push, Taken, mainVars
  <2>2. reset \notin {"resultsGone", "published"} /\ main = "waiting"
    BY <1>2, <2>1
  <2>3. QED
    BY <1>2, <2>1, <2>2 DEF Emptied
<1>15. ASSUME NEW r \in Runner, Exit(r) PROVE Emptied'
  <2>1. /\ UNCHANGED <<main, reset, rounds, tasks, results>>
        /\ working'[r] = {} /\ \A q \in Runner : q # r => working'[q] = working[q] /\ signalled'[q] = signalled[q]
    BY <1>1, <1>15 DEF Exit, mainVars, redisVars
  <2>2. QED
    BY <1>2, <2>1 DEF Emptied
<1>16. CASE UNCHANGED vars
  BY <1>3, <1>16 DEF vars, mainVars, redisVars, runnerVars
<1>17. ASSUME NEW g \in Gen, LoopStep(g) PROVE Emptied'
  BY <1>10, <1>11, <1>12, <1>17 DEF LoopStep
<1>18. ASSUME NEW r \in Runner, RunnerStep(r) PROVE Emptied'
  BY <1>13, <1>14, <1>15, <1>18 DEF RunnerStep
<1>19. QED
  BY <1>5, <1>6, <1>7, <1>8, <1>9, <1>10, <1>16, <1>17, <1>18 DEF Next, ResetStep, StartStep

\* Enough results, all of the round and all different: one of each pair.
LEMMA CollectedIsComplete ==
  ASSUME Always, Serial, Apart, Numbered, CollectedHere, loop[gen] = "collect", ~Short(gen)
  PROVE  /\ Len(collected[gen]) = Cardinality(Pair)
         /\ {t.pair : t \in Elements(collected[gen])} = Pair
         /\ \A t \in Elements(collected[gen]) : t.open = opening[gen]
<1> DEFINE s == collected[gen]
<1>1. s \in Seq(Task) /\ runners[gen] \in Nat
  BY DEF Always, TypeOK
<1>2. Len(s) \in Nat /\ DOMAIN s = 1 .. Len(s) /\ \A i \in 1 .. Len(s) : s[i] \in Task
  BY <1>1, LenProperties, ElementOfSeq
<1>3. \A t \in Elements(s) : t.round = CurrentRound /\ t.open = opening[gen]
  <2> SUFFICES ASSUME NEW t \in Elements(s) PROVE t.round = CurrentRound /\ t.open = opening[gen]
    OBVIOUS
  <2>1. Live(t) /\ t.round = CurrentRound
    BY DEF Live, CollectedHere
  <2>2. CurrentRound \in Nat
    BY DEF Always, TypeOK
  <2>3. QED
    BY <2>1, <2>2, Where DEF Numbered
<1>4. \A i, j \in 1 .. Len(s) : s[i].pair = s[j].pair => i = j
  <2> SUFFICES ASSUME NEW i \in 1 .. Len(s), NEW j \in 1 .. Len(s), s[i].pair = s[j].pair PROVE i = j
    OBVIOUS
  <2>1. s[i] \in Elements(s) /\ s[j] \in Elements(s)
    BY DEF Elements
  <2>2. s[i].round = s[j].round /\ s[i].open = s[j].open
    BY <1>3, <2>1
  <2>3. s[i] = s[j]
    BY <1>2, <2>2 DEF Task
  <2>4. QED
    BY <1>2, <2>3 DEF Apart, Injective
<1>5. \A i \in 1 .. Len(s) : s[i].pair \in Pair
  BY <1>2 DEF Task
<1> DEFINE pairs == {t.pair : t \in Elements(s)}
<1>6. pairs \subseteq Pair
  BY <1>5 DEF Elements
<1>7. Cardinality(pairs) = Len(s) /\ IsFiniteSet(pairs)
  <2>1. IsFiniteSet(1 .. Len(s)) /\ Cardinality(1 .. Len(s)) = Len(s)
    <3>1. \A n \in Nat : IsFiniteSet(1 .. n) /\ Cardinality(1 .. n) = n
      BY FS_Interval
    <3>2. QED
      BY <1>2, <3>1
  <2> DEFINE f == [i \in 1 .. Len(s) |-> s[i].pair]
  <2>2. f \in Surjection(1 .. Len(s), pairs)
    BY DEF Surjection, Elements
  <2>3. f \in Injection(1 .. Len(s), pairs)
    <3>1. f \in [1 .. Len(s) -> pairs]
      BY DEF Elements
    <3>2. \A i, j \in DOMAIN f : f[i] = f[j] => i = j
      BY <1>4
    <3> HIDE DEF f
    <3>3. QED
      BY <3>1, <3>2 DEF Injection, IsInjective
  <2> HIDE DEF f, pairs, s
  <2>4. QED
    BY <2>1, <2>2, <2>3, FS_Surjection
<1>8. Cardinality(Pair) \in Nat /\ Len(s) >= Cardinality(Pair)
  <2>1. runners[gen] = Cardinality(Pair \ todo[gen]) /\ todo[gen] = {}
    BY DEF Always, TypeOK, Locals, LocalsOf, InRound
  <2>2. Pair \ {} = Pair /\ Cardinality(Pair) \in Nat
    BY PairAssumption, FS_CardinalityType
  <2>3. QED
    BY <1>1, <1>2, <2>1, <2>2 DEF Short
<1>9. pairs = Pair /\ Len(s) = Cardinality(Pair)
  <2>1. Cardinality(pairs) <= Cardinality(Pair) /\ (Cardinality(pairs) = Cardinality(Pair) => pairs = Pair)
    BY <1>6, PairAssumption, FS_Subset
  <2> HIDE DEF pairs, s
  <2>2. QED
    BY <1>2, <1>7, <1>8, <2>1
<1>10. QED
  BY <1>3, <1>9

\* As long as no runner has pushed behind a reset, none has.
LEMMA LateStays ==
  ASSUME TypeOK, [Next]_vars
  PROVE  ~late' => ~late
<1> USE DEF TypeOK
<1>1. CASE Truncate
  BY <1>1 DEF Truncate
<1>2. CASE ResetStep \/ StartStep
  BY <1>2 DEF ResetStep, DeleteTasks, DeleteResults, PublishReset, ResetNumber, StartStep,
              StartLoads, StartSpawns, historyVars
<1>3. ASSUME NEW g \in Gen, LoopStep(g) PROVE late' = late
  BY <1>3 DEF LoopStep, ReadAtTop, Open, Clear, Enqueue, QuitRound, Pop, Accept, Discard, Save, Count, Wake,
              historyVars
<1>4. ASSUME NEW g \in Gen, Deliver(g) \/ Deadline(g) PROVE late' = late
  BY <1>4 DEF Deliver, Deadline, historyVars
<1>5. ASSUME NEW r \in Runner, Take(r) \/ Exit(r) PROVE late' = late
  BY <1>5 DEF Take, Exit, historyVars
<1>6. ASSUME NEW r \in Runner, NEW task \in working[r], Push(r, task) PROVE ~late' => ~late
  BY <1>6 DEF Push
<1>7. CASE UNCHANGED vars
  BY <1>7 DEF vars, historyVars
<1>8. QED
  BY <1>1, <1>2, <1>3, <1>4, <1>5, <1>6, <1>7 DEF Next, RunnerStep

\* The save finds a result of each pair, and a reset leaves no round.
LEMMA FreshStep ==
  ASSUME Always, ~crossed /\ ~late => Serial /\ Apart /\ Numbered /\ CollectedHere,
         FreshAfterReset, [Next]_vars
  PROVE  FreshAfterReset'
<1> SUFFICES ASSUME ~crossed', ~late' PROVE \A n \in DOMAIN rounds' : FreshRound(n)'
  BY DEF FreshAfterReset, FreshRound
<1>1. TypeOK
  BY DEF Always
<1>2. ~crossed /\ ~late
  BY <1>1, CrossedStays, LateStays
<1>3. Serial /\ Apart /\ Numbered /\ CollectedHere /\ \A n \in DOMAIN rounds : FreshRound(n)
  BY <1>2 DEF FreshAfterReset, FreshRound
<1>4. ASSUME rounds' = rounds PROVE \A n \in DOMAIN rounds' : FreshRound(n)'
  BY <1>3, <1>4 DEF FreshRound
<1>5. CASE Truncate
  BY <1>5 DEF Truncate
<1>6. ASSUME NEW g \in Gen, Save(g) PROVE \A n \in DOMAIN rounds' : FreshRound(n)'
  <2>1. CASE CurrentRound \in DOMAIN rounds
    BY <1>4, <1>6, <2>1 DEF Save
  <2>2. CASE CurrentRound \notin DOMAIN rounds
    <3>1. g = gen /\ loop[gen] = "collect" /\ ~Short(gen)
      BY <1>3, <1>6 DEF Save, Serial, Active, InRound
    <3>2. PICK k : k = CurrentRound
      OBVIOUS
    <3>3. /\ DOMAIN rounds' = DOMAIN rounds \cup {k}
          /\ rounds'[k] = [open |-> opening[gen], results |-> collected[gen]]
          /\ \A n \in DOMAIN rounds : rounds'[n] = rounds[n]
      BY <1>6, <2>2, <3>1, <3>2 DEF Save
    <3>4. FreshRound(k)'
      <4>1. /\ rounds'[k].results = collected[gen]
            /\ rounds'[k].open = opening[gen]
        BY <3>3
      <4>2. /\ Len(collected[gen]) = Cardinality(Pair)
            /\ {t.pair : t \in Elements(collected[gen])} = Pair
            /\ \A t \in Elements(collected[gen]) : t.open = opening[gen]
        BY <1>1, <1>3, <3>1, CollectedIsComplete
      <4>3. QED
        BY <4>1, <4>2 DEF FreshRound
    <3>5. \A n \in DOMAIN rounds : FreshRound(n)'
      BY <1>3, <3>3 DEF FreshRound
    <3>6. QED
      BY <3>3, <3>4, <3>5
  <2>3. QED
    BY <2>1, <2>2
<1>7. CASE ResetStep \/ StartStep
  BY <1>4, <1>7 DEF ResetStep, DeleteTasks, DeleteResults, PublishReset, ResetNumber, StartStep,
                    StartLoads, StartSpawns
<1>8. ASSUME NEW g \in Gen, LoopStep(g), ~Save(g) PROVE rounds' = rounds
  BY <1>8 DEF LoopStep, ReadAtTop, Open, Clear, Enqueue, QuitRound, Pop, Taken, Accept, Discard, Count, Wake
<1>9. ASSUME NEW g \in Gen, Deliver(g) \/ Deadline(g) PROVE rounds' = rounds
  BY <1>9 DEF Deliver, Deadline
<1>10. ASSUME NEW r \in Runner, RunnerStep(r) PROVE rounds' = rounds
  BY <1>10 DEF RunnerStep, Take, Push, Taken, Exit
<1>11. CASE UNCHANGED vars
  BY <1>4, <1>11 DEF vars
<1>12. QED
  BY <1>4, <1>5, <1>6, <1>7, <1>8, <1>9, <1>10, <1>11 DEF Next

-----------------------------------------------------------------------------
(* The invariant *)

\* Nothing has happened yet.
LEMMA IInvInit == ASSUME Init PROVE IInv
<1>1. Always
  BY AlwaysInit
<1>2. 1 \in Gen /\ gen = 1
  BY HandoverBoundsAssumption DEF Init, Gen
<1>3. \A g \in Gen : ~Active(g) /\ ~InRound(g)
  BY DEF Init, Active, InRound
<1>4. \A t : ~Somewhere(t) /\ ~Live(t)
  BY <1>2, EmptyFacts DEF Init, Somewhere, Live
<1>5. \A t \in Places(gen) : FALSE
  BY <1>4, Where
<1>6. Serial
  BY <1>3 DEF Serial
<1>7. Apart
  <2>1. /\ tasks = <<>> /\ results = <<>> /\ collected[gen] = <<>> /\ popped[gen] = {}
        /\ \A r \in Runner : working[r] = {}
    BY <1>2 DEF Init
  <2>2. Disjoint({}, {}, {}, {}, working)
    BY <2>1 DEF Disjoint
  <2>3. QED
    BY <2>1, <2>2, EmptyFacts DEF Apart
<1>8. Known
  <2>1. \A g \in Gen : opening[g] <= opens
    BY DEF Init
  <2>2. QED
    BY <1>5, <2>1 DEF Known
<1>9. Numbered
  BY <1>5 DEF Numbered
<1>10. CollectedHere
  BY <1>4 DEF CollectedHere, Somewhere
<1>11. Emptied
  BY DEF Init, Emptied
<1>12. FreshAfterReset
  BY DEF Init, FreshAfterReset
<1>13. QED
  BY <1>1, <1>6, <1>7, <1>8, <1>9, <1>10, <1>11, <1>12 DEF IInv

\* The parts together are inductive.
LEMMA IInvStep == ASSUME IInv, [Next]_vars PROVE IInv'
<1>1. TypeOK /\ Always
  BY DEF IInv, Always
<1>2. (~crossed' => ~crossed) /\ (~late' => ~late)
  BY <1>1, CrossedStays, LateStays
<1>3. ~crossed => Serial /\ Apart /\ Known
  BY DEF IInv
<1>4. Always'
  BY <1>1, AlwaysStep
<1>5. ~crossed' => Serial' /\ Apart' /\ Known'
  <2> SUFFICES ASSUME ~crossed' PROVE Serial' /\ Apart' /\ Known'
    OBVIOUS
  <2>1. Serial'
    BY <1>1, <1>2, <1>3, SerialStep
  <2>2. Apart'
    BY <1>1, <1>2, <1>3, ApartStep
  <2>3. Known'
    BY <1>1, <1>2, <1>3, KnownStep
  <2>4. QED
    BY <2>1, <2>2, <2>3
<1>6. ~crossed' /\ ~late' => Numbered' /\ CollectedHere' /\ Emptied'
  <2> SUFFICES ASSUME ~crossed', ~late' PROVE Numbered' /\ CollectedHere' /\ Emptied'
    OBVIOUS
  <2>1. Serial /\ Numbered /\ CollectedHere /\ Emptied
    BY <1>2, <1>3 DEF IInv
  <2>2. Numbered'
    BY <1>1, <2>1, NumberedStep
  <2>3. CollectedHere'
    BY <1>1, <2>1, CollectedHereStep
  <2>4. Emptied'
    BY <1>1, <2>1, EmptiedStep
  <2>5. QED
    BY <2>2, <2>3, <2>4
<1>7. FreshAfterReset'
  BY <1>1, FreshStep DEF IInv
<1>8. QED
  BY <1>4, <1>5, <1>6, <1>7 DEF IInv

\* Everything the properties below rest on holds in every state.
THEOREM InductiveInv == Spec => []IInv
<1>1. Init => IInv
  BY IInvInit
<1>2. IInv /\ [Next]_vars => IInv'
  BY IInvStep
<1>3. QED
  BY <1>1, <1>2, PTL DEF Spec

\* Every round saved, before a reset and after it, holds one result of each
\* pair, all of its own opening, although the numbers begin again: unless the
\* reset met a round, or a runner pushed behind the deletion of the list
\* (engine.go:302-333, 479-517; runner.go:57-67).
THEOREM RoundsAreFresh == Spec => []FreshAfterReset
<1>1. IInv => FreshAfterReset
  BY DEF IInv
<1>2. QED
  BY <1>1, InductiveInv, PTL

-----------------------------------------------------------------------------
(* What the round of the latest loop loses, whatever a reset met *)

\* The task is on its way, or it is known who has it.
Traced(t) == Somewhere(t) \/ t \in killed \/ \E g \in Gen : t \in stolen[g]

Kept ==
  InRound(gen) /\ ~expired[gen] /\ ~disturbed => \A p \in Pair \ todo[gen] : Traced(OwnTask(p))

\* A loop that took a task of it had the message, and has nothing else.
TookOne == ~disturbed => \A g \in Gen : stolen[g] = {} \/ (after[g] = 1 /\ \E t \in stolen[g] : stolen[g] = {t})

\* The pairs that the round has enqueued stay on their way to it, or go to a
\* loop or with a runner that is known.
LEMMA KeptStep ==
  ASSUME Always, Kept, [Next]_vars
  PROVE  Kept'
<1>1. /\ TypeOK /\ Queue /\ Locals /\ loop \in [Gen -> LoopStates] /\ gen \in Gen
      /\ expired \in [Gen -> BOOLEAN] /\ todo \in [Gen -> SUBSET Pair] /\ CurrentRound \in Nat
      /\ opening \in [Gen -> Nat] /\ popped \in [Gen -> SUBSET Task] /\ stolen \in [Gen -> SUBSET Task]
      /\ collected \in [Gen -> Seq(Task)] /\ working \in [Runner -> SUBSET Task]
      /\ tasks \in Seq(Task) /\ results \in Seq(Task)
  BY DEF Always, TypeOK
<1>2. ASSUME ~InRound(gen)' PROVE Kept'
  BY <1>2 DEF Kept
<1>3. ASSUME disturbed' PROVE Kept'
  BY <1>3 DEF Kept
<1>4. ASSUME ~disturbed' => ~disturbed,
             InRound(gen)' => InRound(gen), gen' = gen, CurrentRound' = CurrentRound,
             opening'[gen] = opening[gen], todo'[gen] = todo[gen], expired[gen] => expired'[gen],
             \A t : Traced(t) /\ t.round = CurrentRound /\ t.open = opening[gen] /\ ~disturbed' => Traced(t)'
      PROVE  Kept'
  <2>1. \A p : OwnTask(p)' = OwnTask(p)
    BY <1>4 DEF OwnTask
  <2>2. \A p : Traced(OwnTask(p)) /\ ~disturbed' => Traced(OwnTask(p))'
    BY <1>4, <2>1 DEF OwnTask, Traced, Somewhere
  <2>3. QED
    BY <1>4, <2>2 DEF Kept
<1>5. ASSUME UNCHANGED <<gen, CurrentRound, opening, todo, expired, tasks, results, collected, popped,
                         working, lossVars>>,
             loop'[gen] = loop[gen]
      PROVE  Kept'
  BY <1>5 DEF Kept, InRound, OwnTask, Traced, Somewhere, lossVars
\* A reset, and what sets the number.
<1>6. CASE Truncate \/ PublishReset
  BY <1>5, <1>6 DEF Truncate, PublishReset, roundVars, redisVars, runnerVars, historyVars
<1>7. CASE DeleteTasks \/ DeleteResults
  BY <1>3, <1>7 DEF DeleteTasks, DeleteResults, Disturbs
<1>8. ASSUME NEW g \in Gen, Count(g) PROVE Kept'
  <2>1. CurrentRound' # CurrentRound /\ disturbed' = (disturbed \/ CurrentRound' # CurrentRound)
    BY <1>1, <1>8 DEF Count, Renumbers
  <2>2. QED
    BY <1>3, <2>1
<1>9. CASE ResetNumber \/ StartLoads
  <2>1. /\ UNCHANGED <<loop, gen, opening, todo, expired, tasks, results, collected, popped, working, killed, stolen>>
        /\ disturbed' = (disturbed \/ CurrentRound' # CurrentRound)
    BY <1>9 DEF ResetNumber, StartLoads, Renumbers, roundVars, redisVars, runnerVars, historyVars
  <2>2. CASE CurrentRound' = CurrentRound
    <3>1. UNCHANGED lossVars
      BY <1>1, <2>1, <2>2 DEF lossVars, TypeOK
    <3>2. QED
      BY <1>5, <2>1, <2>2, <3>1
  <2>3. CASE CurrentRound' # CurrentRound
    BY <1>3, <2>1, <2>3
  <2>4. QED
    BY <2>2, <2>3
<1>10. CASE StartSpawns
  <2>1. /\ gen' = gen + 1 /\ loop' = [loop EXCEPT ![gen + 1] = "top"] /\ gen + 1 \in Gen
    BY <1>10, HandoverBoundsAssumption DEF StartSpawns, Always, TypeOK, Replaced, Gen
  <2>2. QED
    BY <1>1, <1>2, <2>1 DEF InRound
<1>11. ASSUME NEW g \in Gen, Deliver(g) PROVE Kept'
  BY <1>5, <1>11 DEF Deliver, mainVars, redisVars, runnerVars, historyVars
\* The loops.
<1>12. ASSUME NEW g \in Gen, ReadAtTop(g) \/ Wake(g) PROVE Kept'
  <2>1. UNCHANGED <<gen, CurrentRound, opening, todo, expired, tasks, results, collected, popped, working, lossVars>>
    BY <1>12 DEF ReadAtTop, Wake, mainVars, roundVars, redisVars, runnerVars, historyVars
  <2>2. loop'[gen] = loop[gen] \/ ~InRound(gen)'
    BY <1>1, <1>12, <2>1 DEF ReadAtTop, Wake, InRound
  <2>3. QED
    BY <1>2, <1>5, <2>1, <2>2
<1>13. ASSUME NEW g \in Gen, QuitRound(g) \/ Discard(g) \/ Save(g) PROVE Kept'
  <2>1. UNCHANGED <<gen, CurrentRound, opening, tasks, results, popped, working, lossVars>> /\ EndRound(g)
    BY <1>13 DEF QuitRound, Discard, Save, mainVars, redisVars, runnerVars, historyVars
  <2>2. g = gen => loop'[gen] \in {"gone", "saved"}
    BY <1>1, <1>13 DEF QuitRound, Discard, Save
  <2>3. CASE g = gen
    BY <1>2, <2>1, <2>2, <2>3 DEF InRound
  <2>4. CASE g # gen
    <3>1. /\ todo'[gen] = todo[gen] /\ expired'[gen] = expired[gen] /\ collected'[gen] = collected[gen]
          /\ loop'[gen] = loop[gen]
      BY <1>1, <1>13, <2>1, <2>4 DEF EndRound, QuitRound, Discard, Save
    <3>2. QED
      BY <2>1, <3>1 DEF Kept, InRound, OwnTask, Traced, Somewhere, lossVars
  <2>5. QED
    BY <2>3, <2>4
<1>14. ASSUME NEW g \in Gen, Open(g) PROVE Kept'
  <2>1. gen' = gen /\ todo' = [todo EXCEPT ![g] = Pair]
    BY <1>14 DEF Open, mainVars
  <2>2. CASE g = gen
    <3>1. todo'[gen'] = Pair
      BY <1>1, <2>1, <2>2
    <3>2. QED
      BY <3>1 DEF Kept
  <2>3. CASE g # gen
    BY <1>3, <1>14, <2>3 DEF Open, Disturbs
  <2>4. QED
    BY <2>2, <2>3
<1>15. ASSUME NEW g \in Gen, Clear(g) PROVE Kept'
  <2>1. CASE g = gen
    <3>1. todo[gen] = Pair
      BY <1>1, <1>15, <2>1 DEF Clear, Locals, LocalsOf
    <3>2. gen' = gen /\ todo' = todo
      BY <1>15 DEF Clear, mainVars, roundVars
    <3>3. todo'[gen'] = Pair
      BY <3>1, <3>2
    <3>4. QED
      BY <3>3 DEF Kept
  <2>2. CASE g # gen
    BY <1>3, <1>15, <2>2 DEF Clear, Disturbs
  <2>3. QED
    BY <2>1, <2>2
<1>16. ASSUME NEW g \in Gen, NEW p \in Pair, Enqueue(g, p) PROVE Kept'
  <2>1. /\ UNCHANGED <<gen, CurrentRound, opening, expired, results, collected, popped, working, lossVars>>
        /\ loop[g] = "enqueue" /\ \A h \in Gen : h # g => loop'[h] = loop[h]
        /\ todo' = [todo EXCEPT ![g] = todo[g] \ {p}]
    BY <1>1, <1>16 DEF Enqueue, mainVars, runnerVars, historyVars
  <2>2. PICK e : e = [pair |-> p, round |-> CurrentRound, open |-> opening[g]]
    OBVIOUS
  <2>3. tasks' = IF expired[g] THEN tasks ELSE Append(tasks, e)
    BY <1>16, <2>2 DEF Enqueue
  <2>4. e \in Task
    BY <1>1, <2>2 DEF Task
  <2>5. /\ Elements(tasks) \subseteq Elements(tasks')
        /\ ~expired[g] => e \in Elements(tasks')
    BY <1>1, <2>3, <2>4, AppendFacts
  <2>6. \A t : Traced(t) => Traced(t)'
    BY <2>1, <2>5 DEF Traced, Somewhere, lossVars
  <2>7. disturbed' = disturbed
    BY <2>1 DEF lossVars
  <2>8. CASE g # gen
    <3>1. todo'[gen] = todo[gen] /\ loop'[gen] = loop[gen]
      BY <1>1, <2>1, <2>8
    <3>2. QED
      BY <1>4, <2>1, <2>6, <2>7, <3>1 DEF InRound
  <2>9. CASE g = gen
    <3>1. InRound(gen) /\ todo'[gen] = todo[gen] \ {p} /\ e = OwnTask(p)
      BY <1>1, <2>1, <2>2, <2>9 DEF InRound, OwnTask
    <3>2. \A q : OwnTask(q)' = OwnTask(q)
      BY <2>1 DEF OwnTask
    <3>3. ASSUME ~disturbed', ~expired'[gen], NEW q \in Pair \ todo'[gen] PROVE Traced(OwnTask(q))'
      <4>1. ~expired[gen] /\ ~disturbed
        BY <2>1, <2>7, <3>3
      <4>2. CASE q = p
        <5>1. OwnTask(p) \in Elements(tasks')
          BY <2>5, <2>9, <3>1, <4>1
        <5>2. QED
          BY <3>2, <4>2, <5>1 DEF Traced, Somewhere
      <4>3. CASE q # p
        <5>1. Traced(OwnTask(q))
          BY <3>1, <3>3, <4>1, <4>3 DEF Kept
        <5>2. QED
          BY <2>6, <3>2, <5>1 DEF Traced, Somewhere
      <4>4. QED
        BY <4>2, <4>3
    <3>4. QED
      BY <2>1, <3>3 DEF Kept
  <2>10. QED
    BY <2>8, <2>9
<1>17. ASSUME NEW g \in Gen, NEW e \in Task, Taken(g, e), loop[g] \in {"collect", "blocked"},
              gen' = gen, ~disturbed'
       PROVE  /\ InRound(gen)' => InRound(gen)
              /\ ~disturbed
              /\ e.open = opening[gen] => e \in popped'[gen] \/ \E h \in Gen : e \in stolen'[h]
              /\ popped[gen] \subseteq popped'[gen]
              /\ killed' = killed /\ \A h \in Gen : stolen[h] \subseteq stolen'[h]
  <2>1. popped[g] = {} /\ InRound(g)
    BY <1>1, <1>17 DEF Locals, LocalsOf, InRound
  <2>2. popped'[g] = {e} /\ \A h \in Gen : h # g => popped'[h] = popped[h] /\ loop'[h] = loop[h]
    BY <1>1, <1>17 DEF Taken
  <2>3. ~disturbed /\ killed' = killed
    BY <1>17 DEF Taken
  <2>4. /\ \A h \in Gen : stolen[h] \subseteq stolen'[h]
        /\ g # gen /\ e.open = opening[gen] => e \in stolen'[g]
    BY <1>1, <1>17 DEF Taken
  <2>5. InRound(gen)' => InRound(gen)
    BY <1>1, <1>17, <2>1, <2>2 DEF InRound
  <2>6. QED
    BY <1>1, <2>1, <2>2, <2>3, <2>4, <2>5
<1>18. ASSUME NEW g \in Gen, Pop(g) PROVE Kept'
  <2>1. UNCHANGED <<gen, CurrentRound, opening, todo, expired, tasks, collected, working>>
    BY <1>18 DEF Pop, mainVars, runnerVars
  <2>2. CASE results = <<>>
    <3>1. /\ UNCHANGED <<results, popped, lossVars>>
          /\ loop[g] = "collect" /\ loop' = [loop EXCEPT ![g] = "blocked"]
      BY <1>18, <2>2 DEF Pop
    <3>2. InRound(gen)' => InRound(gen)
      BY <1>1, <2>1, <3>1 DEF InRound
    <3>3. disturbed' = disturbed /\ \A t : Traced(t) => Traced(t)'
      BY <2>1, <3>1 DEF Traced, Somewhere, lossVars
    <3>4. QED
      BY <1>4, <2>1, <3>2, <3>3
  <2>3. CASE results # <<>> /\ ~disturbed'
    <3>1. PICK e \in Task : e = Head(results)
      BY <1>1, <2>3, TailFacts
    <3>2. Taken(g, e) /\ results' = Tail(results) /\ loop[g] = "collect"
      BY <1>18, <2>3, <3>1 DEF Pop
    <3>3. Elements(results) = Elements(results') \cup {e}
      BY <1>1, <2>3, <3>1, <3>2, TailFacts
    <3>4. /\ InRound(gen)' => InRound(gen)
          /\ ~disturbed
          /\ e.open = opening[gen] => e \in popped'[gen] \/ \E h \in Gen : e \in stolen'[h]
          /\ popped[gen] \subseteq popped'[gen]
          /\ killed' = killed /\ \A h \in Gen : stolen[h] \subseteq stolen'[h]
      BY <1>17, <2>1, <2>3, <3>2
    <3>5. \A t : Traced(t) /\ t.open = opening[gen] => Traced(t)'
      BY <2>1, <3>3, <3>4 DEF Traced, Somewhere
    <3>6. QED
      BY <1>4, <2>1, <3>4, <3>5
  <2>4. QED
    BY <1>3, <2>2, <2>3
<1>19. ASSUME NEW g \in Gen, Accept(g) PROVE Kept'
  <2>1. UNCHANGED <<gen, CurrentRound, opening, todo, expired, tasks, results, working, lossVars>>
    BY <1>19 DEF Accept, mainVars, redisVars, runnerVars, historyVars
  <2>2. loop[g] = "popped" /\ loop' = [loop EXCEPT ![g] = "collect"]
    BY <1>19 DEF Accept
  <2>3. disturbed' = disturbed /\ (InRound(gen)' => InRound(gen))
    BY <1>1, <2>1, <2>2 DEF InRound, lossVars
  <2>4. ASSUME NEW t, Somewhere(t), t.round = CurrentRound PROVE Somewhere(t)'
    <3>1. CASE g = gen
      <4>1. PICK e \in Task : popped[gen] = {e}
        BY <1>1, <2>2, <3>1 DEF Locals, LocalsOf
      <4>2. /\ e.round = CurrentRound => Elements(collected'[gen]) = Elements(collected[gen]) \cup {e}
            /\ e.round # CurrentRound => collected'[gen] = collected[gen]
        BY <1>1, <1>19, <3>1, <4>1, Accepted
      <4>3. QED
        BY <2>1, <2>4, <4>1, <4>2 DEF Somewhere
    <3>2. CASE g # gen
      <4>1. collected'[gen] = collected[gen] /\ popped'[gen] = popped[gen]
        BY <1>1, <1>19, <3>2 DEF Accept
      <4>2. QED
        BY <2>1, <2>4, <4>1 DEF Somewhere
    <3>3. QED
      BY <3>1, <3>2
  <2>5. \A t : Traced(t) /\ t.round = CurrentRound => Traced(t)'
    BY <2>1, <2>4 DEF Traced, lossVars
  <2>6. QED
    BY <1>4, <2>1, <2>3, <2>5
<1>20. ASSUME NEW g \in Gen, Deadline(g) PROVE Kept'
  <2>1. UNCHANGED <<loop, gen, CurrentRound, opening, todo, tasks, results, collected, popped, working, lossVars>>
    BY <1>20 DEF Deadline, mainVars, redisVars, runnerVars, historyVars
  <2>2. expired[gen] => expired'[gen]
    BY <1>1, <1>20 DEF Deadline
  <2>3. disturbed' = disturbed /\ \A t : Traced(t) => Traced(t)'
    BY <2>1 DEF Traced, Somewhere, lossVars
  <2>4. InRound(gen)' => InRound(gen)
    BY <2>1 DEF InRound
  <2>5. QED
    BY <1>4, <2>1, <2>2, <2>3, <2>4
\* The runners.
<1>21. ASSUME NEW r \in Runner, Take(r) PROVE Kept'
  <2>1. UNCHANGED <<loop, gen, CurrentRound, opening, todo, expired, results, collected, popped, lossVars>>
    BY <1>21 DEF Take, mainVars, roundVars, historyVars
  <2>2. /\ tasks # <<>> /\ tasks' = Tail(tasks)
        /\ working' = [working EXCEPT ![r] = working[r] \cup {Head(tasks)}]
    BY <1>21 DEF Take
  <2>3. Elements(tasks) = Elements(tasks') \cup {Head(tasks)}
    BY <1>1, <2>2, TailFacts
  <2>4. Head(tasks) \in working'[r] /\ \A q \in Runner : working[q] \subseteq working'[q]
    BY <1>1, <2>2
  <2>5. \A t : Somewhere(t) => Somewhere(t)'
    BY <2>1, <2>3, <2>4 DEF Somewhere
  <2>6. disturbed' = disturbed /\ \A t : Traced(t) => Traced(t)'
    BY <2>1, <2>5 DEF Traced, lossVars
  <2>7. InRound(gen)' => InRound(gen)
    BY <2>1 DEF InRound
  <2>8. QED
    BY <1>4, <2>1, <2>6, <2>7
<1>22. ASSUME NEW r \in Runner, NEW task \in working[r], Push(r, task) PROVE Kept'
  <2>1. UNCHANGED <<gen, CurrentRound, opening, todo, expired, tasks, collected>>
    BY <1>22 DEF Push, mainVars
  <2>2. task \in Task /\ \A q \in Runner : \A t \in working[q] : t = task \/ t \in working'[q]
    BY <1>1, <1>22 DEF Push
  <2>3. CASE waiters = <<>>
    <3>1. results' = Append(results, task) /\ UNCHANGED <<popped, loop, lossVars>>
      BY <1>22, <2>3 DEF Push
    <3>2. Elements(results') = Elements(results) \cup {task}
      BY <1>1, <2>2, <3>1, AppendFacts
    <3>3. \A t : Somewhere(t) => Somewhere(t)'
      BY <2>1, <2>2, <3>1, <3>2 DEF Somewhere
    <3>4. disturbed' = disturbed /\ \A t : Traced(t) => Traced(t)'
      BY <3>1, <3>3 DEF Traced, lossVars
    <3>5. InRound(gen)' => InRound(gen)
      BY <2>1, <3>1 DEF InRound
    <3>6. QED
      BY <1>4, <2>1, <3>4, <3>5
  <2>4. CASE waiters # <<>> /\ ~disturbed'
    <3>1. PICK g \in Gen : g = Head(waiters) /\ loop[g] = "blocked"
      BY <1>1, <2>4, HeadBlocked
    <3>2. Taken(g, task) /\ results' = results
      BY <1>22, <2>4, <3>1 DEF Push
    <3>3. /\ InRound(gen)' => InRound(gen)
          /\ ~disturbed
          /\ task.open = opening[gen] => task \in popped'[gen] \/ \E h \in Gen : task \in stolen'[h]
          /\ popped[gen] \subseteq popped'[gen]
          /\ killed' = killed /\ \A h \in Gen : stolen[h] \subseteq stolen'[h]
      BY <1>17, <2>1, <2>2, <2>4, <3>1, <3>2
    <3>4. \A t : Traced(t) /\ t.open = opening[gen] => Traced(t)'
      BY <2>1, <2>2, <3>2, <3>3 DEF Traced, Somewhere
    <3>5. QED
      BY <1>4, <2>1, <3>3, <3>4
  <2>5. QED
    BY <1>3, <2>3, <2>4
<1>23. ASSUME NEW r \in Runner, Exit(r) PROVE Kept'
  <2>1. UNCHANGED <<loop, gen, CurrentRound, opening, todo, expired, tasks, results, collected, popped,
                    stolen, disturbed>>
    BY <1>23 DEF Exit, mainVars, roundVars, redisVars, historyVars
  <2>2. /\ killed' = killed \cup {t \in working[r] : t.open = opening[gen]}
        /\ \A q \in Runner : q # r => working'[q] = working[q]
    BY <1>1, <1>23 DEF Exit
  <2>3. \A t : Traced(t) /\ t.open = opening[gen] => Traced(t)'
    BY <2>1, <2>2 DEF Traced, Somewhere
  <2>4. InRound(gen)' => InRound(gen)
    BY <2>1 DEF InRound
  <2>5. QED
    BY <1>4, <2>1, <2>3, <2>4
<1>24. CASE UNCHANGED vars
  BY <1>5, <1>24 DEF vars, mainVars, roundVars, redisVars, runnerVars, historyVars
<1>25. ASSUME NEW g \in Gen, LoopStep(g) PROVE Kept'
  BY <1>8, <1>12, <1>13, <1>14, <1>15, <1>16, <1>18, <1>19, <1>25 DEF LoopStep
<1>26. ASSUME NEW r \in Runner, RunnerStep(r) PROVE Kept'
  BY <1>21, <1>22, <1>23, <1>26 DEF RunnerStep
<1>27. QED
  BY <1>6, <1>7, <1>9, <1>10, <1>11, <1>20, <1>24, <1>25, <1>26 DEF Next, ResetStep, StartStep

\* An older loop that has the message takes one task of the round and no other:
\* after it, the count of what it took under the message stands at one.
LEMMA TookOneStep ==
  ASSUME Always, TookOne, [Next]_vars
  PROVE  TookOne'
<1>1. /\ TypeOK /\ Queue /\ OneMore /\ gen \in Gen /\ loop \in [Gen -> LoopStates]
      /\ after \in [Gen -> Nat] /\ stolen \in [Gen -> SUBSET Task] /\ results \in Seq(Task)
      /\ OneMore'
  BY AlwaysStep DEF Always, TypeOK
<1>2. ASSUME UNCHANGED <<after, stolen, disturbed>> PROVE TookOne'
  BY <1>2 DEF TookOne
<1>3. ASSUME disturbed' PROVE TookOne'
  BY <1>3 DEF TookOne
<1>4. ASSUME UNCHANGED after, Renumbers PROVE TookOne'
  BY <1>4 DEF TookOne, Renumbers
<1>5. ASSUME NEW g \in Gen, NEW e \in Task, Taken(g, e), ~disturbed' PROVE TookOne'
  <2>1. /\ ~disturbed
        /\ \A h \in Gen : stolen[h] = {} \/ (after[h] = 1 /\ \E t \in stolen[h] : stolen[h] = {t})
    BY <1>5 DEF Taken, TookOne
  <2>2. \A h \in Gen : h # g => after'[h] = after[h] /\ stolen'[h] = stolen[h]
    BY <1>1, <1>5 DEF Taken
  <2>3. CASE stolen'[g] = stolen[g] /\ after'[g] = after[g]
    BY <2>1, <2>2, <2>3 DEF TookOne
  <2>4. CASE roundInbox[g] = "told"
    <3>1. after'[g] = after[g] + 1 /\ after'[g] <= 1 /\ after[g] \in Nat
      BY <1>1, <1>5, <2>4 DEF Taken, OneMore, OneMoreOf
    <3>2. after[g] = 0 /\ after'[g] = 1
      BY <3>1
    <3>3. stolen[g] = {}
      BY <2>1, <3>2
    <3>4. stolen'[g] = {} \/ stolen'[g] = {e}
      BY <1>1, <1>5, <3>3 DEF Taken
    <3>5. QED
      BY <2>1, <2>2, <3>2, <3>4 DEF TookOne
  <2>5. QED
    BY <1>1, <1>5, <2>3, <2>4 DEF Taken
<1>6. CASE Truncate \/ PublishReset \/ StartSpawns
  BY <1>2, <1>6 DEF Truncate, PublishReset, StartSpawns, historyVars, lossVars
<1>7. CASE DeleteTasks \/ DeleteResults
  BY <1>3, <1>7 DEF DeleteTasks, DeleteResults, Disturbs
<1>8. CASE ResetNumber \/ StartLoads
  BY <1>4, <1>8 DEF ResetNumber, StartLoads, historyVars
<1>9. ASSUME NEW g \in Gen, Count(g) PROVE TookOne'
  BY <1>4, <1>9 DEF Count, historyVars
<1>10. ASSUME NEW g \in Gen, Open(g) PROVE TookOne'
  <2>1. CASE g = gen
    <3>1. stolen' = [h \in Gen |-> {}]
      BY <1>10, <2>1 DEF Open
    <3>2. QED
      BY <3>1 DEF TookOne
  <2>2. CASE g # gen
    BY <1>3, <1>10, <2>2 DEF Open, Disturbs
  <2>3. QED
    BY <2>1, <2>2
<1>11. ASSUME NEW g \in Gen, Clear(g) PROVE TookOne'
  <2>1. CASE g = gen
    BY <1>2, <1>11, <2>1 DEF Clear, historyVars, lossVars
  <2>2. CASE g # gen
    BY <1>3, <1>11, <2>2 DEF Clear, Disturbs
  <2>3. QED
    BY <2>1, <2>2
<1>12. ASSUME NEW g \in Gen, Pop(g) PROVE TookOne'
  <2>1. CASE results = <<>>
    BY <1>2, <1>12, <2>1 DEF Pop, lossVars
  <2>2. CASE results # <<>>
    <3>1. Taken(g, Head(results)) /\ Head(results) \in Task
      BY <1>1, <1>12, <2>2, TailFacts DEF Pop
    <3>2. QED
      BY <1>3, <1>5, <3>1
  <2>3. QED
    BY <2>1, <2>2
<1>13. ASSUME NEW g \in Gen,
              ReadAtTop(g) \/ (\E p \in Pair : Enqueue(g, p)) \/ QuitRound(g) \/ Accept(g) \/ Discard(g)
                \/ Save(g) \/ Wake(g) \/ Deliver(g) \/ Deadline(g)
       PROVE  TookOne'
  BY <1>2, <1>13 DEF ReadAtTop, Enqueue, QuitRound, Accept, Discard, Save, Wake, Deliver, Deadline,
                     historyVars, lossVars
<1>14. ASSUME NEW r \in Runner, Take(r) \/ Exit(r) PROVE TookOne'
  BY <1>2, <1>14 DEF Take, Exit, historyVars, lossVars
<1>15. ASSUME NEW r \in Runner, NEW task \in working[r], Push(r, task) PROVE TookOne'
  <2>1. CASE waiters = <<>>
    BY <1>2, <1>15, <2>1 DEF Push, lossVars
  <2>2. CASE waiters # <<>>
    <3>1. Head(waiters) \in Gen /\ task \in Task
      BY <1>1, <2>2, HeadBlocked DEF TypeOK
    <3>2. Taken(Head(waiters), task)
      BY <1>15, <2>2 DEF Push
    <3>3. QED
      BY <1>3, <1>5, <3>1, <3>2
  <2>3. QED
    BY <2>1, <2>2
<1>16. CASE UNCHANGED vars
  BY <1>2, <1>16 DEF vars, historyVars, lossVars
<1>17. ASSUME NEW g \in Gen, LoopStep(g) PROVE TookOne'
  BY <1>9, <1>10, <1>11, <1>12, <1>13, <1>17 DEF LoopStep
<1>18. ASSUME NEW r \in Runner, RunnerStep(r) PROVE TookOne'
  BY <1>14, <1>15, <1>18 DEF RunnerStep
<1>19. QED
  BY <1>6, <1>7, <1>8, <1>13, <1>16, <1>17, <1>18 DEF Next, ResetStep, StartStep

\* LOSSES.  Whatever resets meet, for any number of loops, runners and rounds:
\* until its deadline no task of the latest loop's round gets lost without a
\* cause.  It is queued, with a runner, in the list or collected, or a runner
\* exited with it, or an older loop took it; and an older loop that has the
\* message of its reset took one at most.  Only a round that was disturbed may
\* lose others (engine.go:130-137, 391-405, 473-517; runner.go:57-67).
THEOREM LossesHaveCauses == Spec => []LossesAccountedFor
<1>1. Init => Kept /\ TookOne
  <2>1. ASSUME Init PROVE ~InRound(gen) /\ \A g \in Gen : stolen[g] = {}
    BY <2>1, HandoverBoundsAssumption DEF Init, Gen, InRound
  <2>2. QED
    BY <2>1 DEF Kept, TookOne
<1>2. Always /\ Kept /\ TookOne /\ [Next]_vars => Kept' /\ TookOne'
  BY KeptStep, TookOneStep
<1>3. ASSUME Kept, TookOne PROVE LossesAccountedFor
  <2> SUFFICES ASSUME InRound(gen), ~expired[gen], ~disturbed
               PROVE  /\ \A p \in Pair \ todo[gen] :
                           \E task \in Places(gen) \cup killed \cup UNION {stolen[g] : g \in Gen} :
                             task.pair = p /\ task.open = opening[gen]
                      /\ \A g \in Gen : Cardinality(stolen[g]) <= 1
    BY DEF LossesAccountedFor
  <2>1. ASSUME NEW p \in Pair \ todo[gen]
        PROVE  \E task \in Places(gen) \cup killed \cup UNION {stolen[g] : g \in Gen} :
                 task.pair = p /\ task.open = opening[gen]
    <3>1. Traced(OwnTask(p))
      BY <1>3 DEF Kept
    <3>2. OwnTask(p) \in Places(gen) \cup killed \cup UNION {stolen[g] : g \in Gen}
      BY <3>1, Where DEF Traced
    <3>3. OwnTask(p).pair = p /\ OwnTask(p).open = opening[gen]
      BY DEF OwnTask
    <3>4. QED
      BY <3>2, <3>3
  <2>2. ASSUME NEW g \in Gen PROVE Cardinality(stolen[g]) <= 1
    <3>1. stolen[g] = {} \/ \E t : stolen[g] = {t}
      BY <1>3 DEF TookOne
    <3>3. CASE stolen[g] = {}
      <4>1. Cardinality({}) = 0
        BY FS_EmptySet
      <4>2. Cardinality(stolen[g]) = 0
        BY <3>3, <4>1
      <4>3. QED
        BY <4>2
    <3>4. ASSUME NEW t, stolen[g] = {t} PROVE Cardinality(stolen[g]) <= 1
      <4>1. Cardinality({t}) = 1
        BY FS_Singleton
      <4>2. Cardinality(stolen[g]) = 1
        BY <3>4, <4>1
      <4>3. QED
        BY <4>2
    <3>5. QED
      BY <3>1, <3>3, <3>4
  <2>3. QED
    BY <2>1, <2>2
<1>4. QED
  BY <1>1, <1>2, <1>3, AlwaysHolds, PTL DEF Spec

-----------------------------------------------------------------------------
(* Handover implements SeasonLog *)

\* A push ends no round, begins none and saves none.
LEMMA PushInRound ==
  ASSUME TypeOK, Queue, NEW r \in Runner, NEW task \in working[r], Push(r, task)
  PROVE  \A g \in Gen : /\ InRound(g)' <=> InRound(g)
                        /\ loop'[g] = "saved" <=> loop[g] = "saved"
<1>1. CASE waiters = <<>>
  BY <1>1 DEF Push, Taken, InRound
<1>2. CASE waiters # <<>>
  <2>1. PICK g \in Gen : g = Head(waiters) /\ loop[g] = "blocked"
    BY <1>2, HeadBlocked
  <2>2. loop' = [loop EXCEPT ![g] = "popped"]
    BY <1>2, <2>1 DEF Push, Taken
  <2>3. QED
    BY <2>1, <2>2 DEF TypeOK, InRound
<1>3. QED
  BY <1>1, <1>2

\* A round has been opened.
Opened == \A g \in Gen : InRound(g) => opening[g] # 0

\* The number of the next round is above those of the season.
Rising == ~crossed /\ ~late => \A n \in DOMAIN rounds : n < SeasonNumber

LEMMA OpenedStep == ASSUME Always, Opened, [Next]_vars PROVE Opened'
<1>1. /\ opening \in [Gen -> Nat] /\ opens \in Nat /\ TypeOK
      /\ loop \in [Gen -> LoopStates] /\ waiters \in Seq(Gen) /\ Queue
  BY DEF Always, TypeOK
<1>2. ASSUME opening' = opening, \A g \in Gen : InRound(g)' => InRound(g) PROVE Opened'
  BY <1>2 DEF Opened
<1>3. CASE Truncate \/ ResetStep \/ StartLoads
  <2>1. UNCHANGED <<opening, loop>>
    BY <1>3 DEF Truncate, ResetStep, DeleteTasks, DeleteResults, PublishReset, ResetNumber, StartLoads,
                historyVars
  <2>2. QED
    BY <1>2, <2>1 DEF InRound
<1>4. CASE StartSpawns
  <2>1. opening' = opening /\ loop' = [loop EXCEPT ![gen + 1] = "top"]
    BY <1>4 DEF StartSpawns, historyVars
  <2>2. QED
    BY <1>1, <1>2, <2>1 DEF InRound
<1>5. ASSUME NEW g \in Gen, Open(g) PROVE Opened'
  <2>1. /\ opening' = [opening EXCEPT ![g] = opens + 1]
        /\ loop' = [loop EXCEPT ![g] = IF tasks = <<>> THEN "enqueue" ELSE "clear"]
    BY <1>5 DEF Open
  <2>2. opens + 1 # 0
    BY <1>1
  <2>3. \A h \in Gen : h # g => opening'[h] = opening[h] /\ loop'[h] = loop[h]
    BY <2>1
  <2>4. opening'[g] = opens + 1
    BY <1>1, <2>1
  <2>5. QED
    BY <2>2, <2>3, <2>4 DEF Opened, InRound
<1>6. ASSUME NEW g \in Gen, LoopStep(g), ~Open(g) PROVE Opened'
  <2>1. opening' = opening
    BY <1>6 DEF LoopStep, ReadAtTop, Clear, Enqueue, QuitRound, Pop, Taken, Accept, Discard, Save, Count, Wake, historyVars
  <2>2. /\ \A h \in Gen : h # g => loop'[h] = loop[h]
        /\ InRound(g)' => InRound(g)
    BY <1>1, <1>6 DEF LoopStep, ReadAtTop, Clear, Enqueue, QuitRound, Pop, Taken, Accept, Discard, Save, Count, Wake, InRound
  <2>3. QED
    BY <1>2, <2>1, <2>2 DEF InRound
<1>7. ASSUME NEW g \in Gen, Deliver(g) \/ Deadline(g) PROVE Opened'
  <2>1. UNCHANGED <<opening, loop>>
    BY <1>7 DEF Deliver, Deadline, historyVars
  <2>2. QED
    BY <1>2, <2>1 DEF InRound
<1>8. ASSUME NEW r \in Runner, Take(r) \/ Exit(r) PROVE Opened'
  <2>1. UNCHANGED <<opening, loop>>
    BY <1>8 DEF Take, Exit, historyVars
  <2>2. QED
    BY <1>2, <2>1 DEF InRound
<1>9. ASSUME NEW r \in Runner, NEW task \in working[r], Push(r, task) PROVE Opened'
  <2>1. opening' = opening
    BY <1>9 DEF Push, Taken
  <2>2. \A g \in Gen : InRound(g)' <=> InRound(g)
    BY <1>1, <1>9, PushInRound
  <2>3. QED
    BY <1>2, <2>1, <2>2
<1>10. CASE UNCHANGED vars
  <2>1. UNCHANGED <<opening, loop>>
    BY <1>10 DEF vars, historyVars
  <2>2. QED
    BY <1>2, <2>1 DEF InRound
<1>11. QED
  BY <1>3, <1>4, <1>5, <1>6, <1>7, <1>8, <1>9, <1>10 DEF Next, StartStep, RunnerStep

\* Every opening has a number.
LEMMA OpenedHolds == Spec => []Opened
<1>1. Init => Opened
  BY DEF Init, Opened, InRound
<1>2. Always /\ Opened /\ [Next]_vars => Opened'
  BY OpenedStep
<1>3. QED
  BY <1>1, <1>2, AlwaysHolds, PTL DEF Spec

\* Steps that leave rounds, numbers and openings alone are nobody's business.
LEMMA SeasonStays ==
  ASSUME rounds' = rounds, CurrentRound' = CurrentRound, opens' = opens, gen' = gen, opening' = opening,
         loop'[gen] = "saved" <=> loop[gen] = "saved", InRound(gen)' <=> InRound(gen),
         ~crossed, ~late, ~crossed', ~late'
  PROVE  UNCHANGED Season!vars
<1>1. SeasonRounds' = SeasonRounds
  BY DEF SeasonRounds, FreshRound
<1>2. SeasonNumber' = SeasonNumber
  BY DEF SeasonNumber
<1>3. SeasonOpening' = SeasonOpening
  BY DEF SeasonOpening
<1>4. (crossed \/ late)' = (crossed \/ late)
  OBVIOUS
<1>5. QED
  BY <1>1, <1>2, <1>3, <1>4 DEF Season!vars

\* Between two rounds.
LEMMA NoneOpen == ~Active(gen) => SeasonOpening = 0 /\ SeasonNumber = CurrentRound
BY DEF Active, SeasonOpening, SeasonNumber

LEMMA NoRounds == DOMAIN rounds = {} => SeasonRounds = Season!Empty
BY DEF SeasonRounds, Season!Empty

\* A round, being open, is the one of the log that is open.
LEMMA OneOpen ==
  ASSUME InRound(gen), Opened, gen \in Gen
  PROVE  SeasonOpening = opening[gen] /\ SeasonOpening # 0 /\ SeasonNumber = CurrentRound
BY DEF SeasonOpening, SeasonNumber, InRound, Opened

\* A reset that meets no round wipes the log, and then sets the number back.
LEMMA SeasonReset ==
  ASSUME IInv, ~crossed, ~late, ~crossed', ~late', Truncate \/ ResetStep \/ StartStep
  PROVE  [Season!Next]_(Season!vars)
<1>1. Serial /\ Emptied /\ TypeOK /\ gen \in Gen
  BY DEF IInv, Always, TypeOK
<1>2. (crossed \/ late)' = (crossed \/ late)
  OBVIOUS
<1>3. CASE Truncate
  <2>1. /\ gen' = gen /\ loop' = loop /\ opening' = opening /\ CurrentRound' = CurrentRound
        /\ opens' = opens /\ rounds' = [n \in {} |-> <<>>] /\ ~Active(gen)
    BY <1>1, <1>3 DEF Truncate, Active, InRound
  <2>2. SeasonOpening = 0 /\ SeasonOpening' = SeasonOpening /\ SeasonNumber' = SeasonNumber
    BY <2>1, NoneOpen DEF SeasonOpening, SeasonNumber, InRound
  <2>3. SeasonRounds' = Season!Empty
    BY <2>1 DEF SeasonRounds, Season!Empty
  <2>4. QED
    BY <1>2, <2>1, <2>2, <2>3 DEF Season!Next, Season!Erase
<1>4. CASE DeleteTasks \/ DeleteResults \/ PublishReset
  <2>1. /\ gen' = gen /\ loop' = loop /\ opening' = opening /\ CurrentRound' = CurrentRound
        /\ opens' = opens /\ rounds' = rounds
    BY <1>4 DEF DeleteTasks, DeleteResults, PublishReset, historyVars
  <2>2. QED
    BY <2>1, SeasonStays DEF InRound
<1>5. CASE ResetNumber \/ StartLoads
  <2>1. /\ gen' = gen /\ loop' = loop /\ opening' = opening /\ opens' = opens /\ rounds' = rounds
    BY <1>5 DEF ResetNumber, StartLoads, historyVars
  <2>2. reset # "idle" \/ main # "waiting"
    BY <1>5 DEF ResetNumber, StartLoads
  <2>3. DOMAIN rounds = {} /\ ~Active(gen)
    BY <1>1, <2>2 DEF Serial, Emptied
  <2>4. CurrentRound' = 1
    BY <1>5, <2>3 DEF ResetNumber, FirstNumber, StartLoads
  <2>5. /\ SeasonOpening = 0 /\ SeasonOpening' = SeasonOpening
        /\ SeasonRounds = Season!Empty /\ SeasonRounds' = SeasonRounds
    BY <2>1, <2>3, NoneOpen, NoRounds DEF SeasonOpening, SeasonRounds, FreshRound, InRound
  <2>6. SeasonNumber' = 1
    BY <2>1, <2>3, <2>4 DEF SeasonNumber, Active
  <2>7. QED
    BY <1>2, <2>1, <2>5, <2>6 DEF Season!Next, Season!Renumber
<1>6. CASE StartSpawns
  <2>1. /\ gen' = gen + 1 /\ loop' = [loop EXCEPT ![gen + 1] = "top"] /\ main = "starting"
        /\ CurrentRound' = CurrentRound /\ opens' = opens /\ rounds' = rounds
    BY <1>6 DEF StartSpawns, historyVars
  <2>2. gen < MaxStarts /\ gen + 1 \in Gen
    BY <1>1, <2>1, HandoverBoundsAssumption DEF IInv, Always, Replaced, Gen
  <2>3. loop'[gen'] = "top"
    BY <1>1, <2>1, <2>2 DEF TypeOK
  <2>4. SeasonOpening' = 0 /\ SeasonNumber' = CurrentRound
    BY <2>1, <2>3 DEF SeasonOpening, SeasonNumber, InRound
  <2>5. SeasonOpening = 0 /\ SeasonNumber = CurrentRound
    BY <1>1, <2>1, NoneOpen DEF Serial
  <2>6. SeasonRounds' = SeasonRounds
    BY <2>1 DEF SeasonRounds, FreshRound
  <2>7. QED
    BY <1>2, <2>1, <2>4, <2>5, <2>6 DEF Season!vars
<1>7. QED
  BY <1>3, <1>4, <1>5, <1>6 DEF ResetStep, StartStep

\* Of the steps of a loop, the opening, the end and the saving of a round are
\* the log's; the others are not.
LEMMA SeasonLoop ==
  ASSUME IInv, IInv', Opened, Rising, ~crossed, ~late, ~crossed', ~late', NEW g \in Gen, LoopStep(g)
  PROVE  [Season!Next]_(Season!vars)
<1>1. /\ Serial /\ TypeOK /\ gen \in Gen /\ loop \in [Gen -> LoopStates] /\ opening \in [Gen -> Nat]
      /\ \A n \in DOMAIN rounds : FreshRound(n) /\ n < SeasonNumber
      /\ \A n \in DOMAIN rounds' : FreshRound(n)'
  BY DEF IInv, Always, TypeOK, FreshAfterReset, Rising
<1>2. gen' = gen
  BY DEF LoopStep, ReadAtTop, Open, Clear, Enqueue, QuitRound, Pop, Taken, Accept, Discard, Save, Count, Wake, mainVars
<1>3. (crossed \/ late)' = (crossed \/ late)
  OBVIOUS
<1>4. CASE ReadAtTop(g) \/ Clear(g) \/ (\E p \in Pair : Enqueue(g, p)) \/ Pop(g) \/ Accept(g) \/ Wake(g)
  <2>1. rounds' = rounds /\ CurrentRound' = CurrentRound /\ opens' = opens /\ opening' = opening
    BY <1>4 DEF ReadAtTop, Clear, Enqueue, Pop, Taken, Accept, Wake, historyVars
  <2>2. \A h \in Gen : (loop'[h] = "saved" <=> loop[h] = "saved") /\ (InRound(h)' <=> InRound(h))
    BY <1>1, <1>4 DEF ReadAtTop, Clear, Enqueue, Pop, Taken, Accept, Wake, InRound
  <2>3. QED
    BY <1>1, <1>2, <2>1, <2>2, SeasonStays
<1>5. CASE Open(g)
  <2>1. g = gen /\ loop[g] = "top"
    BY <1>5, OpensAlone DEF IInv, Open
  <2>2. /\ loop'[gen] \in {"enqueue", "clear"} /\ opens' = opens + 1 /\ opening'[gen] = opens + 1
        /\ rounds' = rounds /\ CurrentRound' = CurrentRound
    BY <1>1, <1>5, <2>1 DEF Open
  <2>3. SeasonOpening = 0 /\ SeasonNumber = CurrentRound
    BY <2>1 DEF SeasonOpening, SeasonNumber, InRound
  <2>4. SeasonOpening' = opens + 1 /\ SeasonNumber' = CurrentRound /\ SeasonRounds' = SeasonRounds
    BY <1>2, <2>2 DEF SeasonOpening, SeasonNumber, InRound, SeasonRounds, FreshRound
  <2>5. QED
    BY <1>3, <2>2, <2>3, <2>4 DEF Season!Next, Season!Open
<1>6. CASE QuitRound(g)
  <2>1. InRound(g) /\ roundInbox[g] = "told"
    BY <1>6 DEF QuitRound, Reads, InRound
  <2>2. QED
    BY <1>1, <2>1 DEF Serial, Active
<1>7. CASE Discard(g)
  <2>1. /\ InRound(g) /\ loop' = [loop EXCEPT ![g] = "saved"]
        /\ rounds' = rounds /\ CurrentRound' = CurrentRound /\ opens' = opens
    BY <1>7 DEF Discard, InRound
  <2>2. g = gen /\ loop'[gen] = "saved"
    BY <1>1, <2>1 DEF Serial, Active
  <2>3. SeasonOpening # 0 /\ SeasonNumber = CurrentRound
    BY <1>1, <2>1, <2>2, OneOpen
  <2>4. SeasonOpening' = 0 /\ SeasonNumber' = CurrentRound + 1 /\ SeasonRounds' = SeasonRounds
    BY <1>2, <2>1, <2>2 DEF SeasonOpening, SeasonNumber, InRound, SeasonRounds, FreshRound
  <2>5. QED
    BY <1>3, <2>1, <2>3, <2>4 DEF Season!Next, Season!LeaveOut, Season!Close
<1>8. CASE Save(g)
  <2>1. /\ InRound(g) /\ loop' = [loop EXCEPT ![g] = "saved"]
        /\ CurrentRound' = CurrentRound /\ opens' = opens
    BY <1>8 DEF Save, InRound
  <2>2. g = gen /\ loop'[gen] = "saved" /\ InRound(gen)
    BY <1>1, <2>1 DEF Serial, Active
  <2>3. SeasonOpening = opening[gen] /\ SeasonOpening # 0 /\ SeasonNumber = CurrentRound
    BY <1>1, <2>2, OneOpen
  <2>4. SeasonOpening' = 0 /\ SeasonNumber' = CurrentRound + 1
    BY <1>2, <2>1, <2>2 DEF SeasonOpening, SeasonNumber, InRound
  <2>5. CurrentRound \in Nat /\ CurrentRound \notin DOMAIN rounds
    BY <1>1, <2>3 DEF TypeOK
  <2>6. PICK k : k = CurrentRound
    OBVIOUS
  <2>7. /\ DOMAIN rounds' = DOMAIN rounds \cup {k}
        /\ rounds'[k].open = opening[gen]
        /\ \A n \in DOMAIN rounds : rounds'[n] = rounds[n] /\ n # k
    BY <1>8, <2>2, <2>5, <2>6 DEF Save
  <2>8. /\ SeasonRounds = [n \in DOMAIN rounds |-> rounds[n].open]
        /\ SeasonRounds' = [n \in DOMAIN rounds' |-> rounds'[n].open]
    BY <1>1 DEF SeasonRounds
  <2>9. SeasonRounds' = [n \in DOMAIN rounds \cup {k} |-> IF n = k THEN opening[gen] ELSE SeasonRounds[n]]
    BY <2>7, <2>8
  <2>10. DOMAIN SeasonRounds = DOMAIN rounds
    BY <2>8
  <2>11. Season!Close
    BY <1>3, <2>1, <2>3, <2>4 DEF Season!Close
  <2>12. Season!Record
    BY <1>1, <2>3, <2>6, <2>9, <2>10, <2>11 DEF Season!Record
  <2>13. QED
    BY <2>12 DEF Season!Next
<1>9. CASE Count(g)
  <2>1. /\ loop[g] = "saved" /\ loop' = [loop EXCEPT ![g] = "sleep"] /\ CurrentRound' = CurrentRound + 1
        /\ rounds' = rounds /\ opens' = opens
    BY <1>9 DEF Count
  <2>2. g = gen /\ loop'[gen] = "sleep"
    BY <1>1, <2>1 DEF Serial, Active
  <2>3. /\ SeasonOpening = 0 /\ SeasonOpening' = 0
        /\ SeasonNumber = CurrentRound + 1 /\ SeasonNumber' = CurrentRound + 1
        /\ SeasonRounds' = SeasonRounds
    BY <1>2, <2>1, <2>2 DEF SeasonOpening, SeasonNumber, InRound, SeasonRounds, FreshRound
  <2>4. QED
    BY <1>3, <2>1, <2>3 DEF Season!vars
<1>10. QED
  BY <1>4, <1>5, <1>6, <1>7, <1>8, <1>9 DEF LoopStep

\* Each step is one of the log, or none.
LEMMA SeasonStep ==
  ASSUME IInv, IInv', Opened, Rising, [Next]_vars
  PROVE  [Season!Next]_(Season!vars)
<1>1. CASE crossed' \/ late'
  BY <1>1 DEF Season!Next, Season!Spoil
<1>2. CASE ~crossed' /\ ~late'
  <2>1. ~crossed /\ ~late /\ TypeOK /\ Queue /\ gen \in Gen
    BY <1>2, CrossedStays, LateStays DEF IInv, Always, TypeOK
  <2>2. CASE Truncate \/ ResetStep \/ StartStep
    BY <1>2, <2>1, <2>2, SeasonReset
  <2>3. ASSUME NEW g \in Gen, LoopStep(g) PROVE [Season!Next]_(Season!vars)
    BY <1>2, <2>1, <2>3, SeasonLoop
  <2>4. ASSUME NEW g \in Gen, Deliver(g) \/ Deadline(g) PROVE UNCHANGED Season!vars
    <3>1. /\ rounds' = rounds /\ CurrentRound' = CurrentRound /\ opens' = opens /\ gen' = gen
          /\ opening' = opening /\ loop' = loop
      BY <2>4 DEF Deliver, Deadline, mainVars, historyVars
    <3>2. QED
      BY <1>2, <2>1, <3>1, SeasonStays DEF InRound
  <2>5. ASSUME NEW r \in Runner, Take(r) \/ Exit(r) PROVE UNCHANGED Season!vars
    <3>1. /\ rounds' = rounds /\ CurrentRound' = CurrentRound /\ opens' = opens /\ gen' = gen
          /\ opening' = opening /\ loop' = loop
      BY <2>5 DEF Take, Exit, mainVars, historyVars
    <3>2. QED
      BY <1>2, <2>1, <3>1, SeasonStays DEF InRound
  <2>6. ASSUME NEW r \in Runner, NEW task \in working[r], Push(r, task) PROVE UNCHANGED Season!vars
    <3>1. /\ rounds' = rounds /\ CurrentRound' = CurrentRound /\ opens' = opens /\ gen' = gen
          /\ opening' = opening
      BY <2>6 DEF Push, Taken, mainVars
    <3>2. (loop'[gen] = "saved" <=> loop[gen] = "saved") /\ (InRound(gen)' <=> InRound(gen))
      <4>1. PICK h \in Gen : h = gen
        BY <2>1
      <4>2. (loop'[h] = "saved" <=> loop[h] = "saved") /\ (InRound(h)' <=> InRound(h))
        BY <2>1, <2>6, PushInRound
      <4>3. QED
        BY <3>1, <4>1, <4>2 DEF InRound
    <3>3. QED
      BY <1>2, <2>1, <3>1, <3>2, SeasonStays
  <2>7. CASE UNCHANGED vars
    <3>1. /\ rounds' = rounds /\ CurrentRound' = CurrentRound /\ opens' = opens /\ gen' = gen
          /\ opening' = opening /\ loop' = loop
      BY <2>7 DEF vars, mainVars, historyVars
    <3>2. QED
      BY <1>2, <2>1, <3>1, SeasonStays DEF InRound
  <2>8. QED
    BY <2>2, <2>3, <2>4, <2>5, <2>6, <2>7 DEF Next, RunnerStep
<1>3. QED
  BY <1>1, <1>2

\* The numbers of a season rise: of the log's steps, only one that finds the
\* log empty sets the number back.
LEMMA RisingStep == ASSUME IInv, IInv', Opened, Rising, [Next]_vars PROVE Rising'
<1> SUFFICES ASSUME ~crossed', ~late' PROVE \A n \in DOMAIN rounds' : n < SeasonNumber'
  BY DEF Rising
<1>1. ~crossed /\ ~late
  BY CrossedStays, LateStays DEF IInv, Always
<1>2. /\ DOMAIN SeasonRounds = DOMAIN rounds /\ DOMAIN SeasonRounds' = DOMAIN rounds'
      /\ \A n \in DOMAIN SeasonRounds : n < SeasonNumber
  BY <1>1 DEF SeasonRounds, Rising
<1>3. /\ SeasonNumber \in Nat /\ DOMAIN rounds \subseteq Nat
  BY DEF IInv, Always, TypeOK, SeasonNumber
<1>4. \/ Season!Next
      \/ UNCHANGED Season!vars
  BY SeasonStep
<1>5. ~Season!Spoil
  BY DEF Season!Spoil
<1>6. CASE Season!Open \/ UNCHANGED Season!vars
  BY <1>2, <1>6 DEF Season!Open, Season!vars
<1>7. CASE Season!Record
  <2>1. /\ SeasonNumber' = SeasonNumber + 1
        /\ DOMAIN SeasonRounds' = DOMAIN SeasonRounds \cup {SeasonNumber}
    BY <1>7 DEF Season!Record, Season!Close
  <2>2. QED
    BY <1>2, <1>3, <2>1
<1>8. CASE Season!LeaveOut
  <2>1. SeasonNumber' = SeasonNumber + 1 /\ SeasonRounds' = SeasonRounds
    BY <1>8 DEF Season!LeaveOut, Season!Close
  <2>2. QED
    BY <1>2, <1>3, <2>1
<1>9. CASE Season!Erase \/ Season!Renumber
  <2>1. SeasonRounds' = Season!Empty
    BY <1>9 DEF Season!Erase, Season!Renumber
  <2>2. QED
    BY <1>2, <2>1 DEF Season!Empty
<1>10. QED
  BY <1>4, <1>5, <1>6, <1>7, <1>8, <1>9 DEF Season!Next

\* SEASONS.  Through any number of resets, rounds and starts, what is saved is
\* a log of seasons: rounds opened one at a time under rising numbers from 1,
\* each saved whole, as the opening it was, or left out, and the season wiped
\* and the numbers set back only between two rounds; unless a reset met a
\* round, or a runner pushed behind it (engine.go:85-151, 302-333).
THEOREM ResetsMakeSeasons == Spec => ImplementsSeasonLog
<1>1. Init => Season!Init
  <2>1. ASSUME Init PROVE Season!Init
    <3>1. gen = 1 /\ 1 \in Gen
      BY <2>1, HandoverBoundsAssumption DEF Init, Gen
    <3>2. ~Active(gen) /\ DOMAIN rounds = {} /\ CurrentRound = 1
      BY <2>1, <3>1 DEF Init, Active, InRound
    <3>3. SeasonRounds = Season!Empty /\ SeasonNumber = 1 /\ SeasonOpening = 0
      BY <3>2, NoneOpen, NoRounds
    <3>4. QED
      BY <2>1, <3>3 DEF Init, Season!Init
  <2>2. QED
    BY <2>1
<1>2. Init => Rising
  BY DEF Init, Rising
<1>3. IInv /\ IInv' /\ Opened /\ Rising /\ [Next]_vars => Rising'
  BY RisingStep
<1>4. IInv /\ IInv' /\ Opened /\ Rising /\ [Next]_vars => [Season!Next]_(Season!vars)
  BY SeasonStep
<1>5. QED
  BY <1>1, <1>2, <1>3, <1>4, InductiveInv, OpenedHolds, PTL DEF Spec, ImplementsSeasonLog, Season!Spec

=============================================================================
