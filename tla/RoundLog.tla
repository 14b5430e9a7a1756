------------------------------ MODULE RoundLog ------------------------------
(***************************************************************************)
(* What the scoring loop promises to whoever reads the scores, without its *)
(* queues, runners and clock: a log of rounds, numbered upwards, each      *)
(* recorded once, at the end of the round that was open, and as one        *)
(* verdict per (team, service) pair.  A round may be left out.  A restart  *)
(* goes back to the number after the last recorded one; only a number that *)
(* was opened twice that way may be recorded without one verdict per pair. *)
(***************************************************************************)
EXTENDS Integers

CONSTANTS
  Pair,     \* the (team, service) pairs
  Garbled   \* what is recorded for a round whose verdicts are not one per pair

VARIABLES
  log,      \* the recorded rounds
  next,     \* the number of the round that is open, or will be opened next
  used,     \* the numbers opened so far
  again     \* the numbers opened more than once

vars == <<log, next, used, again>>

Verdicts == UNION {[S -> BOOLEAN] : S \in (SUBSET Pair) \ {{}}}

Init ==
  /\ log = [r \in {} |-> Garbled]
  /\ next = 1
  /\ used = {} /\ again = {}

Open ==
  /\ used' = used \cup {next}
  /\ again' = IF next \in used THEN again \cup {next} ELSE again
  /\ UNCHANGED <<log, next>>

Record(v) ==
  /\ next \in used /\ next \notin DOMAIN log
  /\ v \in Verdicts \/ (v = Garbled /\ next \in again)
  /\ log' = [r \in DOMAIN log \cup {next} |-> IF r = next THEN v ELSE log[r]]
  /\ next' = next + 1
  /\ UNCHANGED <<used, again>>

LeaveOut ==
  /\ next \in used
  /\ next' = next + 1
  /\ UNCHANGED <<log, used, again>>

Rewind ==
  /\ next' \in 1 .. next
  /\ next' - 1 \in DOMAIN log \cup {0}
  /\ \A r \in DOMAIN log : r < next'
  /\ UNCHANGED <<log, used, again>>

Next ==
  \/ Open
  \/ \E v \in Verdicts \cup {Garbled} : Record(v)
  \/ LeaveOut
  \/ Rewind

Spec == Init /\ [][Next]_vars

=============================================================================
