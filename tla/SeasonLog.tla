----------------------------- MODULE SeasonLog -----------------------------
(***************************************************************************)
(* What a score reset promises to whoever reads the scores, without loops, *)
(* lists, messages and runners: the rounds of a season are opened one at a *)
(* time, numbered upwards from 1, and each is left out or recorded, as the *)
(* opening it was.  The log is erased and the numbers begin again only     *)
(* while no round is open, and the numbers only once the log is empty.     *)
(*                                                                         *)
(* Nothing is promised once the log is spoilt: by a reset that meets a     *)
(* round, or by a result that outlives one.                                *)
(***************************************************************************)
EXTENDS Naturals

VARIABLES
  log,     \* the recorded rounds, by number: the opening each was
  next,    \* the number of the round that is open, or will be opened next
  open,    \* the opening under way, or 0
  opened,  \* how many there have been
  spoilt

vars == <<log, next, open, opened, spoilt>>

Empty == [n \in {} |-> 0]

Init == log = Empty /\ next = 1 /\ open = 0 /\ opened = 0 /\ ~spoilt

Open ==
  /\ open = 0
  /\ opened' = opened + 1 /\ open' = opened'
  /\ UNCHANGED <<log, next, spoilt>>

Close == open # 0 /\ open' = 0 /\ next' = next + 1 /\ UNCHANGED <<opened, spoilt>>

Record ==
  /\ Close /\ \A n \in DOMAIN log : n < next
  /\ log' = [n \in DOMAIN log \cup {next} |-> IF n = next THEN open ELSE log[n]]

LeaveOut == Close /\ UNCHANGED log

Erase == open = 0 /\ log' = Empty /\ UNCHANGED <<next, open, opened, spoilt>>

Renumber ==
  /\ open = 0 /\ log = Empty
  /\ next' = 1
  /\ UNCHANGED <<log, open, opened, spoilt>>

Spoil == spoilt'

Next == Open \/ Record \/ LeaveOut \/ Erase \/ Renumber \/ Spoil

Spec == Init /\ [][Next]_vars

=============================================================================
