----------------------------- MODULE MCHandover -----------------------------
(* Small instances of Handover. Pairs are alike, and so are runners.        *)
EXTENDS Handover, TLC

Alike == Permutations(Pair) \cup Permutations(Runner)

=============================================================================
