--------------------------- MODULE MCScoreLedger ---------------------------
(* Small instances of ScoreLedger. Pairs are alike.                         *)
EXTENDS ScoreLedger, TLC

Alike == Permutations(Pair)

=============================================================================
