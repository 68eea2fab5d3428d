------------------------------ MODULE MCJournal ------------------------------
(* Small journals for TLC. *)
EXTENDS Journal, TLC

CONSTANTS j1, j2, k1, k2, d1, d2

Symmetry == Permutations({j1, j2}) \cup Permutations({k1, k2}) \cup Permutations({d1, d2})

=============================================================================
