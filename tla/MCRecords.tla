----------------------------- MODULE MCRecords ------------------------------
(* Instances of Records for TLC. *)
EXTENDS Records, TLC

Symmetry == Permutations(Threads) \cup Permutations(Users) \cup Permutations(Keys)
              \cup Permutations(Columns) \cup Permutations(Values)

=============================================================================
