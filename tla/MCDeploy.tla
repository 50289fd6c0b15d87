------------------------------ MODULE MCDeploy ------------------------------
(* Instances of Deploy for TLC.  old is from before 0003, broken has every *)
(* migration but does not start, head is the repository.                   *)
EXTENDS Deploy, TLC

CONSTANTS old, broken, head

MCRev == [c \in Images |-> IF c = old THEN 2 ELSE Head]
MCSound == Images \ {broken}

Symmetry == Permutations(Shells)

=============================================================================
