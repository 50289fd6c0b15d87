----------------------------- MODULE MCRecovery -----------------------------
(* Instance of Recovery for TLC: one account.  A random token is as good   *)
(* as another, so they are generated in a fixed order.                     *)
EXTENDS Recovery

CONSTANTS
    a,           \* "a@x.com"
    TokenCount   \* bound: tokens that are ever generated

OneUser == {a}
OneUserNorm == [s \in OneUser |-> s]

Tokens == 1 .. TokenCount
InOrder == \A t \in Tokens : tokens[t] = None =>
             \A later \in Tokens : later > t => tokens[later] = None

MCRecoverySpec ==
    RecoveryInit /\ [][RecoveryNext /\ InOrder']_rvars /\ Fairness

=============================================================================
