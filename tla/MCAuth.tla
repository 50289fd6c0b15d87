------------------------------- MODULE MCAuth -------------------------------
(* Instances of Auth for TLC. *)
EXTENDS Auth, TLC

CONSTANTS a, aUpper, b   \* "a@x.com", "A@x.com", "b@x.com"

(* One account. *)
OneUser == {a}
OneUserNorm == [s \in OneUser |-> s]

(* strip().lower(): the upper-case spelling is stored as the lower-case one. *)
TwoSpellings == {a, aUpper}
TwoSpellingsNorm == [s \in TwoSpellings |-> a]

(* Two accounts. *)
TwoUsers == {a, b}
TwoUsersNorm == [s \in TwoUsers |-> s]

(* Nothing expires: Next but for Tick. *)
Untimed ==
    \/ \E r \in Threads : Arrive(r) \/ Step(r) \/ Fail(r)
    \/ \E t \in TokenIds : SendEmail(t)
    \/ Crash
UntimedSpec == Init /\ [][Untimed]_vars

Symmetry == Permutations(Threads) \cup Permutations(TokenIds)

=============================================================================
