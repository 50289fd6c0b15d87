--------------------------- MODULE MCRateLimiter ----------------------------
(* Instances of RateLimiter for TLC. *)
EXTENDS RateLimiter, TLC

CONSTANTS x, y

(* What a client may put into X-Forwarded-For: another client's address,   *)
(* or a blank entry.                                                       *)
MCHeaders == {<<x>>, <<y>>, <<Blank>>}

Symmetry == Permutations(Threads) \cup Permutations(Peers)

=============================================================================
