------------------------------ MODULE Sessions ------------------------------
(***************************************************************************)
(* What token_version and reset_password promise of sessions ("invalidates *)
(* every JWT issued before this moment", app/routers/auth.py): a session   *)
(* is accepted from the moment it is issued until it expires or the        *)
(* password of its account changes, and never again after that.  Two       *)
(* changes of one account that race void the promise for that account.     *)
(***************************************************************************)
EXTENDS Naturals

CONSTANTS Users

VARIABLES
    issued,       \* every session ever handed out; s.user is its account
    live,         \* the sessions that are accepted
    generation,   \* account -> number of password changes
    raced         \* account -> did two of its password changes race

vars == <<issued, live, generation, raced>>

Init == /\ issued = {} /\ live = {}
        /\ generation = [u \in Users |-> 0]
        /\ raced = [u \in Users |-> FALSE]

Of(u, S) == {s \in S : s.user = u}

(* A new session; it may be dead on arrival, but it revives no other. *)
SignIn ==
    /\ \E s \in issued' : issued' = issued \cup {s} /\ live' \in {live, live \cup {s}}
    /\ UNCHANGED <<generation, raced>>

(* Of no other account does a session end or return. *)
PasswordChange(u) ==
    /\ generation' = [generation EXCEPT ![u] = @ + 1]
    /\ raced' \in {raced, [raced EXCEPT ![u] = TRUE]}
    /\ live' \ Of(u, live') = live \ Of(u, live)
    /\ Of(u, live') \subseteq issued
    /\ ~raced'[u] => Of(u, live') = {}
    /\ UNCHANGED issued

Expire ==
    /\ live' \subseteq live
    /\ UNCHANGED <<issued, generation, raced>>

Next == SignIn \/ Expire \/ \E u \in Users : PasswordChange(u)

Spec == Init /\ [][Next]_vars

=============================================================================
