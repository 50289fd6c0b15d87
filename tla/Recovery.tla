------------------------------ MODULE Recovery ------------------------------
(***************************************************************************)
(* What the owner of an account can count on although any request, any     *)
(* mail or the whole process may fail.  The service is the one of Auth;    *)
(* here failures are counted, so that behaviours with finitely many of     *)
(* them can be told apart, and nobody asks for what is on its way already, *)
(* so that finitely many tokens suffice.                                   *)
(***************************************************************************)
EXTENDS Auth

CONSTANT MaxFailures   \* bound: failed requests, lost mails, restarts, and
                       \* delays in which links and sessions expire

VARIABLE failures

rvars == <<vars, failures>>

(* The link the owner waits for: in the mailbox, in a background task, or  *)
(* still to be made or being redeemed by a request in flight.              *)
Coming(u, purpose) ==
    \/ \E t \in TokenIds : /\ get_usable_email_token(purpose, t)
                           /\ tokens[t].user = u
                           /\ t \in mailbox \cup outbox
    \/ \E r \in Threads : /\ ~Free(r) /\ reqs[r].user = u
                          /\ reqs[r].kind # "login" /\ Purpose(r) = purpose

(* What the owner of the account keeps doing. *)
SignsIn(u) ==
    /\ users[u] # None
    /\ ~ \E j \in jwts : j.user = u /\ get_current_user(j)
    /\ \E r \in Threads : Login(r, u, users[u].pw)
AsksForVerification(u) ==
    /\ ~Coming(u, VERIFY)
    /\ \E r \in Threads, j \in jwts : j.user = u /\ ResendVerification(r, j)
Verifies(u) ==
    \E r \in Threads, t \in mailbox : /\ t \in TokensOf(u, VERIFY)
                                      /\ VerifyEmail(r, t)
AsksForReset(u) ==
    /\ ~Coming(u, RESET) /\ changes[u] = 0
    /\ \E r \in Threads : ForgotPassword(r, u)
Resets(u) ==
    \E r \in Threads, t \in mailbox, p \in Passwords :
        t \in TokensOf(u, RESET) /\ ResetPassword(r, t, p)

Clients ==
    \/ \E r \in Threads, s \in Spellings, p \in Passwords : Register(r, s, p)
    \/ \E u \in Spellings : \/ SignsIn(u)
                            \/ AsksForVerification(u) \/ Verifies(u)
                            \/ AsksForReset(u) \/ Resets(u)

MailArrives(t) == SendEmail(t) /\ t \in mailbox'
MailLost(t) == SendEmail(t) /\ t \notin mailbox'
Failure ==
    \/ \E r \in Threads : Fail(r)
    \/ \E t \in TokenIds : MailLost(t)
    \/ Crash
    \/ Tick

RecoveryInit == Init /\ failures = 0
RecoveryNext ==
    \/ /\ \/ Clients
          \/ \E r \in Threads : Step(r)
          \/ \E t \in TokenIds : MailArrives(t)
       /\ UNCHANGED failures
    \/ /\ failures < MaxFailures
       /\ Failure
       /\ failures' = failures + 1

(* The server does what it accepted; nothing is assumed of the clients. *)
RecoverySpec == RecoveryInit /\ [][RecoveryNext]_rvars /\ Fairness

(* The owner never gives up for good: what stays possible again and again  *)
(* is tried again and again.  Not promised by the code, so it is a         *)
(* hypothesis of the properties below and not part of the specification.   *)
KeepsVerifying(u) ==
    SF_vars(SignsIn(u)) /\ SF_vars(AsksForVerification(u)) /\ SF_vars(Verifies(u))
KeepsResetting(u) == SF_vars(AsksForReset(u)) /\ SF_vars(Resets(u))

(* "A bounced or delayed verification email is a nuisance, never a lockout"*)
(* (docstring of routers/auth.py): whatever fails -- the register before   *)
(* its link exists, the background task, the request that redeems the link *)
(* -- an owner who signs in, asks again and clicks gets verified.          *)
NeverALockout ==
    \A u \in Spellings : KeepsVerifying(u) =>
        (users[u] # None ~> users[u] # None /\ users[u].verified)

(* A reset that failed after it consumed its link, a lost mail or a        *)
(* restart costs the owner a further link and never the account: who keeps *)
(* asking for one and using it ends up with a new password.                *)
ResetGetsThrough ==
    \A u \in Spellings : KeepsResetting(u) =>
        (users[u] # None ~> changes[u] > 0)

=============================================================================
