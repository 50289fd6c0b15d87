-------------------------------- MODULE Auth --------------------------------
(***************************************************************************)
(* Accounts, sessions and e-mailed single-use links of the backend:        *)
(* app/routers/auth.py, app/security.py and the user and e-mail-token part *)
(* of app/crud.py, over the tables of app/models.py.                       *)
(*                                                                         *)
(* Handlers are synchronous functions that FastAPI runs in a thread pool,  *)
(* each with a database session of its own (READ COMMITTED).  A handler    *)
(* commits several times, so it is modelled as one step per statement      *)
(* whose result another thread can change or observe.  A commit expires    *)
(* the ORM objects of its session: the next access to an attribute reads   *)
(* the row again, and that read is part of the model because it decides    *)
(* which token_version a handler works with.                               *)
(***************************************************************************)
EXTENDS Integers, FiniteSets

CONSTANTS
    Threads,      \* worker threads of the process, each serving one request
    Spellings,    \* what a client can type as an e-mail address
    Norm,         \* normalize_email: spelling -> stored address
    Passwords,
    TokenIds,     \* the random e-mail tokens that can be generated (bound)
    VerifyTTL,    \* EMAIL_VERIFY_TTL_MINUTES
    ResetTTL,     \* PASSWORD_RESET_TTL_MINUTES
    JwtTTL,       \* JWT_EXPIRE_MINUTES
    MaxTime,      \* bound of the clock
    None          \* SQL NULL / Python None

ASSUME NormAssumption ==
    /\ Norm \in [Spellings -> Spellings]
    /\ \A s \in Spellings : Norm[Norm[s]] = Norm[s]

(* The thread pool that runs the handlers is finite. *)
ASSUME ThreadsAssumption == IsFiniteSet(Threads)

ASSUME TimeAssumption ==
    VerifyTTL \in Nat /\ ResetTTL \in Nat /\ JwtTTL \in Nat /\ MaxTime \in Nat

VARIABLES
    users,       \* table users: stored address -> row, or None
    tokens,      \* table email_tokens: token -> row, or None
    reqs,        \* the request each thread is serving
    jwts,        \* every access token ever handed to a client
    outbox,      \* background tasks: tokens whose mail is not sent yet
    mailbox,     \* tokens whose link arrived, or is readable in the log
    now,         \* the clock behind _utcnow()
    changes,     \* history: committed password changes per account
    overlapped,  \* history: a password change of the account was computed
                 \* from a token_version read before another change
    spent,       \* history: password changes made with each token
    outdated     \* history: reset tokens that existed when a reset that has
                 \* since changed the password was submitted

vars == <<users, tokens, reqs, jwts, outbox, mailbox, now,
          changes, overlapped, spent, outdated>>
history == <<changes, overlapped, spent, outdated>>

-----------------------------------------------------------------------------
(* Rows and requests. *)

VERIFY == "verify_email"
RESET  == "password_reset"

User       == [pw : Passwords, ver : Nat, verified : BOOLEAN]
EmailToken == [user : Spellings, purpose : {VERIFY, RESET},
               used : BOOLEAN, exp : Nat]
Jwt        == [user : Spellings, ver : Nat, exp : Nat, asof : Nat]

(* NULL is no address, password or token, and no row. *)
ASSUME NoneAssumption ==
    /\ None \notin Spellings /\ None \notin Passwords /\ None \notin TokenIds
    /\ None \notin User /\ None \notin EmailToken

(* "asof" is history: how many password changes the account had seen when  *)
(* the row behind "ver" was read.  The other fields are the handler's      *)
(* local variables: pw is the password of the request body, hash the hash  *)
(* that login found in the row, seen the rows invalidate_email_tokens      *)
(* selected, older (history) the reset tokens of the account at submission.*)
Kinds == {"none", "register", "login", "verify", "resend", "forgot", "reset"}
PCs   == {"idle", "create", "bcrypt", "consume", "reload", "select", "retire",
          "reread", "issue", "password", "refresh", "mark", "answer"}
RequestType ==
    [kind : Kinds, pc : PCs, user : Spellings \cup {None},
     pw : Passwords \cup {None}, hash : Passwords \cup {None},
     ver : Nat, asof : Nat, token : TokenIds \cup {None},
     seen : SUBSET TokenIds, older : SUBSET TokenIds]

(* A request that starts; what its action does not set is not read yet. *)
Begin(kind, pc, user) ==
    [kind |-> kind, pc |-> pc, user |-> user, pw |-> None,
     hash |-> None, ver |-> 0, asof |-> 0, token |-> None,
     seen |-> {}, older |-> {}]

Idle == Begin("none", "idle", None)
Free(r) == reqs[r] = Idle
At(r, pc) == reqs[r].pc = pc

(* Tokens of one account and purpose. *)
TokensOf(u, purpose) ==
    {t \in TokenIds : tokens[t] # None /\ tokens[t].user = u
                                       /\ tokens[t].purpose = purpose}
Outstanding(u, purpose) == {t \in TokensOf(u, purpose) : ~tokens[t].used}

(* get_usable_email_token: right purpose, unused, not expired. *)
UsableTwice(purpose, t) ==
    /\ tokens[t] # None
    /\ tokens[t].purpose = purpose
    /\ tokens[t].exp > now
get_usable_email_token(purpose, t) ==
    /\ tokens[t] # None
    /\ tokens[t].purpose = purpose
    /\ ~tokens[t].used
    /\ tokens[t].exp > now

(* get_current_user: signature and expiry of the JWT, the user exists and  *)
(* the session generation matches.                                         *)
get_current_user(j) ==
    /\ j.exp > now
    /\ users[j.user] # None
    /\ j.ver = users[j.user].ver

(* create_access_token and token_for: a JWT with the version last read. *)
token_for(u, ver, asof) ==
    [user |-> u, ver |-> ver, exp |-> now + JwtTTL, asof |-> asof]

(* Bound: a handler that will generate a token finds one left. *)
WillIssue(r) == /\ reqs[r].kind \in {"register", "forgot", "resend"}
                /\ reqs[r].pc \in {"create", "select", "retire", "issue"}
TokenLeft == Cardinality({r \in Threads : WillIssue(r)})
               < Cardinality({t \in TokenIds : tokens[t] = None})

-----------------------------------------------------------------------------
Init ==
    /\ users = [s \in Spellings |-> None]
    /\ tokens = [t \in TokenIds |-> None]
    /\ reqs = [r \in Threads |-> Idle]
    /\ jwts = {} /\ outbox = {} /\ mailbox = {} /\ now = 0
    /\ changes = [s \in Spellings |-> 0]
    /\ overlapped = [s \in Spellings |-> FALSE]
    /\ spent = [t \in TokenIds |-> 0]
    /\ outdated = {}

-----------------------------------------------------------------------------
(* Requests arrive.  A request that a check turns away before its first    *)
(* write (409, 401, 400, 202 for an unknown address, 429 of the limiter)   *)
(* changes nothing: it is a stuttering step.                               *)

(* register: 409 if the address is taken, else on to create_user. *)
RegisterRaw(r, s, p) ==
    /\ Free(r) /\ TokenLeft
    /\ users[s] = None
    /\ reqs' = [reqs EXCEPT ![r] = [Begin("register", "create", s)
                                      EXCEPT !.pw = p]]
    /\ UNCHANGED <<users, tokens, jwts, outbox, mailbox, now, history>>
Register(r, s, p) ==
    /\ Free(r) /\ TokenLeft
    /\ users[Norm[s]] = None
    /\ reqs' = [reqs EXCEPT ![r] = [Begin("register", "create", Norm[s])
                                      EXCEPT !.pw = p]]
    /\ UNCHANGED <<users, tokens, jwts, outbox, mailbox, now, history>>

(* login: one SELECT reads the hash and the session generation together. *)
LoginVerified(r, s, p) ==
    /\ Free(r)
    /\ users[Norm[s]] # None /\ users[Norm[s]].verified
    /\ reqs' = [reqs EXCEPT ![r] = [Begin("login", "bcrypt", Norm[s])
                    EXCEPT !.pw = p, !.hash = users[Norm[s]].pw,
                           !.ver = users[Norm[s]].ver, !.asof = changes[Norm[s]]]]
    /\ UNCHANGED <<users, tokens, jwts, outbox, mailbox, now, history>>
Login(r, s, p) ==
    /\ Free(r)
    /\ users[Norm[s]] # None
    /\ reqs' = [reqs EXCEPT ![r] = [Begin("login", "bcrypt", Norm[s])
                    EXCEPT !.pw = p, !.hash = users[Norm[s]].pw,
                           !.ver = users[Norm[s]].ver, !.asof = changes[Norm[s]]]]
    /\ UNCHANGED <<users, tokens, jwts, outbox, mailbox, now, history>>

(* forgot_password for an address that has an account. *)
ForgotPasswordOnce(r, s) ==
    /\ Free(r) /\ TokenLeft
    /\ users[Norm[s]] # None
    /\ TokensOf(Norm[s], RESET) = {}
    /\ reqs' = [reqs EXCEPT ![r] = Begin("forgot", "select", Norm[s])]
    /\ UNCHANGED <<users, tokens, jwts, outbox, mailbox, now, history>>
ForgotPassword(r, s) ==
    /\ Free(r) /\ TokenLeft
    /\ users[Norm[s]] # None
    /\ reqs' = [reqs EXCEPT ![r] = Begin("forgot", "select", Norm[s])]
    /\ UNCHANGED <<users, tokens, jwts, outbox, mailbox, now, history>>

(* resend_verification: a signed-in user whose address is not verified. *)
ResendVerification(r, j) ==
    /\ Free(r) /\ TokenLeft
    /\ get_current_user(j)
    /\ ~users[j.user].verified
    /\ reqs' = [reqs EXCEPT ![r] = Begin("resend", "select", j.user)]
    /\ UNCHANGED <<users, tokens, jwts, outbox, mailbox, now, history>>

(* verify_email: a link out of the mailbox passes the check. *)
VerifyEmail(r, t) ==
    /\ Free(r)
    /\ get_usable_email_token(VERIFY, t)
    /\ users[tokens[t].user] # None
    /\ reqs' = [reqs EXCEPT ![r] = [Begin("verify", "consume", tokens[t].user)
                                      EXCEPT !.token = t]]
    /\ UNCHANGED <<users, tokens, jwts, outbox, mailbox, now, history>>

(* reset_password: a link out of the mailbox passes the check. *)
ResetPassword(r, t, p) ==
    /\ Free(r)
    /\ get_usable_email_token(RESET, t)
    /\ users[tokens[t].user] # None
    /\ reqs' = [reqs EXCEPT ![r] = [Begin("reset", "consume", tokens[t].user)
                    EXCEPT !.token = t, !.pw = p,
                           !.older = TokensOf(tokens[t].user, RESET)]]
    /\ UNCHANGED <<users, tokens, jwts, outbox, mailbox, now, history>>

-----------------------------------------------------------------------------
(* Steps of a request in flight. *)

(* create_user: the unique index on users.email turns the loser of a race  *)
(* into an IntegrityError, which ends the request with a 500.              *)
CreateUserNoIndex(r) ==
    LET u == reqs[r].user IN
    /\ At(r, "create")
    /\ users' = [users EXCEPT ![u] =
                    [pw |-> reqs[r].pw, ver |-> 0, verified |-> FALSE]]
    /\ reqs' = [reqs EXCEPT ![r].pc = "select"]
    /\ UNCHANGED <<tokens, jwts, outbox, mailbox, now, history>>
CreateUser(r) ==
    LET u == reqs[r].user IN
    /\ At(r, "create")
    /\ \/ /\ users[u] = None
          /\ users' = [users EXCEPT ![u] =
                          [pw |-> reqs[r].pw, ver |-> 0, verified |-> FALSE]]
          /\ reqs' = [reqs EXCEPT ![r].pc = "select"]
       \/ /\ users[u] # None
          /\ reqs' = [reqs EXCEPT ![r] = Idle]
          /\ UNCHANGED users
    /\ UNCHANGED <<tokens, jwts, outbox, mailbox, now, history>>

(* The rest of login: bcrypt against the hash read before, then a token    *)
(* with the generation read before.                                        *)
VerifyPasswordReread(r) ==
    LET u == reqs[r].user IN
    /\ At(r, "bcrypt")
    /\ jwts' = jwts \cup (IF reqs[r].pw = reqs[r].hash
                          THEN {token_for(u, users[u].ver, reqs[r].asof)} ELSE {})
    /\ reqs' = [reqs EXCEPT ![r] = Idle]
    /\ UNCHANGED <<users, tokens, outbox, mailbox, now, history>>
VerifyPassword(r) ==
    /\ At(r, "bcrypt")
    /\ jwts' = jwts \cup
         (IF reqs[r].pw = reqs[r].hash
          THEN {token_for(reqs[r].user, reqs[r].ver, reqs[r].asof)} ELSE {})
    /\ reqs' = [reqs EXCEPT ![r] = Idle]
    /\ UNCHANGED <<users, tokens, outbox, mailbox, now, history>>

(* consume_email_token *)
ConsumeNothing(r) ==
    /\ At(r, "consume")
    /\ reqs' = [reqs EXCEPT ![r].pc =
                    IF reqs[r].kind = "reset" THEN "reload" ELSE "refresh"]
    /\ UNCHANGED <<users, tokens, jwts, outbox, mailbox, now, history>>
ConsumeEmailToken(r) ==
    /\ At(r, "consume")
    /\ tokens' = [tokens EXCEPT ![reqs[r].token].used = TRUE]
    /\ reqs' = [reqs EXCEPT ![r].pc =
                    IF reqs[r].kind = "reset" THEN "reload" ELSE "refresh"]
    /\ UNCHANGED <<users, jwts, outbox, mailbox, now, history>>

(* The commit of consume_email_token expired the user: "user.id" in the    *)
(* call of invalidate_email_tokens reads the whole row again.              *)
ReloadUser(r) ==
    LET u == reqs[r].user IN
    /\ At(r, "reload")
    /\ reqs' = [reqs EXCEPT ![r].ver = users[u].ver, ![r].asof = changes[u],
                            ![r].pc = "select"]
    /\ UNCHANGED <<users, tokens, jwts, outbox, mailbox, now, history>>

(* invalidate_email_tokens: the SELECT, and the commit when it found rows. *)
Purpose(r) == IF reqs[r].kind \in {"forgot", "reset"} THEN RESET ELSE VERIFY
AfterRetire(r, committed) ==
    IF reqs[r].kind # "reset" THEN "issue"
    ELSE IF committed THEN "reread" ELSE "password"
InvalidateSelect(r) ==
    LET rows == Outstanding(reqs[r].user, Purpose(r)) IN
    /\ At(r, "select")
    /\ reqs' = [reqs EXCEPT ![r].seen = rows,
                   ![r].pc = IF rows # {} THEN "retire" ELSE AfterRetire(r, FALSE)]
    /\ UNCHANGED <<users, tokens, jwts, outbox, mailbox, now, history>>
InvalidateNothing(r) ==
    /\ At(r, "retire")
    /\ reqs' = [reqs EXCEPT ![r].pc = AfterRetire(r, TRUE)]
    /\ UNCHANGED <<users, tokens, jwts, outbox, mailbox, now, history>>
InvalidateCommit(r) ==
    /\ At(r, "retire")
    /\ tokens' = [t \in TokenIds |-> IF t \in reqs[r].seen
                                     THEN [tokens[t] EXCEPT !.used = TRUE]
                                     ELSE tokens[t]]
    /\ reqs' = [reqs EXCEPT ![r].pc = AfterRetire(r, TRUE)]
    /\ UNCHANGED <<users, jwts, outbox, mailbox, now, history>>

(* That commit expired the user again: set_password reads the row again. *)
RereadUser(r) ==
    LET u == reqs[r].user IN
    /\ At(r, "reread")
    /\ reqs' = [reqs EXCEPT ![r].ver = users[u].ver, ![r].asof = changes[u],
                            ![r].pc = "password"]
    /\ UNCHANGED <<users, tokens, jwts, outbox, mailbox, now, history>>

(* create_email_token: a fresh random token, stored before it is mailed. *)
CreateEmailToken(r, t) ==
    /\ At(r, "issue")
    /\ tokens[t] = None
    /\ tokens' = [tokens EXCEPT ![t] =
          [user |-> reqs[r].user, purpose |-> Purpose(r), used |-> FALSE,
           exp |-> now + (IF Purpose(r) = RESET THEN ResetTTL ELSE VerifyTTL)]]
    /\ reqs' = [reqs EXCEPT ![r].pc = "refresh", ![r].token = t]
    /\ UNCHANGED <<users, jwts, outbox, mailbox, now, history>>

(* set_password: the new hash, and the version read before plus one. *)
PasswordHistory(r) ==
    LET u == reqs[r].user IN
    /\ changes' = [changes EXCEPT ![u] = @ + 1]
    /\ overlapped' = [overlapped EXCEPT ![u] = @ \/ reqs[r].asof # changes[u]]
    /\ spent' = [spent EXCEPT ![reqs[r].token] = @ + 1]
    /\ outdated' = outdated \cup reqs[r].older
SetPasswordNoBump(r) ==
    /\ At(r, "password")
    /\ users' = [users EXCEPT ![reqs[r].user].pw = reqs[r].pw]
    /\ PasswordHistory(r)
    /\ reqs' = [reqs EXCEPT ![r].pc = "refresh"]
    /\ UNCHANGED <<tokens, jwts, outbox, mailbox, now>>
SetPassword(r) ==
    /\ At(r, "password")
    /\ users' = [users EXCEPT ![reqs[r].user].pw = reqs[r].pw,
                              ![reqs[r].user].ver = reqs[r].ver + 1]
    /\ PasswordHistory(r)
    /\ reqs' = [reqs EXCEPT ![r].pc = "refresh"]
    /\ UNCHANGED <<tokens, jwts, outbox, mailbox, now>>

(* The row is read once more: by session.refresh after set_password and    *)
(* mark_email_verified, and on the next access to an attribute after       *)
(* create_email_token and consume_email_token.  mark_email_verified writes *)
(* only when it finds the address unverified.                              *)
RefreshUser(r) ==
    LET u == reqs[r].user IN
    /\ At(r, "refresh")
    /\ reqs' = [reqs EXCEPT ![r].ver = users[u].ver, ![r].asof = changes[u],
                   ![r].pc = IF reqs[r].kind \in {"verify", "reset"}
                                 /\ ~users[u].verified THEN "mark" ELSE "answer"]
    /\ UNCHANGED <<users, tokens, jwts, outbox, mailbox, now, history>>

MarkEmailVerified(r) ==
    /\ At(r, "mark")
    /\ users' = [users EXCEPT ![reqs[r].user].verified = TRUE]
    /\ reqs' = [reqs EXCEPT ![r].pc = "refresh"]
    /\ UNCHANGED <<tokens, jwts, outbox, mailbox, now, history>>

(* The end of every handler but login.  Background tasks start once the    *)
(* response is made: the mail with the new link, ...                       *)
VerificationMail(r) == IF reqs[r].kind \in {"register", "resend"}
                       THEN {reqs[r].token} ELSE {}
PasswordResetMail(r) == IF reqs[r].kind = "forgot" THEN {reqs[r].token} ELSE {}
(* ... and the response of register and reset_password is a token with the *)
(* version that was read last.                                             *)
RegisterResponse(r) ==
    IF reqs[r].kind = "register"
    THEN {token_for(reqs[r].user, reqs[r].ver, reqs[r].asof)} ELSE {}
ResetResponse(r) ==
    IF reqs[r].kind = "reset"
    THEN {token_for(reqs[r].user, reqs[r].ver, reqs[r].asof)} ELSE {}
Answer(r) ==
    /\ At(r, "answer")
    /\ outbox' = outbox \cup VerificationMail(r) \cup PasswordResetMail(r)
    /\ jwts' = jwts \cup RegisterResponse(r) \cup ResetResponse(r)
    /\ reqs' = [reqs EXCEPT ![r] = Idle]
    /\ UNCHANGED <<users, tokens, mailbox, now, history>>

-----------------------------------------------------------------------------
(* The environment: mail, failures, time. *)

(* send_email as a background task, by the sender that is configured: the  *)
(* console sender prints the message, link and all, where its reader can   *)
(* follow it; with SMTP a transport failure is logged and the mail is gone.*)
ConsoleEmailSender(t) == mailbox' = mailbox \cup {t}
SmtpEmailSender(t) == UNCHANGED mailbox \/ mailbox' = mailbox \cup {t}
SendEmail(t) ==
    /\ t \in outbox
    /\ outbox' = outbox \ {t}
    /\ ConsoleEmailSender(t) \/ SmtpEmailSender(t)
    /\ UNCHANGED <<users, tokens, reqs, jwts, now, history>>

(* A database error ends one request with a 500; what it committed stays. *)
Fail(r) ==
    /\ ~Free(r)
    /\ reqs' = [reqs EXCEPT ![r] = Idle]
    /\ UNCHANGED <<users, tokens, jwts, outbox, mailbox, now, history>>

(* The process dies and is restarted: requests and unsent mail are lost. *)
Crash ==
    /\ \/ \E r \in Threads : ~Free(r)
       \/ outbox # {}
    /\ reqs' = [r \in Threads |-> Idle]
    /\ outbox' = {}
    /\ UNCHANGED <<users, tokens, jwts, mailbox, now, history>>

Tick ==
    /\ now < MaxTime
    /\ now' = now + 1
    /\ UNCHANGED <<users, tokens, reqs, jwts, outbox, mailbox, history>>

-----------------------------------------------------------------------------
Step(r) ==
    \/ CreateUser(r)
    \/ VerifyPassword(r)
    \/ ConsumeEmailToken(r)
    \/ ReloadUser(r)
    \/ InvalidateSelect(r)
    \/ InvalidateCommit(r)
    \/ RereadUser(r)
    \/ \E t \in TokenIds : CreateEmailToken(r, t)
    \/ SetPassword(r)
    \/ RefreshUser(r)
    \/ MarkEmailVerified(r)
    \/ Answer(r)

Arrive(r) ==
    \/ \E s \in Spellings, p \in Passwords : Register(r, s, p) \/ Login(r, s, p)
    \/ \E s \in Spellings : ForgotPassword(r, s)
    \/ \E j \in jwts : ResendVerification(r, j)
    \/ \E t \in mailbox : VerifyEmail(r, t)
    \/ \E t \in mailbox, p \in Passwords : ResetPassword(r, t, p)

Next ==
    \/ \E r \in Threads : Arrive(r) \/ Step(r) \/ Fail(r)
    \/ \E t \in TokenIds : SendEmail(t)
    \/ Crash
    \/ Tick

Spec == Init /\ [][Next]_vars

(* The thread pool keeps running every request it accepted, and the        *)
(* background tasks after it; nothing makes clients or the clock move.     *)
Fairness ==
    /\ \A r \in Threads : WF_vars(Step(r))
    /\ \A t \in TokenIds : WF_vars(SendEmail(t))

-----------------------------------------------------------------------------
(* Properties. *)

(* Types of the tables, the requests in flight and the history. *)
TypeOK ==
    /\ users \in [Spellings -> User \cup {None}]
    /\ tokens \in [TokenIds -> EmailToken \cup {None}]
    /\ reqs \in [Threads -> RequestType]
    /\ jwts \subseteq Jwt
    /\ outbox \subseteq TokenIds /\ mailbox \subseteq TokenIds
    /\ now \in Nat
    /\ changes \in [Spellings -> Nat]
    /\ overlapped \in [Spellings -> BOOLEAN]
    /\ spent \in [TokenIds -> Nat]
    /\ outdated \subseteq TokenIds

(* A password change ends every other session (set_password bumps          *)
(* token_version, get_current_user compares it): unless two resets of the  *)
(* account overlapped, a JWT that is still accepted carries a generation   *)
(* read after the last committed password change.  This covers a login     *)
(* whose bcrypt was running while a reset committed.                       *)
SessionsDie ==
    \A j \in jwts :
        ~overlapped[j.user] /\ get_current_user(j) => j.asof = changes[j.user]

(* Once a reset has changed the password, no reset link of the account     *)
(* that existed when the reset was submitted can ever pass                 *)
(* get_usable_email_token again (reset_password consumes its own and       *)
(* retires the others; nothing clears used_at), whatever ran in between.   *)
OlderLinksDead ==
    \A t \in outdated : ~get_usable_email_token(RESET, t)

(* email_verified_at is only set for an account to which a link was sent   *)
(* that arrived and was redeemed (verify_email, reset_password).           *)
VerifiedMeansMailedLink ==
    \A u \in Spellings : users[u] # None /\ users[u].verified =>
        \E t \in mailbox : tokens[t] # None /\ tokens[t].user = u /\ tokens[t].used

(* Two spellings of one address never become two accounts                  *)
(* (normalize_email, the unique index, and the race between two registers).*)
OneAccountPerAddress ==
    \A s1, s2 \in Spellings :
        users[s1] # None /\ users[s2] # None /\ Norm[s1] = Norm[s2] => s1 = s2

(* What a step may do to an account: rows never vanish, verification is    *)
(* never withdrawn, and the password or generation of an existing account  *)
(* changes only in set_password of a reset that holds a consumed reset     *)
(* link mailed to that very account -- not by a second register that lost  *)
(* its race, and not by a verification link.                               *)
AccountChange ==
    \A u \in Spellings : users[u] # None =>
        /\ users'[u] # None
        /\ users[u].verified => users'[u].verified
        /\ (users'[u].pw # users[u].pw \/ users'[u].ver # users[u].ver) =>
              \E r \in Threads :
                  /\ reqs[r].kind = "reset" /\ reqs[r].pc = "password"
                  /\ reqs[r].user = u
                  /\ reqs[r].token \in TokensOf(u, RESET) \cap mailbox
                  /\ tokens[reqs[r].token].used
AccountChangesOnlyByReset == [][AccountChange]_vars

(* email_tokens documents its rows as single-use: one reset link changes   *)
(* the password at most once.                                              *)
SingleUse == \A t \in TokenIds : spent[t] <= 1

(* A reset "invalidates every JWT issued before this moment" (docstring of *)
(* reset_password): SessionsDie with no exception for overlapping resets.  *)
ResetEndsEverySession ==
    \A j \in jwts : get_current_user(j) => j.asof = changes[j.user]

(* "a mailbox never holds two live reset links" (invalidate_email_tokens), *)
(* up to races: requests that overlap each keep the link they made, so an  *)
(* account has at most one live reset link per worker thread, however many *)
(* requests for one there were, failed or not; one thread alone, one link. *)
LiveLinksBounded ==
    \A u \in Spellings :
        Cardinality({t \in TokenIds : get_usable_email_token(RESET, t)
                                        /\ tokens[t].user = u}) <= Cardinality(Threads)

(* A link of the account that changes the password belongs to one reset at *)
(* a time, and so does a whole account: what clients would have to respect *)
(* for the two claims above, and what two worker threads need not respect. *)
Resetting == {"consume", "reload", "select", "retire", "reread", "password"}
LinksRedeemedApart ==
    \A r1, r2 \in Threads :
        /\ reqs[r1].kind = "reset" /\ reqs[r1].pc \in Resetting
        /\ reqs[r2].kind = "reset" /\ reqs[r2].pc \in Resetting
        /\ reqs[r1].token = reqs[r2].token
        => r1 = r2
ResetsApart ==
    \A r1, r2 \in Threads :
        /\ reqs[r1].kind = "reset" /\ reqs[r1].pc \in Resetting
        /\ reqs[r2].kind = "reset" /\ reqs[r2].pc \in Resetting
        /\ reqs[r1].user = reqs[r2].user
        => r1 = r2

(* Both claims hold for as long as clients respect that, however many      *)
(* threads there are and whatever else overlaps, fails or expires.         *)
LinksAreSpentOnce == []LinksRedeemedApart => []SingleUse
ResetsEndSessions == []ResetsApart => []ResetEndsEverySession

(* However requests overlap, the JWTs behave like the sessions that are    *)
(* promised: a password change ends all those of its account at once, and  *)
(* a dead session stays dead, unless two changes of that very account      *)
(* raced (then only the sessions of the other accounts are safe).          *)
Session == INSTANCE Sessions WITH
    Users <- Spellings, issued <- jwts, raced <- overlapped,
    live <- {j \in jwts : get_current_user(j)}, generation <- changes
ImplementsSessions == Session!Spec

=============================================================================
