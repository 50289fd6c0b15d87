----------------------------- MODULE AuthProofs -----------------------------
(***************************************************************************)
(* Proofs about Auth for every set of threads, addresses, passwords and    *)
(* tokens.  The inductive invariant Inv says what a request in flight      *)
(* knows at each point of its handler (RequestOK), how the stored version  *)
(* relates to the number of password changes (RowsOK), and what a handed   *)
(* out JWT carries (JwtsOK).  How many links can be live (LinksOK) and how *)
(* often one can be redeemed (SpentOK) are invariants on top of Inv, and   *)
(* so is what holds while redemptions of one link (OnceOK) or resets of    *)
(* one account (SerialOK) do not overlap.                                  *)
(***************************************************************************)
EXTENDS Auth, FiniteSetTheorems, TLAPS

Issuers == {"register", "forgot", "resend"}

(* What a request that is served by a thread may rely on. *)
RequestOK(q) ==
    \/ q.pc = "idle" /\ q.kind = "none"
    \/ /\ q.user \in Spellings /\ q.kind # "none" /\ q.pc # "idle"
       /\ Norm[q.user] = q.user
       /\ q.pc = "create" => q.kind = "register"
       /\ q.pc # "create" => users[q.user] # None
       /\ q.kind \in {"register", "reset"} => q.pw \in Passwords
       /\ ~overlapped[q.user] => q.ver = q.asof
       /\ q.pc = "bcrypt" => q.kind = "login"
       /\ q.pc \in {"consume", "mark"} => q.kind \in {"verify", "reset"}
       /\ q.pc \in {"reload", "reread", "password"} => q.kind = "reset"
       /\ q.pc = "issue" => q.kind \in Issuers
       /\ q.pc \in {"select", "retire"} => q.kind \in Issuers \cup {"reset"}
       /\ q.pc \in {"refresh", "answer"} => q.token \in TokenIds
       /\ q.kind \in {"verify", "reset"} =>
            /\ q.token \in mailbox
            /\ tokens[q.token] # None
            /\ tokens[q.token].user = q.user
            /\ tokens[q.token].purpose = IF q.kind = "reset" THEN RESET ELSE VERIFY
            /\ q.pc # "consume" => tokens[q.token].used
       /\ \A t \in q.seen \cup q.older : tokens[t] # None
       /\ q.kind = "reset" => \A t \in q.older : tokens[t].user = q.user
                                              /\ tokens[t].purpose = RESET
       /\ q.kind = "reset" /\ q.pc = "retire" =>
            \A t \in q.older : tokens[t].used \/ t \in q.seen
       /\ q.kind = "reset" /\ q.pc \in {"reread", "password"} =>
            \A t \in q.older : tokens[t].used

RequestsOK == \A r \in Threads : RequestOK(reqs[r])

RowsOK ==
    \A u \in Spellings :
        /\ users[u] = None => changes[u] = 0
        /\ users[u] # None => Norm[u] = u
        /\ users[u] # None /\ ~overlapped[u] => users[u].ver = changes[u]

JwtsOK == \A j \in jwts : /\ users[j.user] # None
                          /\ ~overlapped[j.user] => j.ver = j.asof

OutdatedOK == \A t \in outdated : tokens[t] # None /\ tokens[t].used

TokensOK == \A t \in TokenIds : tokens[t] # None => users[tokens[t].user] # None

Inv == /\ TypeOK /\ RequestsOK /\ RowsOK /\ JwtsOK /\ OutdatedOK /\ TokensOK
       /\ VerifiedMeansMailedLink

-----------------------------------------------------------------------------
(* What no step undoes: accounts and tokens stay, tokens keep their owner  *)
(* and purpose, and used_at, mail and overlap are never taken back.        *)
Progress ==
    /\ \A u \in Spellings : users[u] # None => users'[u] # None
    /\ \A t \in TokenIds : tokens[t] # None =>
         /\ tokens'[t] # None
         /\ tokens'[t].user = tokens[t].user
         /\ tokens'[t].purpose = tokens[t].purpose
         /\ tokens[t].used => tokens'[t].used
    /\ mailbox \subseteq mailbox'
    /\ \A u \in Spellings : overlapped[u] => overlapped'[u]

(* A request that a step leaves alone keeps what it relies on. *)
LEMMA OtherRequests ==
    ASSUME TypeOK, Progress, NEW s \in Threads, RequestOK(reqs[s]),
           reqs'[s] = reqs[s]
    PROVE  RequestOK(reqs[s])'
<1>1. CASE reqs[s].pc = "idle"
  BY <1>1 DEF RequestOK
<1>2. CASE reqs[s].pc # "idle"
  <2> DEFINE q == reqs[s]
  <2>1. q \in RequestType
    BY DEF TypeOK
  <2>2. /\ q.seen \subseteq TokenIds /\ q.older \subseteq TokenIds
        /\ mailbox \subseteq TokenIds
    BY <2>1 DEF RequestType, TypeOK
  <2> QED
    BY <1>2, <2>1, <2>2 DEF RequestOK, Progress
<1> QED BY <1>1, <1>2

(* A step of one request: the others are covered by OtherRequests. *)
LEMMA Frame ==
    ASSUME TypeOK, RequestsOK, Progress, NEW r \in Threads,
           \A s \in Threads \ {r} : reqs'[s] = reqs[s],
           RequestOK(reqs[r])'
    PROVE  RequestsOK'
<1> SUFFICES ASSUME NEW s \in Threads PROVE RequestOK(reqs[s])'
  BY DEF RequestsOK
<1>1. CASE s = r
  BY <1>1
<1>2. CASE s # r
  BY <1>2, OtherRequests DEF RequestsOK
<1> QED BY <1>1, <1>2

(* The invariant holds when the service starts on an empty database. *)
LEMMA InitInv == Init => Inv
<1> SUFFICES ASSUME Init PROVE Inv
  OBVIOUS
<1>1. Idle \in RequestType
  BY DEF Idle, Begin, RequestType, Kinds, PCs
<1>2. TypeOK
  BY <1>1 DEF Init, TypeOK
<1>3. RequestsOK
  BY DEF Init, RequestsOK, RequestOK, Idle, Begin
<1> QED
  BY <1>2, <1>3 DEF Init, Inv, RowsOK, JwtsOK, OutdatedOK, TokensOK,
                    VerifiedMeansMailedLink

(* A step that only changes the request of one thread. *)
LEMMA OnlyRequest ==
    ASSUME Inv, NEW r \in Threads,
           reqs' \in [Threads -> RequestType],
           \A s \in Threads \ {r} : reqs'[s] = reqs[s],
           RequestOK(reqs[r])',
           UNCHANGED <<users, tokens, jwts, outbox, mailbox, now, history>>
    PROVE  Inv'
<1>1. Progress
  BY DEF Progress, history, Inv
<1>2. TypeOK'
  BY DEF Inv, TypeOK, history
<1>3. RequestsOK'
  BY <1>1, Frame DEF Inv
<1>4. RowsOK' /\ JwtsOK' /\ OutdatedOK' /\ TokensOK' /\ VerifiedMeansMailedLink'
  BY DEF Inv, history, RowsOK, JwtsOK, OutdatedOK, TokensOK, VerifiedMeansMailedLink
<1> QED BY <1>2, <1>3, <1>4 DEF Inv

(* Filling in local variables of a request keeps its type. *)
LEMMA RequestWithRow ==
    ASSUME NEW b \in RequestType, NEW p \in Passwords, NEW h \in Passwords,
           NEW v \in Nat, NEW n \in Nat
    PROVE  [b EXCEPT !.pw = p, !.hash = h, !.ver = v, !.asof = n] \in RequestType
BY DEF RequestType

(* A request that picked its link is a request.                            *)
LEMMA RequestWithToken ==
    ASSUME NEW b \in RequestType, NEW p \in Passwords, NEW t \in TokenIds,
           NEW S \in SUBSET TokenIds
    PROVE  [b EXCEPT !.token = t, !.pw = p, !.older = S] \in RequestType
BY DEF RequestType

(* Requests that arrive. *)
LEMMA ArriveInv ==
    ASSUME Inv, NEW r \in Threads, Arrive(r)
    PROVE  Inv'
<1>0. \A k \in Kinds, pc \in PCs, u \in Spellings : Begin(k, pc, u) \in RequestType
  BY DEF Begin, RequestType
<1>i. /\ users \in [Spellings -> User \cup {None}]
      /\ tokens \in [TokenIds -> EmailToken \cup {None}]
      /\ reqs \in [Threads -> RequestType]
      /\ jwts \subseteq Jwt /\ mailbox \subseteq TokenIds
      /\ changes \in [Spellings -> Nat]
      /\ RowsOK
  BY DEF Inv, TypeOK
<1>n. \A s \in Spellings : Norm[s] \in Spellings /\ Norm[Norm[s]] = Norm[s]
  BY NormAssumption
<1> DEFINE others == \A s \in Threads \ {r} : reqs'[s] = reqs[s]
           still == UNCHANGED <<users, tokens, jwts, outbox, mailbox, now, history>>
<1>1. ASSUME NEW s \in Spellings, NEW p \in Passwords, Register(r, s, p)
      PROVE  Inv'
  <2>1. /\ reqs' \in [Threads -> RequestType] /\ others /\ still
    BY <1>0, <1>1, <1>i, <1>n DEF Register, Begin, RequestType, Kinds, PCs
  <2>2. RequestOK(reqs[r])'
    BY <1>1, <1>i, <1>n DEF Register, Begin, RequestOK, Issuers
  <2> QED BY <2>1, <2>2, OnlyRequest
<1>2. ASSUME NEW s \in Spellings, NEW p \in Passwords, Login(r, s, p)
      PROVE  Inv'
  <2>0. users[Norm[s]] \in User /\ changes[Norm[s]] \in Nat
    BY <1>2, <1>i, <1>n DEF Login
  <2> DEFINE q == [Begin("login", "bcrypt", Norm[s])
                    EXCEPT !.pw = p, !.hash = users[Norm[s]].pw,
                           !.ver = users[Norm[s]].ver, !.asof = changes[Norm[s]]]
  <2>q. q \in RequestType
    BY <1>0, <1>n, <2>0, RequestWithRow DEF Kinds, PCs, User
  <2>1. /\ reqs' \in [Threads -> RequestType] /\ others /\ still
    <3>1. reqs' = [reqs EXCEPT ![r] = q] /\ still
      BY <1>2 DEF Login
    <3> HIDE DEF q
    <3> QED BY <1>i, <2>q, <3>1
  <2>2. RequestOK(reqs[r])'
    BY <1>2, <1>i, <1>n, <2>0 DEF Login, Begin, RequestOK, Issuers, RowsOK, history
  <2> QED BY <2>1, <2>2, OnlyRequest
<1>3. ASSUME NEW s \in Spellings, ForgotPassword(r, s)
      PROVE  Inv'
  <2>1. /\ reqs' \in [Threads -> RequestType] /\ others /\ still
    BY <1>0, <1>3, <1>i, <1>n DEF ForgotPassword, Begin, RequestType, Kinds, PCs
  <2>2. RequestOK(reqs[r])'
    BY <1>3, <1>i, <1>n DEF ForgotPassword, Begin, RequestOK, Issuers
  <2> QED BY <2>1, <2>2, OnlyRequest
<1>4. ASSUME NEW j \in jwts, ResendVerification(r, j)
      PROVE  Inv'
  <2>0. j.user \in Spellings /\ users[j.user] # None /\ Norm[j.user] = j.user
    BY <1>4, <1>i DEF ResendVerification, get_current_user, Jwt, RowsOK
  <2>1. /\ reqs' \in [Threads -> RequestType] /\ others /\ still
    BY <1>0, <1>4, <1>i, <2>0 DEF ResendVerification, Begin, RequestType, Kinds, PCs
  <2>2. RequestOK(reqs[r])'
    BY <1>4, <1>i, <2>0 DEF ResendVerification, Begin, RequestOK, Issuers
  <2> QED BY <2>1, <2>2, OnlyRequest
<1>5. ASSUME NEW t \in mailbox, VerifyEmail(r, t)
      PROVE  Inv'
  <2>0. /\ t \in TokenIds /\ tokens[t] # None /\ tokens[t] \in EmailToken
        /\ tokens[t].purpose = VERIFY
        /\ tokens[t].user \in Spellings /\ users[tokens[t].user] # None
        /\ Norm[tokens[t].user] = tokens[t].user
    BY <1>5, <1>i DEF VerifyEmail, get_usable_email_token, EmailToken, RowsOK
  <2>1. /\ reqs' \in [Threads -> RequestType] /\ others /\ still
    BY <1>0, <1>5, <1>i, <2>0 DEF VerifyEmail, Begin, RequestType, Kinds, PCs
  <2>2. RequestOK(reqs[r])'
    BY <1>5, <1>i, <2>0 DEF VerifyEmail, Begin, RequestOK, Issuers
  <2> QED BY <2>1, <2>2, OnlyRequest
<1>6. ASSUME NEW t \in mailbox, NEW p \in Passwords, ResetPassword(r, t, p)
      PROVE  Inv'
  <2>0. /\ t \in TokenIds /\ tokens[t] # None /\ tokens[t] \in EmailToken
        /\ tokens[t].purpose = RESET
        /\ tokens[t].user \in Spellings /\ users[tokens[t].user] # None
        /\ Norm[tokens[t].user] = tokens[t].user
    BY <1>6, <1>i DEF ResetPassword, get_usable_email_token, EmailToken, RowsOK
  <2> DEFINE q == [Begin("reset", "consume", tokens[t].user)
                    EXCEPT !.token = t, !.pw = p,
                           !.older = TokensOf(tokens[t].user, RESET)]
  <2>q. q \in RequestType
    <3>1. Begin("reset", "consume", tokens[t].user) \in RequestType
      BY <1>0, <2>0 DEF Kinds, PCs
    <3>2. TokensOf(tokens[t].user, RESET) \subseteq TokenIds
      BY DEF TokensOf
    <3> QED BY <2>0, <3>1, <3>2, RequestWithToken
  <2>1. /\ reqs' \in [Threads -> RequestType] /\ others /\ still
    <3>1. reqs' = [reqs EXCEPT ![r] = q] /\ still
      BY <1>6 DEF ResetPassword
    <3> HIDE DEF q
    <3> QED BY <1>i, <2>q, <3>1
  <2>2. RequestOK(reqs[r])'
    BY <1>6, <1>i, <2>0 DEF ResetPassword, Begin, RequestOK, Issuers, TokensOf
  <2> QED BY <2>1, <2>2, OnlyRequest
<1> QED
  BY <1>1, <1>2, <1>3, <1>4, <1>5, <1>6 DEF Arrive

(* A request that ends without touching anything else. *)
LEMMA EndRequest ==
    ASSUME Inv, NEW r \in Threads, reqs' = [reqs EXCEPT ![r] = Idle]
    PROVE  /\ reqs' \in [Threads -> RequestType]
           /\ \A s \in Threads \ {r} : reqs'[s] = reqs[s]
           /\ RequestOK(reqs[r])'
<1>1. Idle \in RequestType /\ Idle.pc = "idle" /\ Idle.kind = "none"
  BY DEF Idle, Begin, RequestType, Kinds, PCs
<1>2. reqs \in [Threads -> RequestType]
  BY DEF Inv, TypeOK
<1>3. reqs'[r] = Idle
  BY <1>2
<1> HIDE DEF Idle
<1> QED BY <1>1, <1>2, <1>3 DEF RequestOK

(* Steps of a handler that only read. *)
LEMMA ReadInv ==
    ASSUME Inv, NEW r \in Threads,
           \/ ReloadUser(r) \/ InvalidateSelect(r) \/ RereadUser(r)
           \/ RefreshUser(r) \/ Fail(r)
    PROVE  Inv'
<1>i. /\ users \in [Spellings -> User \cup {None}]
      /\ tokens \in [TokenIds -> EmailToken \cup {None}]
      /\ reqs \in [Threads -> RequestType] /\ reqs[r] \in RequestType
      /\ changes \in [Spellings -> Nat]
      /\ RowsOK /\ RequestOK(reqs[r])
  BY DEF Inv, TypeOK, RequestsOK
<1> DEFINE others == \A s \in Threads \ {r} : reqs'[s] = reqs[s]
           still == UNCHANGED <<users, tokens, jwts, outbox, mailbox, now, history>>
<1>1. CASE ReloadUser(r)
  <2>0. /\ reqs[r].user \in Spellings /\ users[reqs[r].user] \in User
        /\ users[reqs[r].user] # None
    BY <1>1, <1>i DEF ReloadUser, At, RequestOK
  <2>1. /\ reqs' \in [Threads -> RequestType] /\ others /\ still
    BY <1>1, <1>i, <2>0 DEF ReloadUser, RequestType, PCs, User
  <2>2. RequestOK(reqs[r])'
    BY <1>1, <1>i, <2>0 DEF ReloadUser, At, RequestOK, Issuers, RequestType, RowsOK, history
  <2> QED BY <2>1, <2>2, OnlyRequest
<1>2. CASE RereadUser(r)
  <2>0. /\ reqs[r].user \in Spellings /\ users[reqs[r].user] \in User
        /\ users[reqs[r].user] # None
    BY <1>2, <1>i DEF RereadUser, At, RequestOK
  <2>1. /\ reqs' \in [Threads -> RequestType] /\ others /\ still
    BY <1>2, <1>i, <2>0 DEF RereadUser, RequestType, PCs, User
  <2>2. RequestOK(reqs[r])'
    BY <1>2, <1>i, <2>0 DEF RereadUser, At, RequestOK, Issuers, RequestType, RowsOK, history
  <2> QED BY <2>1, <2>2, OnlyRequest
<1>3. CASE InvalidateSelect(r)
  <2> DEFINE rows == Outstanding(reqs[r].user, Purpose(r))
  <2>0. rows \subseteq TokenIds /\ \A t \in rows : tokens[t] # None
    BY DEF Outstanding, TokensOf
  <2>a. reqs[r].kind = "reset" => \A t \in reqs[r].older : tokens[t].used \/ t \in rows
    BY <1>3, <1>i DEF InvalidateSelect, At, RequestOK, Outstanding, TokensOf, Purpose,
                      RequestType
  <2>b. reqs[r].kind \in Issuers \cup {"reset"} /\ reqs[r].pc = "select"
    BY <1>3, <1>i DEF InvalidateSelect, At, RequestOK, Issuers
  <2>c. /\ reqs' = [reqs EXCEPT ![r].seen = rows,
              ![r].pc = IF rows # {} THEN "retire" ELSE AfterRetire(r, FALSE)]
        /\ still
    BY <1>3 DEF InvalidateSelect
  <2> HIDE DEF rows
  <2>1. /\ reqs' \in [Threads -> RequestType] /\ others
    BY <1>i, <2>0, <2>c DEF RequestType, PCs, AfterRetire
  <2>2. RequestOK(reqs[r])'
    BY <1>i, <2>0, <2>a, <2>b, <2>c
    DEF RequestOK, Issuers, RequestType, AfterRetire, history
  <2> QED BY <2>1, <2>2, <2>c, OnlyRequest
<1>4. CASE Fail(r)
  BY <1>4, EndRequest, OnlyRequest DEF Fail
<1>5. CASE RefreshUser(r)
  <2>0. /\ reqs[r].user \in Spellings /\ users[reqs[r].user] \in User
        /\ users[reqs[r].user] # None
    BY <1>5, <1>i DEF RefreshUser, At, RequestOK
  <2>1. /\ reqs' \in [Threads -> RequestType] /\ others /\ still
    BY <1>5, <1>i, <2>0 DEF RefreshUser, RequestType, PCs, User
  <2>2. RequestOK(reqs[r])'
    BY <1>5, <1>i, <2>0 DEF RefreshUser, At, RequestOK, Issuers, RequestType, RowsOK, history
  <2> QED BY <2>1, <2>2, OnlyRequest
<1> QED BY <1>1, <1>2, <1>3, <1>4, <1>5

(* create_user: the row is new, or the request ends. *)
LEMMA CreateUserInv ==
    ASSUME Inv, NEW r \in Threads, CreateUser(r)
    PROVE  Inv'
<1>i. /\ TypeOK /\ RequestsOK /\ reqs \in [Threads -> RequestType]
      /\ reqs[r] \in RequestType /\ RequestOK(reqs[r])
      /\ users \in [Spellings -> User \cup {None}]
      /\ tokens \in [TokenIds -> EmailToken \cup {None}]
      /\ changes \in [Spellings -> Nat]
  BY DEF Inv, TypeOK, RequestsOK
<1>o. \A s \in Threads \ {r} : reqs'[s] = reqs[s]
  BY <1>i DEF CreateUser
<1> DEFINE u == reqs[r].user
<1>u. u \in Spellings /\ reqs[r].pw \in Passwords /\ Norm[u] = u
  BY <1>i DEF CreateUser, At, RequestOK
<1>1. CASE users[u] # None
  BY <1>1, EndRequest, OnlyRequest DEF CreateUser
<1>2. CASE users[u] = None
  <2>0. /\ users' = [users EXCEPT ![u] = [pw |-> reqs[r].pw, ver |-> 0, verified |-> FALSE]]
        /\ reqs' = [reqs EXCEPT ![r].pc = "select"]
        /\ reqs[r].pc = "create"
        /\ UNCHANGED <<tokens, jwts, outbox, mailbox, now, history>>
    BY <1>2 DEF CreateUser, At
  <2>n. [pw |-> reqs[r].pw, ver |-> 0, verified |-> FALSE] # None
    <3>1. [pw |-> reqs[r].pw, ver |-> 0, verified |-> FALSE] \in User
      BY <1>u DEF User
    <3> QED BY <3>1, NoneAssumption
  <2>1. Progress
    BY <1>i, <1>u, <2>0, <2>n DEF Progress, history
  <2>2. TypeOK'
    BY <1>i, <1>u, <2>0 DEF TypeOK, history, RequestType, PCs, User
  <2>3. RequestOK(reqs[r])'
    BY <1>i, <1>u, <2>0, <2>n DEF RequestOK, Issuers, history, RequestType
  <2>4. RequestsOK'
    BY <1>i, <1>o, <2>1, <2>3, Frame
  <2>5. RowsOK'
    BY <1>i, <1>u, <1>2, <2>0 DEF Inv, RowsOK, history
  <2>6. JwtsOK' /\ OutdatedOK'
    BY <1>i, <1>u, <1>2, <2>0 DEF Inv, JwtsOK, OutdatedOK, history, TypeOK, Jwt
  <2>7. TokensOK'
    BY <1>i, <1>u, <1>2, <2>0 DEF Inv, TokensOK, EmailToken
  <2>8. VerifiedMeansMailedLink'
    BY <1>i, <1>u, <1>2, <2>0 DEF Inv, VerifiedMeansMailedLink
  <2> QED BY <2>2, <2>4, <2>5, <2>6, <2>7, <2>8 DEF Inv
<1> QED BY <1>1, <1>2

(* Two steps that hand out a JWT: the end of login, and the answer. *)
LEMMA VerifyPasswordInv ==
    ASSUME Inv, NEW r \in Threads, VerifyPassword(r)
    PROVE  Inv'
<1>i. /\ TypeOK /\ RequestsOK /\ reqs \in [Threads -> RequestType]
      /\ reqs[r] \in RequestType /\ RequestOK(reqs[r])
      /\ users \in [Spellings -> User \cup {None}]
      /\ tokens \in [TokenIds -> EmailToken \cup {None}]
      /\ changes \in [Spellings -> Nat]
  BY DEF Inv, TypeOK, RequestsOK
<1>o. \A s \in Threads \ {r} : reqs'[s] = reqs[s]
  BY <1>i DEF VerifyPassword
<1> DEFINE u == reqs[r].user
           j == token_for(u, reqs[r].ver, reqs[r].asof)
<1>u. u \in Spellings /\ users[u] # None /\ (~overlapped[u] => reqs[r].ver = reqs[r].asof)
  BY <1>i DEF VerifyPassword, At, RequestOK
<1>0. /\ jwts' \subseteq jwts \cup {j}
      /\ reqs' = [reqs EXCEPT ![r] = Idle]
      /\ UNCHANGED <<users, tokens, outbox, mailbox, now, history>>
  BY DEF VerifyPassword
<1>j. j \in Jwt /\ j.user = u /\ j.ver = reqs[r].ver /\ j.asof = reqs[r].asof
  BY <1>i, <1>u, TimeAssumption DEF token_for, Jwt, RequestType, TypeOK
<1> HIDE DEF j
<1>1. Progress
  BY <1>0 DEF Progress, history
<1>2. TypeOK'
  BY <1>i, <1>0, <1>j, EndRequest DEF TypeOK, history
<1>3. RequestsOK'
  BY <1>i, <1>o, <1>0, <1>1, EndRequest, Frame
<1>4. JwtsOK'
  BY <1>0, <1>j, <1>u DEF Inv, JwtsOK, history
<1>5. RowsOK' /\ OutdatedOK' /\ TokensOK' /\ VerifiedMeansMailedLink'
  BY <1>0 DEF Inv, history, RowsOK, OutdatedOK, TokensOK, VerifiedMeansMailedLink
<1> QED BY <1>2, <1>3, <1>4, <1>5 DEF Inv

(* Answering keeps the invariant: the mail it queues and the JWT it hands  *)
(* out are accounted for.                                                  *)
LEMMA AnswerInv ==
    ASSUME Inv, NEW r \in Threads, Answer(r)
    PROVE  Inv'
<1>i. /\ TypeOK /\ RequestsOK /\ reqs \in [Threads -> RequestType]
      /\ reqs[r] \in RequestType /\ RequestOK(reqs[r])
      /\ users \in [Spellings -> User \cup {None}]
      /\ tokens \in [TokenIds -> EmailToken \cup {None}]
      /\ changes \in [Spellings -> Nat]
  BY DEF Inv, TypeOK, RequestsOK
<1>o. \A s \in Threads \ {r} : reqs'[s] = reqs[s]
  BY <1>i DEF Answer
<1> DEFINE u == reqs[r].user
           j == token_for(u, reqs[r].ver, reqs[r].asof)
<1>u. /\ u \in Spellings /\ users[u] # None
      /\ ~overlapped[u] => reqs[r].ver = reqs[r].asof
      /\ reqs[r].token \in TokenIds
  BY <1>i DEF Answer, At, RequestOK
<1>0. /\ jwts' \subseteq jwts \cup {j}
      /\ outbox' \subseteq outbox \cup {reqs[r].token}
      /\ reqs' = [reqs EXCEPT ![r] = Idle]
      /\ UNCHANGED <<users, tokens, mailbox, now, history>>
  BY DEF Answer, VerificationMail, PasswordResetMail, RegisterResponse, ResetResponse
<1>j. j \in Jwt /\ j.user = u /\ j.ver = reqs[r].ver /\ j.asof = reqs[r].asof
  BY <1>i, <1>u, TimeAssumption DEF token_for, Jwt, RequestType, TypeOK
<1> HIDE DEF j
<1>1. Progress
  BY <1>0 DEF Progress, history
<1>2. TypeOK'
  BY <1>i, <1>u, <1>0, <1>j, EndRequest DEF TypeOK, history
<1>3. RequestsOK'
  BY <1>i, <1>o, <1>0, <1>1, EndRequest, Frame
<1>4. JwtsOK'
  BY <1>0, <1>j, <1>u DEF Inv, JwtsOK, history
<1>5. RowsOK' /\ OutdatedOK' /\ TokensOK' /\ VerifiedMeansMailedLink'
  BY <1>0 DEF Inv, history, RowsOK, OutdatedOK, TokensOK, VerifiedMeansMailedLink
<1> QED BY <1>2, <1>3, <1>4, <1>5 DEF Inv

(* The two commits that mark tokens as used. *)
LEMMA TokensUsed ==
    ASSUME Inv, NEW U \in SUBSET TokenIds,
           \A t \in U : tokens[t] # None,
           tokens' = [t \in TokenIds |-> IF t \in U
                                         THEN [tokens[t] EXCEPT !.used = TRUE]
                                         ELSE tokens[t]],
           UNCHANGED <<users, jwts, outbox, mailbox, now, history>>
    PROVE  /\ tokens' \in [TokenIds -> EmailToken \cup {None}]
           /\ Progress
           /\ \A t \in U : tokens'[t].used
           /\ RowsOK' /\ JwtsOK' /\ OutdatedOK' /\ TokensOK'
           /\ VerifiedMeansMailedLink'
<1>i. /\ tokens \in [TokenIds -> EmailToken \cup {None}]
      /\ mailbox \subseteq TokenIds /\ outdated \subseteq TokenIds
  BY DEF Inv, TypeOK
<1>1. \A t \in TokenIds : tokens[t] # None =>
        /\ tokens'[t] \in EmailToken
        /\ tokens'[t] # None
        /\ tokens'[t].user = tokens[t].user
        /\ tokens'[t].purpose = tokens[t].purpose
        /\ (tokens[t].used => tokens'[t].used)
        /\ (t \in U => tokens'[t].used)
  <2> SUFFICES ASSUME NEW t \in TokenIds, tokens[t] # None
               PROVE  /\ tokens'[t] \in EmailToken
                      /\ tokens'[t] # None
                      /\ tokens'[t].user = tokens[t].user
                      /\ tokens'[t].purpose = tokens[t].purpose
                      /\ (tokens[t].used => tokens'[t].used)
                      /\ (t \in U => tokens'[t].used)
    OBVIOUS
  <2>1. tokens[t] \in EmailToken
    BY <1>i
  <2>2. CASE t \in U
    <3>1. tokens'[t] = [tokens[t] EXCEPT !.used = TRUE]
      BY <2>2
    <3>2. tokens'[t] \in EmailToken /\ tokens'[t].used
          /\ tokens'[t].user = tokens[t].user /\ tokens'[t].purpose = tokens[t].purpose
      BY <2>1, <3>1 DEF EmailToken
    <3> QED BY <3>2, NoneAssumption
  <2>3. CASE t \notin U
    BY <2>1, <2>3
  <2> QED BY <2>2, <2>3
<1>2. \A t \in TokenIds : tokens[t] = None => tokens'[t] = None
  OBVIOUS
<1>3. tokens' \in [TokenIds -> EmailToken \cup {None}]
  <2>1. \A t \in TokenIds : tokens'[t] \in EmailToken \cup {None}
    BY <1>1, <1>2
  <2> QED BY <2>1
<1>4. Progress
  BY <1>1 DEF Progress, history
<1>5. RowsOK' /\ JwtsOK'
  BY DEF Inv, RowsOK, JwtsOK, history
<1>6. OutdatedOK'
  BY <1>i, <1>1 DEF Inv, OutdatedOK, history
<1>7. TokensOK'
  BY <1>i, <1>1, <1>2 DEF Inv, TokensOK
<1>8. VerifiedMeansMailedLink'
  <2> SUFFICES ASSUME NEW u \in Spellings, users'[u] # None, users'[u].verified
               PROVE  \E t \in mailbox' : tokens'[t] # None /\ tokens'[t].user = u
                                                            /\ tokens'[t].used
    BY DEF VerifiedMeansMailedLink
  <2>1. PICK t \in mailbox : tokens[t] # None /\ tokens[t].user = u /\ tokens[t].used
    BY DEF Inv, VerifiedMeansMailedLink
  <2> QED BY <1>i, <1>1, <2>1
<1> QED BY <1>1, <1>3, <1>4, <1>5, <1>6, <1>7, <1>8

(* Using up a link keeps the invariant.                                    *)
LEMMA ConsumeInv ==
    ASSUME Inv, NEW r \in Threads, ConsumeEmailToken(r)
    PROVE  Inv'
<1>i. /\ TypeOK /\ RequestsOK /\ reqs \in [Threads -> RequestType]
      /\ reqs[r] \in RequestType /\ RequestOK(reqs[r])
      /\ users \in [Spellings -> User \cup {None}]
      /\ tokens \in [TokenIds -> EmailToken \cup {None}]
      /\ changes \in [Spellings -> Nat]
  BY DEF Inv, TypeOK, RequestsOK
<1>o. \A s \in Threads \ {r} : reqs'[s] = reqs[s]
  BY <1>i DEF ConsumeEmailToken
<1> DEFINE U == {reqs[r].token}
<1>u. /\ U \in SUBSET TokenIds /\ \A t \in U : tokens[t] # None
      /\ reqs[r].kind \in {"verify", "reset"}
  BY <1>i DEF ConsumeEmailToken, At, RequestOK, TypeOK
<1>0. /\ tokens' = [tokens EXCEPT ![reqs[r].token].used = TRUE]
      /\ reqs' = [reqs EXCEPT ![r].pc =
                    IF reqs[r].kind = "reset" THEN "reload" ELSE "refresh"]
      /\ reqs[r].pc = "consume"
      /\ UNCHANGED <<users, jwts, outbox, mailbox, now, history>>
  BY DEF ConsumeEmailToken, At
<1>1. tokens' = [t \in TokenIds |-> IF t \in U THEN [tokens[t] EXCEPT !.used = TRUE]
                                     ELSE tokens[t]]
  BY <1>i, <1>u, <1>0
<1>2. /\ tokens' \in [TokenIds -> EmailToken \cup {None}]
      /\ Progress
      /\ \A t \in U : tokens'[t].used
      /\ RowsOK' /\ JwtsOK' /\ OutdatedOK' /\ TokensOK'
      /\ VerifiedMeansMailedLink'
  BY <1>u, <1>0, <1>1, TokensUsed
<1>3. TypeOK'
  BY <1>i, <1>0, <1>2 DEF TypeOK, history, RequestType, PCs
<1>4. RequestOK(reqs[r])'
  <2>1. /\ reqs'[r].pc = IF reqs[r].kind = "reset" THEN "reload" ELSE "refresh"
        /\ reqs'[r].kind = reqs[r].kind
        /\ reqs'[r].user = reqs[r].user /\ reqs'[r].pw = reqs[r].pw
        /\ reqs'[r].ver = reqs[r].ver /\ reqs'[r].asof = reqs[r].asof
        /\ reqs'[r].token = reqs[r].token
        /\ reqs'[r].seen = reqs[r].seen /\ reqs'[r].older = reqs[r].older
    BY <1>i, <1>0 DEF RequestType
  <2>2. reqs[r].seen \cup reqs[r].older \subseteq TokenIds /\ mailbox \subseteq TokenIds
    BY <1>i DEF RequestType, TypeOK
  <2> QED
    BY <1>i, <1>u, <1>0, <1>2, <2>1, <2>2 DEF RequestOK, Progress, Issuers, history
<1>5. RequestsOK'
  BY <1>i, <1>o, <1>2, <1>4, Frame
<1> QED BY <1>2, <1>3, <1>5 DEF Inv

(* Retiring the older links keeps the invariant.                           *)
LEMMA InvalidateInv ==
    ASSUME Inv, NEW r \in Threads, InvalidateCommit(r)
    PROVE  Inv'
<1>i. /\ TypeOK /\ RequestsOK /\ reqs \in [Threads -> RequestType]
      /\ reqs[r] \in RequestType /\ RequestOK(reqs[r])
      /\ users \in [Spellings -> User \cup {None}]
      /\ tokens \in [TokenIds -> EmailToken \cup {None}]
      /\ changes \in [Spellings -> Nat]
  BY DEF Inv, TypeOK, RequestsOK
<1>o. \A s \in Threads \ {r} : reqs'[s] = reqs[s]
  BY <1>i DEF InvalidateCommit
<1> DEFINE U == reqs[r].seen
<1>u. /\ U \in SUBSET TokenIds /\ \A t \in U : tokens[t] # None
      /\ reqs[r].kind \in Issuers \cup {"reset"}
  BY <1>i DEF InvalidateCommit, At, RequestOK, RequestType
<1>0. /\ tokens' = [t \in TokenIds |-> IF t \in U THEN [tokens[t] EXCEPT !.used = TRUE]
                                        ELSE tokens[t]]
  BY DEF InvalidateCommit
<1>1. reqs' = [reqs EXCEPT ![r].pc = AfterRetire(r, TRUE)]
  BY DEF InvalidateCommit
<1>p. /\ reqs[r].pc = "retire"
      /\ UNCHANGED <<users, jwts, outbox, mailbox, now, history>>
  BY DEF InvalidateCommit, At
<1>2. /\ tokens' \in [TokenIds -> EmailToken \cup {None}]
      /\ Progress
      /\ \A t \in U : tokens'[t].used
      /\ RowsOK' /\ JwtsOK' /\ OutdatedOK' /\ TokensOK'
      /\ VerifiedMeansMailedLink'
  BY <1>u, <1>0, <1>p, TokensUsed
<1>3. TypeOK'
  BY <1>i, <1>1, <1>p, <1>2 DEF TypeOK, history, RequestType, PCs, AfterRetire
<1>4. RequestOK(reqs[r])'
  <2>1. /\ reqs'[r].pc = IF reqs[r].kind = "reset" THEN "reread" ELSE "issue"
        /\ reqs'[r].kind = reqs[r].kind
        /\ reqs'[r].user = reqs[r].user /\ reqs'[r].pw = reqs[r].pw
        /\ reqs'[r].ver = reqs[r].ver /\ reqs'[r].asof = reqs[r].asof
        /\ reqs'[r].token = reqs[r].token
        /\ reqs'[r].seen = reqs[r].seen /\ reqs'[r].older = reqs[r].older
    BY <1>i, <1>1 DEF RequestType, AfterRetire
  <2>2. reqs[r].seen \cup reqs[r].older \subseteq TokenIds /\ mailbox \subseteq TokenIds
    BY <1>i DEF RequestType, TypeOK
  <2>3. \A x \in reqs[r].seen \cup reqs[r].older : tokens[x] # None
    BY <1>i, <1>p DEF RequestOK
  <2>4. CASE reqs[r].kind = "reset"
    <3>1. \A x \in reqs[r].older : /\ tokens'[x].user = reqs[r].user
                                   /\ tokens'[x].purpose = RESET
                                   /\ tokens'[x].used
      BY <1>i, <1>p, <1>2, <2>2, <2>3, <2>4 DEF RequestOK, Progress
    <3> QED
      BY <1>i, <1>p, <1>2, <2>1, <2>2, <2>3, <2>4, <3>1
      DEF RequestOK, Progress, Issuers, history
  <2>5. CASE reqs[r].kind \in Issuers
    BY <1>i, <1>p, <1>2, <2>1, <2>2, <2>3, <2>5 DEF RequestOK, Progress, Issuers, history
  <2> QED BY <1>u, <2>4, <2>5
<1>5. RequestsOK'
  BY <1>i, <1>o, <1>2, <1>4, Frame
<1> QED BY <1>2, <1>3, <1>5 DEF Inv

(* create_email_token: a fresh row. *)
LEMMA CreateEmailTokenInv ==
    ASSUME Inv, NEW r \in Threads, NEW t \in TokenIds, CreateEmailToken(r, t)
    PROVE  Inv'
<1>i. /\ TypeOK /\ RequestsOK /\ reqs \in [Threads -> RequestType]
      /\ reqs[r] \in RequestType /\ RequestOK(reqs[r])
      /\ users \in [Spellings -> User \cup {None}]
      /\ tokens \in [TokenIds -> EmailToken \cup {None}]
      /\ changes \in [Spellings -> Nat]
  BY DEF Inv, TypeOK, RequestsOK
<1>o. \A s \in Threads \ {r} : reqs'[s] = reqs[s]
  BY <1>i DEF CreateEmailToken
<1> DEFINE row == [user |-> reqs[r].user, purpose |-> Purpose(r), used |-> FALSE,
                  exp |-> now + (IF Purpose(r) = RESET THEN ResetTTL ELSE VerifyTTL)]
<1>u. /\ reqs[r].user \in Spellings /\ users[reqs[r].user] # None
      /\ reqs[r].kind \in Issuers /\ reqs[r].pc = "issue"
  BY <1>i DEF CreateEmailToken, At, RequestOK
<1>r. row \in EmailToken /\ row.user = reqs[r].user /\ row # None
  <2>1. Purpose(r) \in {VERIFY, RESET}
    BY DEF Purpose
  <2>2. now + (IF Purpose(r) = RESET THEN ResetTTL ELSE VerifyTTL) \in Nat
    BY <1>i, TimeAssumption DEF TypeOK
  <2>3. row \in EmailToken
    BY <1>u, <2>1, <2>2 DEF EmailToken
  <2> QED BY <2>3, NoneAssumption
<1>t. tokens[t] = None /\ tokens' = [tokens EXCEPT ![t] = row]
  BY Zenon DEF CreateEmailToken
<1>0. /\ reqs' = [reqs EXCEPT ![r].pc = "refresh", ![r].token = t]
      /\ UNCHANGED <<users, jwts, outbox, mailbox, now, history>>
  BY DEF CreateEmailToken
<1> HIDE DEF row
<1>1. Progress
  BY <1>i, <1>t, <1>0 DEF Progress, history
<1>2. TypeOK'
  <2>1. tokens' \in [TokenIds -> EmailToken \cup {None}]
    BY <1>i, <1>r, <1>t
  <2>2. reqs' \in [Threads -> RequestType]
    BY <1>i, <1>0 DEF RequestType, PCs
  <2> QED BY <1>i, <1>0, <2>1, <2>2 DEF TypeOK, history
<1>3. RequestOK(reqs[r])'
  <2>1. /\ reqs'[r].pc = "refresh" /\ reqs'[r].token = t
        /\ reqs'[r].kind = reqs[r].kind
        /\ reqs'[r].user = reqs[r].user /\ reqs'[r].pw = reqs[r].pw
        /\ reqs'[r].ver = reqs[r].ver /\ reqs'[r].asof = reqs[r].asof
        /\ reqs'[r].seen = reqs[r].seen /\ reqs'[r].older = reqs[r].older
    BY <1>i, <1>0 DEF RequestType
  <2>2. reqs[r].seen \cup reqs[r].older \subseteq TokenIds
    BY <1>i DEF RequestType
  <2> QED
    BY <1>i, <1>u, <1>0, <1>1, <2>1, <2>2 DEF RequestOK, Progress, Issuers, history
<1>4. RequestsOK'
  BY <1>i, <1>o, <1>1, <1>3, Frame
<1>5. RowsOK' /\ JwtsOK'
  BY <1>0 DEF Inv, RowsOK, JwtsOK, history
<1>6. OutdatedOK'
  BY <1>i, <1>t, <1>0 DEF Inv, TypeOK, OutdatedOK, history
<1>7. TokensOK'
  BY <1>i, <1>u, <1>r, <1>t, <1>0 DEF Inv, TokensOK
<1>8. VerifiedMeansMailedLink'
  BY <1>i, <1>t, <1>0 DEF Inv, TypeOK, VerifiedMeansMailedLink
<1> QED BY <1>2, <1>4, <1>5, <1>6, <1>7, <1>8 DEF Inv

(* set_password: either the version that was read is still the stored one, *)
(* and both it and the count go up by one, or the account is overlapped.   *)
LEMMA SetPasswordInv ==
    ASSUME Inv, NEW r \in Threads, SetPassword(r)
    PROVE  Inv'
<1>i. /\ TypeOK /\ RequestsOK /\ reqs \in [Threads -> RequestType]
      /\ reqs[r] \in RequestType /\ RequestOK(reqs[r])
      /\ users \in [Spellings -> User \cup {None}]
      /\ tokens \in [TokenIds -> EmailToken \cup {None}]
      /\ changes \in [Spellings -> Nat]
  BY DEF Inv, TypeOK, RequestsOK
<1>o. \A s \in Threads \ {r} : reqs'[s] = reqs[s]
  BY <1>i DEF SetPassword
<1> DEFINE u == reqs[r].user
           row == [users[u] EXCEPT !.pw = reqs[r].pw, !.ver = reqs[r].ver + 1]
<1>u. /\ u \in Spellings /\ users[u] # None /\ users[u] \in User
      /\ reqs[r].pw \in Passwords /\ reqs[r].pc = "password"
      /\ reqs[r].kind = "reset"
      /\ reqs[r].token \in TokenIds
      /\ reqs[r].ver \in Nat /\ reqs[r].older \subseteq TokenIds
      /\ ~overlapped[u] => reqs[r].ver = reqs[r].asof
  BY <1>i DEF SetPassword, At, RequestOK, RequestType, TypeOK
<1>r. /\ row \in User /\ row # None /\ row.verified = users[u].verified
      /\ row.ver = reqs[r].ver + 1
  <2>0. reqs[r].ver + 1 \in Nat
    BY <1>u
  <2>1. row \in User /\ row.verified = users[u].verified /\ row.ver = reqs[r].ver + 1
    BY <1>u, <2>0 DEF User
  <2> QED BY <2>1, NoneAssumption
<1>a. users' = [users EXCEPT ![u] = row]
  BY <1>i, <1>u DEF SetPassword, User
<1>0. /\ reqs' = [reqs EXCEPT ![r].pc = "refresh"]
      /\ UNCHANGED <<tokens, jwts, outbox, mailbox, now>>
  BY DEF SetPassword
<1>h. /\ changes' = [changes EXCEPT ![u] = @ + 1]
      /\ overlapped' = [overlapped EXCEPT ![u] = @ \/ reqs[r].asof # changes[u]]
      /\ spent' = [spent EXCEPT ![reqs[r].token] = @ + 1]
      /\ outdated' = outdated \cup reqs[r].older
  BY DEF SetPassword, PasswordHistory
<1> HIDE DEF row
<1>v. /\ overlapped' \in [Spellings -> BOOLEAN]
      /\ \A x \in Spellings : overlapped[x] => overlapped'[x]
      /\ ~overlapped'[u] => ~overlapped[u] /\ reqs[r].asof = changes[u]
      /\ \A x \in Spellings \ {u} : overlapped'[x] = overlapped[x]
  BY <1>i, <1>u, <1>h DEF TypeOK
<1>1. Progress
  BY <1>i, <1>u, <1>r, <1>a, <1>0, <1>v DEF Progress
<1>2. TypeOK'
  <2>1. users' \in [Spellings -> User \cup {None}]
    BY <1>i, <1>u, <1>r, <1>a
  <2>2. reqs' \in [Threads -> RequestType]
    BY <1>i, <1>0 DEF RequestType, PCs
  <2>3. changes' \in [Spellings -> Nat] /\ spent' \in [TokenIds -> Nat]
        /\ outdated' \subseteq TokenIds
    BY <1>i, <1>u, <1>h DEF TypeOK
  <2> QED BY <1>i, <1>0, <1>v, <2>1, <2>2, <2>3 DEF TypeOK
<1>3. RequestOK(reqs[r])'
  <2>1. /\ reqs'[r].pc = "refresh" /\ reqs'[r].token = reqs[r].token
        /\ reqs'[r].kind = reqs[r].kind
        /\ reqs'[r].user = reqs[r].user /\ reqs'[r].pw = reqs[r].pw
        /\ reqs'[r].ver = reqs[r].ver /\ reqs'[r].asof = reqs[r].asof
        /\ reqs'[r].seen = reqs[r].seen /\ reqs'[r].older = reqs[r].older
    BY <1>i, <1>0 DEF RequestType
  <2>2. reqs[r].seen \cup reqs[r].older \subseteq TokenIds
    BY <1>i DEF RequestType
  <2>3. UNCHANGED <<tokens, mailbox>>
    BY <1>0
  <2> QED
    BY <1>i, <1>u, <1>v, <1>1, <2>1, <2>2, <2>3 DEF RequestOK, Progress, Issuers
<1>4. RequestsOK'
  BY <1>i, <1>o, <1>1, <1>3, Frame
<1>5. RowsOK'
  <2> SUFFICES ASSUME NEW x \in Spellings
               PROVE  /\ users'[x] = None => changes'[x] = 0
                      /\ users'[x] # None => Norm[x] = x
                      /\ users'[x] # None /\ ~overlapped'[x] => users'[x].ver = changes'[x]
    BY DEF RowsOK
  <2>1. CASE x = u
    BY <1>i, <1>u, <1>r, <1>a, <1>h, <1>v, <2>1 DEF Inv, RowsOK
  <2>2. CASE x # u
    BY <1>i, <1>u, <1>a, <1>h, <1>v, <2>2 DEF Inv, RowsOK
  <2> QED BY <2>1, <2>2
<1>6. JwtsOK'
  <2>1. \A j \in jwts : j.user \in Spellings
    BY <1>i DEF TypeOK, Jwt
  <2> QED BY <1>1, <1>0, <2>1 DEF Inv, JwtsOK, Progress
<1>7. OutdatedOK'
  BY <1>i, <1>u, <1>0, <1>h DEF Inv, OutdatedOK, RequestOK
<1>8. TokensOK'
  BY <1>i, <1>0, <1>1 DEF Inv, TokensOK, Progress, EmailToken
<1>9. VerifiedMeansMailedLink'
  BY <1>i, <1>u, <1>r, <1>a, <1>0 DEF Inv, VerifiedMeansMailedLink
<1> QED BY <1>2, <1>4, <1>5, <1>6, <1>7, <1>8, <1>9 DEF Inv

(* mark_email_verified: the token that was redeemed is the mailed link. *)
LEMMA MarkEmailVerifiedInv ==
    ASSUME Inv, NEW r \in Threads, MarkEmailVerified(r)
    PROVE  Inv'
<1>i. /\ TypeOK /\ RequestsOK /\ reqs \in [Threads -> RequestType]
      /\ reqs[r] \in RequestType /\ RequestOK(reqs[r])
      /\ users \in [Spellings -> User \cup {None}]
      /\ tokens \in [TokenIds -> EmailToken \cup {None}]
      /\ changes \in [Spellings -> Nat]
  BY DEF Inv, TypeOK, RequestsOK
<1>o. \A s \in Threads \ {r} : reqs'[s] = reqs[s]
  BY <1>i DEF MarkEmailVerified
<1> DEFINE u == reqs[r].user
           row == [users[u] EXCEPT !.verified = TRUE]
<1>u. /\ u \in Spellings /\ users[u] # None /\ users[u] \in User
      /\ reqs[r].kind \in {"verify", "reset"} /\ reqs[r].pc = "mark"
      /\ reqs[r].token \in mailbox /\ reqs[r].token \in TokenIds
      /\ tokens[reqs[r].token] # None /\ tokens[reqs[r].token].user = u
      /\ tokens[reqs[r].token].used
  BY <1>i DEF MarkEmailVerified, At, RequestOK, TypeOK
<1>r. row \in User /\ row # None /\ row.ver = users[u].ver
  <2>1. row \in User /\ row.ver = users[u].ver
    BY <1>u DEF User
  <2> QED BY <2>1, NoneAssumption
<1>a. users' = [users EXCEPT ![u] = row]
  BY <1>i, <1>u DEF MarkEmailVerified, User
<1>0. /\ reqs' = [reqs EXCEPT ![r].pc = "refresh"]
      /\ UNCHANGED <<tokens, jwts, outbox, mailbox, now, history>>
  BY DEF MarkEmailVerified
<1> HIDE DEF row
<1>1. Progress
  BY <1>i, <1>u, <1>r, <1>a, <1>0 DEF Progress, history
<1>2. TypeOK'
  <2>1. users' \in [Spellings -> User \cup {None}]
    BY <1>i, <1>u, <1>r, <1>a
  <2>2. reqs' \in [Threads -> RequestType]
    BY <1>i, <1>0 DEF RequestType, PCs
  <2> QED BY <1>i, <1>0, <2>1, <2>2 DEF TypeOK, history
<1>3. RequestOK(reqs[r])'
  <2>1. /\ reqs'[r].pc = "refresh" /\ reqs'[r].token = reqs[r].token
        /\ reqs'[r].kind = reqs[r].kind
        /\ reqs'[r].user = reqs[r].user /\ reqs'[r].pw = reqs[r].pw
        /\ reqs'[r].ver = reqs[r].ver /\ reqs'[r].asof = reqs[r].asof
        /\ reqs'[r].seen = reqs[r].seen /\ reqs'[r].older = reqs[r].older
    BY <1>i, <1>0 DEF RequestType
  <2>2. UNCHANGED <<tokens, mailbox, overlapped>>
    BY <1>0 DEF history
  <2> QED
    BY <1>i, <1>u, <1>1, <2>1, <2>2 DEF RequestOK, Progress, Issuers
<1>4. RequestsOK'
  BY <1>i, <1>o, <1>1, <1>3, Frame
<1>5. RowsOK'
  BY <1>i, <1>u, <1>r, <1>a, <1>0 DEF Inv, RowsOK, history
<1>6. JwtsOK' /\ OutdatedOK'
  <2>1. \A j \in jwts : j.user \in Spellings
    BY <1>i DEF TypeOK, Jwt
  <2> QED BY <1>1, <1>0, <2>1 DEF Inv, JwtsOK, OutdatedOK, Progress, history
<1>7. TokensOK'
  BY <1>i, <1>0, <1>1 DEF Inv, TokensOK, Progress, EmailToken
<1>8. VerifiedMeansMailedLink'
  BY <1>i, <1>u, <1>a, <1>0 DEF Inv, VerifiedMeansMailedLink
<1> QED BY <1>2, <1>4, <1>5, <1>6, <1>7, <1>8 DEF Inv

(* Mail, a restart of the process, and time. *)
LEMMA EnvironmentInv ==
    ASSUME Inv, (\E t \in TokenIds : SendEmail(t)) \/ Crash \/ Tick
    PROVE  Inv'
<1>1. /\ UNCHANGED <<users, tokens, jwts, history>>
      /\ mailbox \subseteq mailbox' /\ mailbox' \subseteq TokenIds
      /\ outbox' \subseteq TokenIds /\ now' \in Nat
      /\ reqs' = reqs \/ reqs' = [s \in Threads |-> Idle]
  BY DEF SendEmail, ConsoleEmailSender, SmtpEmailSender, Crash, Tick, Inv, TypeOK
<1>2. Progress
  BY <1>1 DEF Progress, history
<1>3. Idle \in RequestType /\ Idle.pc = "idle" /\ Idle.kind = "none"
  BY DEF Idle, Begin, RequestType, Kinds, PCs
<1>4. TypeOK'
  BY <1>1, <1>3 DEF Inv, TypeOK, history
<1>5. RequestsOK'
  <2>1. CASE reqs' = reqs
    BY <1>2, <2>1, OtherRequests DEF Inv, RequestsOK
  <2>2. CASE reqs' = [s \in Threads |-> Idle]
    BY <1>3, <2>2 DEF RequestsOK, RequestOK
  <2> QED BY <1>1, <2>1, <2>2
<1>6. RowsOK' /\ JwtsOK' /\ OutdatedOK' /\ TokensOK' /\ VerifiedMeansMailedLink'
  BY <1>1 DEF Inv, history, RowsOK, JwtsOK, OutdatedOK, TokensOK, VerifiedMeansMailedLink
<1> QED BY <1>4, <1>5, <1>6 DEF Inv

(* Inv is inductive. *)
LEMMA NextInv == Inv /\ [Next]_vars => Inv'
<1> SUFFICES ASSUME Inv, [Next]_vars PROVE Inv'
  OBVIOUS
<1>1. CASE UNCHANGED vars
  BY <1>1 DEF vars, Inv, TypeOK, RequestsOK, RequestOK, RowsOK, JwtsOK, OutdatedOK,
              TokensOK, VerifiedMeansMailedLink
<1>2. ASSUME NEW r \in Threads, Arrive(r) PROVE Inv'
  BY <1>2, ArriveInv
<1>3. ASSUME NEW r \in Threads, Step(r) PROVE Inv'
  BY <1>3, CreateUserInv, VerifyPasswordInv, ConsumeInv, ReadInv, InvalidateInv,
     CreateEmailTokenInv, SetPasswordInv, MarkEmailVerifiedInv, AnswerInv DEF Step
<1>4. ASSUME NEW r \in Threads, Fail(r) PROVE Inv'
  BY <1>4, ReadInv
<1>5. CASE (\E t \in TokenIds : SendEmail(t)) \/ Crash \/ Tick
  BY <1>5, EnvironmentInv
<1> QED
  BY <1>1, <1>2, <1>3, <1>4, <1>5 DEF Next

(* Inv holds throughout every behaviour of the service. *)
THEOREM Invariant == Spec => []Inv
<1>1. Init => Inv
  BY InitInv
<1>2. Inv /\ [Next]_vars => Inv'
  BY NextInv
<1> QED BY <1>1, <1>2, PTL DEF Spec

(* The tables, the requests in flight and the history keep their types. *)
THEOREM TypeCorrect == Spec => []TypeOK
<1>1. Inv => TypeOK
  BY DEF Inv
<1> QED BY <1>1, Invariant, PTL

(* A password change ends every other session of the account, for any      *)
(* number of threads, accounts and links, unless two resets of the account *)
(* overlapped (set_password, token_for, get_current_user, login).          *)
THEOREM PasswordChangeEndsSessions == Spec => []SessionsDie
<1>1. Inv => SessionsDie
  BY DEF Inv, TypeOK, Jwt, RowsOK, JwtsOK, SessionsDie, get_current_user
<1> QED BY <1>1, Invariant, PTL

(* Links that were outstanding when a successful reset was submitted stay  *)
(* dead, whatever the other threads do (invalidate_email_tokens).          *)
THEOREM ResetRetiresLinks == Spec => []OlderLinksDead
<1>1. Inv => OlderLinksDead
  BY DEF Inv, OutdatedOK, OlderLinksDead, get_usable_email_token
<1> QED BY <1>1, Invariant, PTL

(* An address is verified only after a mailed link was redeemed. *)
THEOREM VerificationNeedsMail == Spec => []VerifiedMeansMailedLink
<1>1. Inv => VerifiedMeansMailedLink
  BY DEF Inv
<1> QED BY <1>1, Invariant, PTL

(* Spellings of one address share one account, under racing registers. *)
THEOREM OneAccount == Spec => []OneAccountPerAddress
<1>1. Inv => OneAccountPerAddress
  BY DEF Inv, RowsOK, OneAccountPerAddress
<1> QED BY <1>1, Invariant, PTL

(* A step that leaves the users table alone satisfies AccountChange. *)
LEMMA UsersUnchanged == UNCHANGED users => AccountChange
BY DEF AccountChange

(* The three steps that write the users table. *)
LEMMA UserWrites ==
    ASSUME Inv, NEW r \in Threads,
           CreateUser(r) \/ SetPassword(r) \/ MarkEmailVerified(r)
    PROVE  AccountChange
<1>i. /\ reqs[r] \in RequestType /\ RequestOK(reqs[r])
      /\ users \in [Spellings -> User \cup {None}]
  BY DEF Inv, TypeOK, RequestsOK
<1> DEFINE u == reqs[r].user
<1>1. CASE CreateUser(r)
  <2>1. CASE users[u] = None
    BY <1>1, <1>i, <2>1 DEF CreateUser, AccountChange
  <2>2. CASE users[u] # None
    BY <1>1, <2>2, UsersUnchanged DEF CreateUser
  <2> QED BY <2>1, <2>2
<1>2. CASE SetPassword(r)
  <2>1. /\ u \in Spellings /\ users[u] # None /\ users[u] \in User
        /\ reqs[r].kind = "reset" /\ reqs[r].pc = "password"
        /\ reqs[r].pw \in Passwords /\ reqs[r].ver \in Nat
        /\ reqs[r].token \in TokensOf(u, RESET) \cap mailbox
        /\ tokens[reqs[r].token].used
    BY <1>2, <1>i DEF SetPassword, At, RequestOK, RequestType, TokensOf, Inv, TypeOK
  <2>2. \A x \in Spellings \ {u} : users'[x] = users[x]
    BY <1>2, <1>i DEF SetPassword
  <2>3. /\ users'[u] \in User /\ users'[u].verified = users[u].verified
    <3>1. users'[u] = [users[u] EXCEPT !.pw = reqs[r].pw, !.ver = reqs[r].ver + 1]
      BY <1>2, <1>i, <2>1 DEF SetPassword
    <3>2. reqs[r].ver + 1 \in Nat
      BY <2>1
    <3> QED BY <2>1, <3>1, <3>2 DEF User
  <2>4. users'[u] # None
    BY <2>3, NoneAssumption
  <2> QED BY <2>1, <2>2, <2>3, <2>4 DEF AccountChange
<1>3. CASE MarkEmailVerified(r)
  <2>1. u \in Spellings /\ users[u] # None /\ users[u] \in User
    BY <1>3, <1>i DEF MarkEmailVerified, At, RequestOK
  <2>2. \A x \in Spellings \ {u} : users'[x] = users[x]
    BY <1>3, <1>i DEF MarkEmailVerified
  <2>3. /\ users'[u] \in User /\ users'[u].verified
        /\ users'[u].pw = users[u].pw /\ users'[u].ver = users[u].ver
    <3>1. users'[u] = [users[u] EXCEPT !.verified = TRUE]
      BY <1>3, <1>i, <2>1 DEF MarkEmailVerified
    <3> QED BY <2>1, <3>1 DEF User
  <2>4. users'[u] # None
    BY <2>3, NoneAssumption
  <2> QED BY <2>1, <2>2, <2>3, <2>4 DEF AccountChange
<1> QED BY <1>1, <1>2, <1>3

(* An existing account is changed by a redeemed reset link or not at all,  *)
(* in every interleaving of register, verify_email and reset_password.     *)
THEOREM AccountsAreSafe == Spec => AccountChangesOnlyByReset
<1>1. Inv /\ [Next]_vars => [AccountChange]_vars
  <2> SUFFICES ASSUME Inv, Next PROVE AccountChange
    BY DEF vars
  <2>1. ASSUME NEW r \in Threads, Arrive(r) PROVE UNCHANGED users
    BY <2>1 DEF Arrive, Register, Login, ForgotPassword, ResendVerification,
                VerifyEmail, ResetPassword
  <2>2. ASSUME NEW r \in Threads, Step(r) PROVE AccountChange
    <3>1. \/ UNCHANGED users
          \/ CreateUser(r) \/ SetPassword(r) \/ MarkEmailVerified(r)
      BY <2>2 DEF Step, VerifyPassword, ConsumeEmailToken, ReloadUser, InvalidateSelect,
                  InvalidateCommit, RereadUser, RefreshUser, CreateEmailToken,
                  Answer
    <3> QED BY <3>1, UsersUnchanged, UserWrites
  <2>3. ASSUME NEW r \in Threads, Fail(r) PROVE UNCHANGED users
    BY <2>3 DEF Fail
  <2>4. CASE (\E t \in TokenIds : SendEmail(t)) \/ Crash \/ Tick
    BY <2>4, UsersUnchanged DEF SendEmail, Crash, Tick
  <2> QED BY <2>1, <2>2, <2>3, <2>4, UsersUnchanged DEF Next
<1> QED BY <1>1, Invariant, PTL DEF Spec, AccountChangesOnlyByReset

-----------------------------------------------------------------------------
(* How many reset links of an account can be live at once. *)

(* Which thread made each link that is still unused: one per thread and    *)
(* account.  A thread about to retire the links of an account has selected *)
(* its own last one, and it has none left when it issues the next.         *)
Made(by) ==
    /\ \A u \in Spellings : \A t \in Outstanding(u, RESET) :
         /\ by[t] \in Threads
         /\ \A t2 \in Outstanding(u, RESET) : by[t] = by[t2] => t = t2
    /\ \A r \in Threads : reqs[r].kind = "forgot" =>
         \A t \in Outstanding(reqs[r].user, RESET) : by[t] = r =>
            /\ reqs[r].pc = "retire" => t \in reqs[r].seen
            /\ reqs[r].pc # "issue"
LinksOK == \E by \in [TokenIds -> Threads \cup {None}] : Made(by)

(* Steps that create no link and bring no thread closer to issuing one. *)
LEMMA MadeKept ==
    ASSUME Inv, NEW by, Made(by),
           \A u \in Spellings : Outstanding(u, RESET)' \subseteq Outstanding(u, RESET),
           \A s \in Threads : \/ reqs'[s] = reqs[s]
                              \/ reqs'[s].kind # "forgot"
                              \/ reqs'[s].pc \notin {"retire", "issue"}
    PROVE  Made(by)'
<1>1. \A u \in Spellings : \A t \in Outstanding(u, RESET)' :
         /\ by[t] \in Threads
         /\ \A t2 \in Outstanding(u, RESET)' : by[t] = by[t2] => t = t2
  BY DEF Made
<1>2. ASSUME NEW r \in Threads, reqs'[r].kind = "forgot",
             NEW t \in Outstanding(reqs[r].user, RESET)', by[t] = r
      PROVE  /\ reqs'[r].pc = "retire" => t \in reqs'[r].seen
             /\ reqs'[r].pc # "issue"
  <2>1. CASE reqs'[r].pc \notin {"retire", "issue"}
    BY <2>1
  <2>2. CASE reqs'[r] = reqs[r]
    <3>1. reqs[r].user \in Spellings
      BY <1>2, <2>2 DEF Inv, RequestsOK, RequestOK
    <3>2. t \in Outstanding(reqs[r].user, RESET)
      BY <1>2, <2>2, <3>1
    <3> QED BY <1>2, <2>2, <3>2 DEF Made
  <2> QED BY <1>2, <2>1, <2>2
<1> QED BY <1>1, <1>2 DEF Made

(* Used tokens and tokens that do not exist are not outstanding. *)
LEMMA OutstandingKept ==
    ASSUME UNCHANGED tokens, NEW u
    PROVE  Outstanding(u, RESET)' = Outstanding(u, RESET)
BY DEF Outstanding, TokensOf

(* A step of one request that does not touch the table of tokens. *)
LEMMA MadeByRequest ==
    ASSUME Inv, NEW by, Made(by), NEW r \in Threads,
           \A s \in Threads \ {r} : reqs'[s] = reqs[s],
           reqs'[r].kind # "forgot" \/ reqs'[r].pc \notin {"retire", "issue"},
           UNCHANGED tokens
    PROVE  Made(by)'
BY MadeKept, OutstandingKept

(* Every step keeps a maker for each link; create_email_token adds one. *)
LEMMA MadeStep ==
    ASSUME Inv, NEW by \in [TokenIds -> Threads \cup {None}], Made(by), Next
    PROVE  LinksOK'
<1>i. /\ reqs \in [Threads -> RequestType]
      /\ tokens \in [TokenIds -> EmailToken \cup {None}]
      /\ \A r \in Threads : reqs[r] \in RequestType /\ RequestOK(reqs[r])
  BY DEF Inv, TypeOK, RequestsOK
<1>w. Made(by)' => LinksOK'
  BY DEF LinksOK
<1>idle. Idle.pc = "idle"
  BY DEF Idle, Begin
<1>1. ASSUME NEW r \in Threads, Arrive(r) PROVE Made(by)'
  <2>1. \E q : /\ reqs' = [reqs EXCEPT ![r] = q] /\ q.pc \notin {"retire", "issue"}
               /\ UNCHANGED tokens
    BY <1>1 DEF Arrive, Register, Login, ForgotPassword, ResendVerification,
                VerifyEmail, ResetPassword, Begin
  <2> QED BY <1>i, <2>1, MadeByRequest
<1>2. ASSUME NEW r \in Threads,
             \/ CreateUser(r) \/ VerifyPassword(r) \/ ReloadUser(r) \/ RereadUser(r)
             \/ SetPassword(r) \/ RefreshUser(r) \/ MarkEmailVerified(r) \/ Answer(r)
             \/ Fail(r)
      PROVE  Made(by)'
  <2>1. /\ UNCHANGED tokens
        /\ \A s \in Threads \ {r} : reqs'[s] = reqs[s]
    BY <1>2, <1>i DEF CreateUser, VerifyPassword, ReloadUser, RereadUser, SetPassword,
                RefreshUser, MarkEmailVerified, Answer, Fail
  <2>2. reqs'[r].pc \notin {"retire", "issue"}
    BY <1>2, <1>i, <1>idle DEF CreateUser, VerifyPassword, ReloadUser, RereadUser,
                SetPassword, RefreshUser, MarkEmailVerified, Answer, Fail, RequestType
  <2> QED BY <2>1, <2>2, MadeByRequest
<1>3. ASSUME NEW r \in Threads, ConsumeEmailToken(r) PROVE Made(by)'
  <2>1. reqs[r].token \in TokenIds /\ tokens[reqs[r].token] \in EmailToken
    BY <1>3, <1>i DEF ConsumeEmailToken, At, RequestOK, Inv, TypeOK
  <2>2. tokens' = [tokens EXCEPT ![reqs[r].token].used = TRUE]
    BY <1>3 DEF ConsumeEmailToken
  <2>3. \A u \in Spellings : Outstanding(u, RESET)' \subseteq Outstanding(u, RESET)
    BY <1>i, <2>1, <2>2 DEF Outstanding, TokensOf, EmailToken
  <2>4. /\ \A s \in Threads \ {r} : reqs'[s] = reqs[s]
        /\ reqs'[r].pc \notin {"retire", "issue"}
    BY <1>3, <1>i DEF ConsumeEmailToken, RequestType
  <2> QED BY <2>3, <2>4, MadeKept
<1>4. ASSUME NEW r \in Threads, InvalidateSelect(r) PROVE Made(by)'
  <2> DEFINE rows == Outstanding(reqs[r].user, Purpose(r))
  <2>1. /\ reqs' = [reqs EXCEPT ![r].seen = rows,
              ![r].pc = IF rows # {} THEN "retire" ELSE AfterRetire(r, FALSE)]
        /\ UNCHANGED tokens
    BY <1>4 DEF InvalidateSelect
  <2>2. /\ reqs'[r].kind = reqs[r].kind /\ reqs'[r].user = reqs[r].user
        /\ reqs'[r].seen = rows
        /\ reqs'[r].pc = "issue" => rows = {}
        /\ \A s \in Threads \ {r} : reqs'[s] = reqs[s]
    <3> HIDE DEF rows
    <3> QED BY <1>i, <2>1 DEF RequestType
  <2>3. \A u : Outstanding(u, RESET)' = Outstanding(u, RESET)
    BY <2>1, OutstandingKept
  <2>4. reqs[r].kind = "forgot" => rows = Outstanding(reqs[r].user, RESET)
    BY DEF Purpose
  <2> HIDE DEF rows
  <2>5. ASSUME NEW s \in Threads, reqs'[s].kind = "forgot",
               NEW t \in Outstanding(reqs[s].user, RESET)', by[t] = s
        PROVE  /\ reqs'[s].pc = "retire" => t \in reqs'[s].seen
               /\ reqs'[s].pc # "issue"
    <3>1. CASE s = r
      BY <2>2, <2>3, <2>4, <2>5, <3>1
    <3>2. CASE s # r
      BY <2>2, <2>3, <2>5, <3>2 DEF Made
    <3> QED BY <3>1, <3>2
  <2> QED BY <2>3, <2>5 DEF Made
<1>5. ASSUME NEW r \in Threads, InvalidateCommit(r) PROVE Made(by)'
  <2>1. /\ tokens' = [t \in TokenIds |-> IF t \in reqs[r].seen
                                         THEN [tokens[t] EXCEPT !.used = TRUE]
                                         ELSE tokens[t]]
        /\ reqs' = [reqs EXCEPT ![r].pc = AfterRetire(r, TRUE)]
        /\ reqs[r].pc = "retire"
    BY <1>5 DEF InvalidateCommit, At
  <2>2. \A t \in reqs[r].seen : t \in TokenIds /\ tokens[t] \in EmailToken
    BY <1>i, <2>1 DEF RequestOK, RequestType
  <2>3. \A u : /\ Outstanding(u, RESET)' \subseteq Outstanding(u, RESET)
               /\ Outstanding(u, RESET)' \cap reqs[r].seen = {}
    BY <1>i, <2>1, <2>2 DEF Outstanding, TokensOf, EmailToken
  <2>4. /\ reqs'[r].kind = reqs[r].kind /\ reqs'[r].user = reqs[r].user
        /\ reqs'[r].pc # "retire"
        /\ \A s \in Threads \ {r} : reqs'[s] = reqs[s]
    BY <1>i, <2>1 DEF RequestType, AfterRetire
  <2>5. ASSUME NEW s \in Threads, reqs'[s].kind = "forgot",
               NEW t \in Outstanding(reqs[s].user, RESET)', by[t] = s
        PROVE  /\ reqs'[s].pc = "retire" => t \in reqs'[s].seen
               /\ reqs'[s].pc # "issue"
    <3>0. t \in Outstanding(reqs[s].user, RESET)
      BY <2>3, <2>4, <2>5
    <3>1. CASE s = r
      <4>1. t \in reqs[r].seen
        BY <2>1, <2>4, <2>5, <3>0, <3>1 DEF Made
      <4> QED BY <2>3, <2>5, <4>1
    <3>2. CASE s # r
      BY <2>4, <2>5, <3>0, <3>2 DEF Made
    <3> QED BY <3>1, <3>2
  <2> QED BY <2>3, <2>5 DEF Made
<1>6. ASSUME NEW r \in Threads, NEW t \in TokenIds, CreateEmailToken(r, t)
      PROVE  LinksOK'
  <2> DEFINE row == [user |-> reqs[r].user, purpose |-> Purpose(r), used |-> FALSE,
           exp |-> now + (IF Purpose(r) = RESET THEN ResetTTL ELSE VerifyTTL)]
             made == [by EXCEPT ![t] = r]
  <2>1. /\ tokens' = [tokens EXCEPT ![t] = row]
        /\ reqs' = [reqs EXCEPT ![r].pc = "refresh", ![r].token = t]
        /\ reqs[r].pc = "issue" /\ tokens[t] = None
    BY <1>6 DEF CreateEmailToken, At
  <2>2. row.user = reqs[r].user /\ row.purpose = Purpose(r)
    OBVIOUS
  <2>3. /\ \A s \in Threads \ {r} : reqs'[s] = reqs[s]
        /\ reqs'[r].pc = "refresh"
        /\ reqs[r].kind \in Issuers
    BY <1>i, <2>1 DEF RequestType, RequestOK
  <2>4. made \in [TokenIds -> Threads \cup {None}] /\ made[t] = r
        /\ \A k \in TokenIds \ {t} : made[k] = by[k]
    OBVIOUS
  <2> HIDE DEF row, made
  <2>5. ASSUME NEW u \in Spellings
        PROVE  /\ Outstanding(u, RESET) \subseteq TokenIds \ {t}
               /\ Outstanding(u, RESET)' \subseteq Outstanding(u, RESET) \cup {t}
               /\ t \in Outstanding(u, RESET)' => reqs[r].kind = "forgot" /\ u = reqs[r].user
    <3>1. Outstanding(u, RESET) \subseteq TokenIds \ {t}
      BY <2>1 DEF Outstanding, TokensOf
    <3>2. Outstanding(u, RESET)' \subseteq Outstanding(u, RESET) \cup {t}
      BY <1>i, <2>1 DEF Outstanding, TokensOf
    <3>3. t \in Outstanding(u, RESET)' => row.purpose = RESET /\ row.user = u
      BY <1>i, <2>1 DEF Outstanding, TokensOf
    <3> QED BY <2>2, <2>3, <3>1, <3>2, <3>3 DEF Purpose, RESET, VERIFY, Issuers
  <2>6. \A k \in Outstanding(reqs[r].user, RESET) : reqs[r].kind = "forgot" => by[k] # r
    BY <2>1 DEF Made
  <2>7. ASSUME NEW u \in Spellings, NEW k \in Outstanding(u, RESET)'
        PROVE  /\ made[k] \in Threads
               /\ \A k2 \in Outstanding(u, RESET)' : made[k] = made[k2] => k = k2
    BY <2>4, <2>5, <2>6, <2>7 DEF Made
  <2>8. ASSUME NEW s \in Threads, reqs'[s].kind = "forgot",
               NEW k \in Outstanding(reqs[s].user, RESET)', made[k] = s
        PROVE  /\ reqs'[s].pc = "retire" => k \in reqs'[s].seen
               /\ reqs'[s].pc # "issue"
    <3>1. CASE s = r
      BY <2>3, <3>1
    <3>2. CASE s # r
      <4>1. reqs'[s] = reqs[s] /\ reqs[s].user \in Spellings
        BY <1>i, <2>3, <2>8, <3>2 DEF RequestOK
      <4>2. k # t
        BY <2>4, <2>8, <3>2
      <4>3. k \in Outstanding(reqs[s].user, RESET) /\ by[k] = s
        BY <2>4, <2>5, <2>8, <4>1, <4>2
      <4> QED BY <2>8, <4>1, <4>3 DEF Made
    <3> QED BY <3>1, <3>2
  <2>9. Made(made)'
    BY <2>7, <2>8 DEF Made
  <2> QED BY <2>4, <2>9 DEF LinksOK
<1>7. CASE (\E t \in TokenIds : SendEmail(t)) \/ Crash \/ Tick
  <2>1. /\ UNCHANGED tokens
        /\ reqs' = reqs \/ reqs' = [s \in Threads |-> Idle]
    BY <1>7 DEF SendEmail, Crash, Tick
  <2>2. Made(by)'
    BY <1>idle, <2>1, MadeKept, OutstandingKept
  <2> QED BY <1>w, <2>2
<1> QED
  BY <1>w, <1>1, <1>2, <1>3, <1>4, <1>5, <1>6, <1>7 DEF Next, Step

(* Every unused reset link has a maker of its own, in every behaviour. *)
LEMMA LinksHaveMakers == Spec => [](Inv /\ LinksOK)
<1>1. Init => LinksOK
  <2>1. ASSUME Init PROVE Made([t \in TokenIds |-> None])
    BY <2>1 DEF Init, Made, Outstanding, TokensOf, Idle, Begin
  <2> QED BY <2>1 DEF LinksOK
<1>2. Inv /\ LinksOK /\ [Next]_vars => LinksOK'
  <2>1. ASSUME Inv, LinksOK, UNCHANGED vars PROVE LinksOK'
    BY <2>1 DEF vars, LinksOK, Made, Outstanding, TokensOf
  <2> QED BY <2>1, MadeStep DEF LinksOK
<1> QED BY <1>1, <1>2, Invariant, PTL DEF Spec

(* An account has at most one live reset link per worker thread, whatever  *)
(* number of requests for one overlapped, failed or were cut short         *)
(* (invalidate_email_tokens and create_email_token of forgot_password).    *)
THEOREM LiveLinks == Spec => []LiveLinksBounded
<1>1. Inv /\ LinksOK => LiveLinksBounded
  <2> SUFFICES ASSUME LinksOK, NEW u \in Spellings
               PROVE  Cardinality({t \in TokenIds : get_usable_email_token(RESET, t)
                                      /\ tokens[t].user = u}) <= Cardinality(Threads)
    BY DEF LiveLinksBounded
  <2> DEFINE L == {t \in TokenIds : get_usable_email_token(RESET, t) /\ tokens[t].user = u}
  <2>1. PICK by \in [TokenIds -> Threads \cup {None}] : Made(by)
    BY DEF LinksOK
  <2>2. L \subseteq Outstanding(u, RESET)
    BY DEF Outstanding, TokensOf, get_usable_email_token
  <2> DEFINE f == [t \in L |-> by[t]]
  <2>3. \A t \in L : by[t] \in Threads /\ \A t2 \in L : by[t] = by[t2] => t = t2
    BY <2>1, <2>2 DEF Made
  <2> HIDE DEF L
  <2>4. f \in Injection(L, Threads)
    BY <2>3 DEF Injection, IsInjective
  <2>5. Cardinality(L) <= Cardinality(Threads)
    BY <2>4, ThreadsAssumption, FS_Injection
  <2> QED BY <2>5 DEF L
<1> QED BY <1>1, LinksHaveMakers, PTL

-----------------------------------------------------------------------------
(* How often a reset link can be redeemed. *)

(* The threads that hold a reset link which they have found usable and     *)
(* with which they may still change the password.                          *)
Redeeming(t) == {r \in Threads :
    /\ reqs[r].kind = "reset" /\ reqs[r].token = t
    /\ reqs[r].pc \notin {"refresh", "mark", "answer"}}

(* A link is found usable only before the first password change made with  *)
(* it, so every thread redeems it at most once.                            *)
SpentOK == \A t \in TokenIds :
    /\ spent[t] > 0 => tokens[t] # None /\ tokens[t].used
    /\ spent[t] + Cardinality(Redeeming(t)) <= Cardinality(Threads)

(* A token that is used stays, and stays used. *)
StaysUsed == \A t \in TokenIds :
    tokens[t] # None /\ tokens[t].used => tokens'[t] # None /\ tokens'[t].used

(* A step that spends no link and starts no reset. *)
LEMMA SpentKept ==
    ASSUME Inv, SpentOK, StaysUsed, UNCHANGED spent,
           \A t \in TokenIds : Redeeming(t)' \subseteq Redeeming(t)
    PROVE  SpentOK'
<1> SUFFICES ASSUME NEW t \in TokenIds
             PROVE  /\ spent'[t] > 0 => tokens'[t] # None /\ tokens'[t].used
                    /\ spent'[t] + Cardinality(Redeeming(t)') <= Cardinality(Threads)
  BY DEF SpentOK
<1>1. Redeeming(t) \subseteq Threads
  BY DEF Redeeming
<1>2. IsFiniteSet(Redeeming(t)) /\ IsFiniteSet(Redeeming(t)')
  BY <1>1, ThreadsAssumption, FS_Subset
<1>3. Cardinality(Redeeming(t)') <= Cardinality(Redeeming(t))
  BY <1>2, FS_Subset
<1>4. /\ Cardinality(Redeeming(t)') \in Nat /\ Cardinality(Redeeming(t)) \in Nat
      /\ Cardinality(Threads) \in Nat /\ spent[t] \in Nat
  BY <1>2, ThreadsAssumption, FS_CardinalityType DEF Inv, TypeOK
<1>5. spent[t] + Cardinality(Redeeming(t)) <= Cardinality(Threads)
  BY DEF SpentOK
<1>6. spent'[t] + Cardinality(Redeeming(t)') <= Cardinality(Threads)
  BY <1>3, <1>4, <1>5
<1> QED BY <1>6 DEF SpentOK, StaysUsed

(* used_at is never cleared. *)
LEMMA UsedStays ==
    ASSUME Inv, Next
    PROVE  StaysUsed
<1>i. /\ tokens \in [TokenIds -> EmailToken \cup {None}]
      /\ \A r \in Threads : reqs[r] \in RequestType /\ RequestOK(reqs[r])
      /\ mailbox \subseteq TokenIds
  BY DEF Inv, TypeOK, RequestsOK
<1>1. ASSUME NEW r \in Threads, ConsumeEmailToken(r) PROVE StaysUsed
  <2>1. reqs[r].token \in TokenIds /\ tokens[reqs[r].token] \in EmailToken
    BY <1>1, <1>i DEF ConsumeEmailToken, At, RequestOK
  <2>2. tokens' = [tokens EXCEPT ![reqs[r].token].used = TRUE]
    BY <1>1 DEF ConsumeEmailToken
  <2>3. [tokens[reqs[r].token] EXCEPT !.used = TRUE] \in EmailToken
    BY <2>1 DEF EmailToken
  <2>4. /\ tokens'[reqs[r].token] \in EmailToken /\ tokens'[reqs[r].token].used
        /\ \A x \in TokenIds \ {reqs[r].token} : tokens'[x] = tokens[x]
    BY <1>i, <2>1, <2>2, <2>3 DEF EmailToken
  <2> QED BY <2>4, NoneAssumption DEF StaysUsed
<1>2. ASSUME NEW r \in Threads, InvalidateCommit(r) PROVE StaysUsed
  <2>1. \A x \in TokenIds : tokens[x] # None /\ tokens[x].used =>
          /\ tokens[x] \in EmailToken
          /\ tokens'[x] \in {tokens[x], [tokens[x] EXCEPT !.used = TRUE]}
    BY <1>i, <1>2 DEF InvalidateCommit
  <2>2. \A x \in EmailToken : /\ [x EXCEPT !.used = TRUE] \in EmailToken
                              /\ [x EXCEPT !.used = TRUE].used
    BY DEF EmailToken
  <2> QED BY <2>1, <2>2, NoneAssumption DEF StaysUsed
<1>3. ASSUME NEW r \in Threads, NEW t \in TokenIds, CreateEmailToken(r, t) PROVE StaysUsed
  <2>1. tokens[t] = None /\ \A x \in TokenIds \ {t} : tokens'[x] = tokens[x]
    BY <1>i, <1>3 DEF CreateEmailToken
  <2> QED BY <2>1 DEF StaysUsed
<1>4. CASE UNCHANGED tokens
  BY <1>4 DEF StaysUsed
<1>5. \/ UNCHANGED tokens
      \/ \E r \in Threads : \/ ConsumeEmailToken(r) \/ InvalidateCommit(r)
                           \/ \E t \in TokenIds : CreateEmailToken(r, t)
  BY DEF Next, Arrive, Step, Register, Login, ForgotPassword, ResendVerification,
     VerifyEmail, ResetPassword, CreateUser, VerifyPassword, ReloadUser,
     InvalidateSelect, RereadUser, SetPassword, RefreshUser, MarkEmailVerified, Answer,
     Fail, SendEmail, Crash, Tick
<1> QED BY <1>1, <1>2, <1>3, <1>4, <1>5

(* Only two steps matter to the redeeming threads: reset_password finds a   *)
(* link usable, set_password changes the password with it.                 *)
LEMMA Redeemers ==
    ASSUME Inv, Next
    PROVE  \/ UNCHANGED spent /\ \A t \in TokenIds : Redeeming(t)' \subseteq Redeeming(t)
           \/ \E r \in Threads, t \in mailbox, p \in Passwords : ResetPassword(r, t, p)
           \/ \E r \in Threads : SetPassword(r)
<1> DEFINE kept == /\ UNCHANGED spent
                   /\ \A t \in TokenIds : Redeeming(t)' \subseteq Redeeming(t)
<1>i. /\ reqs \in [Threads -> RequestType]
      /\ \A r \in Threads : reqs[r] \in RequestType /\ RequestOK(reqs[r])
  BY DEF Inv, TypeOK, RequestsOK
<1>idle. Idle.kind # "reset"
  BY DEF Idle, Begin
<1>1. ASSUME NEW r \in Threads,
             \/ \E s \in Spellings, p \in Passwords : Register(r, s, p) \/ Login(r, s, p)
             \/ \E s \in Spellings : ForgotPassword(r, s)
             \/ \E j \in jwts : ResendVerification(r, j)
             \/ \E t \in mailbox : VerifyEmail(r, t)
      PROVE  kept
  <2>1. UNCHANGED spent
    BY <1>1 DEF Register, Login, ForgotPassword, ResendVerification, VerifyEmail, history
  <2>2. \A s \in Threads \ {r} : reqs'[s] = reqs[s]
    BY <1>1, <1>i DEF Register, Login, ForgotPassword, ResendVerification, VerifyEmail
  <2>3. reqs'[r].kind # "reset"
    <3>1. CASE \E s \in Spellings, p \in Passwords : Register(r, s, p)
      BY <3>1, <1>i DEF Register, Begin
    <3>2. CASE \E s \in Spellings, p \in Passwords : Login(r, s, p)
      BY <3>2, <1>i DEF Login, Begin
    <3>3. CASE \E s \in Spellings : ForgotPassword(r, s)
      BY <3>3, <1>i DEF ForgotPassword, Begin
    <3>4. CASE \E j \in jwts : ResendVerification(r, j)
      BY <3>4, <1>i DEF ResendVerification, Begin
    <3>5. CASE \E t \in mailbox : VerifyEmail(r, t)
      BY <3>5, <1>i DEF VerifyEmail, Begin
    <3> QED BY <1>1, <3>1, <3>2, <3>3, <3>4, <3>5
  <2>4. \A t \in TokenIds : Redeeming(t)' \subseteq Redeeming(t)
    BY <2>2, <2>3 DEF Redeeming
  <2> QED BY <2>1, <2>4
<1>2. ASSUME NEW r \in Threads,
             \/ CreateUser(r) \/ VerifyPassword(r) \/ ConsumeEmailToken(r)
             \/ ReloadUser(r) \/ InvalidateSelect(r) \/ InvalidateCommit(r)
             \/ RereadUser(r) \/ (\E t \in TokenIds : CreateEmailToken(r, t))
             \/ RefreshUser(r) \/ MarkEmailVerified(r) \/ Answer(r) \/ Fail(r)
      PROVE  kept
  <2>1. /\ UNCHANGED spent
        /\ \A s \in Threads \ {r} : reqs'[s] = reqs[s]
    BY <1>2, <1>i DEF CreateUser, VerifyPassword, ConsumeEmailToken, ReloadUser,
         InvalidateSelect, InvalidateCommit, RereadUser, CreateEmailToken, RefreshUser,
         MarkEmailVerified, Answer, Fail, history
  <2> DEFINE goal == \/ reqs'[r].kind # "reset"
                     \/ reqs'[r].pc \in {"refresh", "mark", "answer"}
                     \/ /\ reqs'[r].kind = reqs[r].kind
                        /\ reqs'[r].token = reqs[r].token
                        /\ reqs[r].pc \notin {"refresh", "mark", "answer"}
  <2>2. goal
    <3>1. CASE \/ CreateUser(r) \/ VerifyPassword(r) \/ Answer(r) \/ Fail(r)
      BY <3>1, <1>i, <1>idle DEF CreateUser, VerifyPassword, Answer, Fail, At, RequestType
    <3>2. CASE ConsumeEmailToken(r) \/ InvalidateCommit(r)
      <4>1. PICK pc : reqs' = [reqs EXCEPT ![r].pc = pc]
        BY <3>2 DEF ConsumeEmailToken, InvalidateCommit
      <4>2. reqs[r].pc \in {"consume", "retire"}
        BY <3>2 DEF ConsumeEmailToken, InvalidateCommit, At
      <4> QED BY <1>i, <4>1, <4>2 DEF RequestType
    <3>6. CASE ReloadUser(r) \/ RereadUser(r)
      BY <3>6, <1>i DEF ReloadUser, RereadUser, At, RequestType
    <3>3. CASE InvalidateSelect(r)
      <4> DEFINE rows == Outstanding(reqs[r].user, Purpose(r))
      <4>1. /\ reqs' = [reqs EXCEPT ![r].seen = rows,
                   ![r].pc = IF rows # {} THEN "retire" ELSE AfterRetire(r, FALSE)]
            /\ reqs[r].pc = "select"
        BY <3>3 DEF InvalidateSelect, At
      <4> HIDE DEF rows
      <4> QED BY <1>i, <4>1 DEF RequestType
    <3>4. CASE \E t \in TokenIds : CreateEmailToken(r, t)
      <4>1. reqs'[r].pc = "refresh"
        <5>1. PICK t \in TokenIds : reqs' = [reqs EXCEPT ![r].pc = "refresh", ![r].token = t]
          BY <3>4 DEF CreateEmailToken
        <5> QED BY <1>i, <5>1 DEF RequestType
      <4> QED BY <4>1
    <3>5. CASE RefreshUser(r) \/ MarkEmailVerified(r)
      BY <3>5, <1>i DEF RefreshUser, MarkEmailVerified, RequestType
    <3> QED BY <1>2, <3>1, <3>2, <3>3, <3>4, <3>5, <3>6
  <2>3. \A t \in TokenIds : Redeeming(t)' \subseteq Redeeming(t)
    BY <2>1, <2>2 DEF Redeeming
  <2> QED BY <2>1, <2>3
<1>3. ASSUME (\E t \in TokenIds : SendEmail(t)) \/ Crash \/ Tick
      PROVE  kept
  <2>1. /\ UNCHANGED spent
        /\ reqs' = reqs \/ reqs' = [s \in Threads |-> Idle]
    BY <1>3 DEF SendEmail, Crash, Tick, history
  <2>2. \A t \in TokenIds : Redeeming(t)' \subseteq Redeeming(t)
    BY <1>idle, <2>1 DEF Redeeming
  <2> QED BY <2>1, <2>2
<1> QED
  BY <1>1, <1>2, <1>3 DEF Next, Arrive, Step

(* Every step keeps SpentOK; set_password turns a redeeming thread into a   *)
(* password change.                                                        *)
LEMMA SpentStep ==
    ASSUME Inv, SpentOK, Next
    PROVE  SpentOK'
<1>i. /\ reqs \in [Threads -> RequestType]
      /\ spent \in [TokenIds -> Nat]
      /\ \A r \in Threads : reqs[r] \in RequestType /\ RequestOK(reqs[r])
  BY DEF Inv, TypeOK, RequestsOK
<1>p. StaysUsed
  BY UsedStays
<1>1. ASSUME NEW r \in Threads, NEW t \in mailbox, NEW p \in Passwords,
             ResetPassword(r, t, p)
      PROVE  SpentOK'
  <2>1. t \in TokenIds /\ ~tokens[t].used /\ spent' = spent
    BY <1>1 DEF ResetPassword, get_usable_email_token, history, Inv, TypeOK
  <2>2. spent[t] = 0
    BY <1>i, <2>1 DEF SpentOK
  <2>3. /\ reqs'[r].token = t
        /\ \A s \in Threads \ {r} : reqs'[s] = reqs[s]
    BY <1>1, <1>i DEF ResetPassword, Begin
  <2> SUFFICES ASSUME NEW k \in TokenIds
               PROVE  /\ spent'[k] > 0 => tokens'[k] # None /\ tokens'[k].used
                      /\ spent'[k] + Cardinality(Redeeming(k)') <= Cardinality(Threads)
    BY DEF SpentOK
  <2>4. spent'[k] > 0 => tokens'[k] # None /\ tokens'[k].used
    BY <1>p, <2>1 DEF SpentOK, StaysUsed
  <2>5. Redeeming(k)' \subseteq Threads /\ Redeeming(k) \subseteq Threads
    BY DEF Redeeming
  <2>6. /\ IsFiniteSet(Redeeming(k)') /\ IsFiniteSet(Redeeming(k))
        /\ Cardinality(Redeeming(k)') <= Cardinality(Threads)
    BY <2>5, ThreadsAssumption, FS_Subset
  <2>7. /\ Cardinality(Redeeming(k)') \in Nat /\ Cardinality(Redeeming(k)) \in Nat
        /\ Cardinality(Threads) \in Nat
    BY <2>6, ThreadsAssumption, FS_CardinalityType
  <2>8. CASE k = t
    BY <2>1, <2>2, <2>4, <2>6, <2>7, <2>8
  <2>9. CASE k # t
    <3>1. Redeeming(k)' \subseteq Redeeming(k)
      BY <2>3, <2>9 DEF Redeeming
    <3>2. Cardinality(Redeeming(k)') <= Cardinality(Redeeming(k))
      BY <2>6, <3>1, FS_Subset
    <3>3. spent[k] + Cardinality(Redeeming(k)) <= Cardinality(Threads) /\ spent[k] \in Nat
      BY <1>i DEF SpentOK
    <3> QED BY <2>1, <2>4, <2>7, <3>2, <3>3
  <2> QED BY <2>8, <2>9
<1>2. ASSUME NEW r \in Threads, SetPassword(r)
      PROVE  SpentOK'
  <2> DEFINE t == reqs[r].token
  <2>1. /\ t \in TokenIds /\ tokens[t] # None /\ tokens[t].used
        /\ reqs[r].kind = "reset" /\ reqs[r].pc = "password"
    BY <1>2, <1>i DEF SetPassword, At, RequestOK, Inv, TypeOK
  <2>2. /\ spent' = [spent EXCEPT ![t] = @ + 1] /\ tokens' = tokens
        /\ reqs' = [reqs EXCEPT ![r].pc = "refresh"]
    BY <1>2 DEF SetPassword, PasswordHistory
  <2>3. /\ reqs'[r].pc = "refresh"
        /\ \A s \in Threads \ {r} : reqs'[s] = reqs[s]
    BY <1>i, <2>2 DEF RequestType
  <2>4. r \in Redeeming(t)
    BY <2>1 DEF Redeeming
  <2>5. \A k \in TokenIds : Redeeming(k)' \subseteq Redeeming(k) \ {r}
    BY <2>3 DEF Redeeming
  <2> HIDE DEF t
  <2> SUFFICES ASSUME NEW k \in TokenIds
               PROVE  /\ spent'[k] > 0 => tokens'[k] # None /\ tokens'[k].used
                      /\ spent'[k] + Cardinality(Redeeming(k)') <= Cardinality(Threads)
    BY DEF SpentOK
  <2>6. Redeeming(k) \subseteq Threads
    BY DEF Redeeming
  <2>7. /\ IsFiniteSet(Redeeming(k)') /\ IsFiniteSet(Redeeming(k))
        /\ Cardinality(Redeeming(k)') <= Cardinality(Redeeming(k))
    <3>1. IsFiniteSet(Redeeming(k))
      BY <2>6, ThreadsAssumption, FS_Subset
    <3>2. Redeeming(k)' \subseteq Redeeming(k)
      BY <2>5
    <3> QED BY <3>1, <3>2, FS_Subset
  <2>8. /\ Cardinality(Redeeming(k)') \in Nat /\ Cardinality(Redeeming(k)) \in Nat
        /\ Cardinality(Threads) \in Nat
    BY <2>7, ThreadsAssumption, FS_CardinalityType
  <2>9. spent[k] + Cardinality(Redeeming(k)) <= Cardinality(Threads) /\ spent[k] \in Nat
    BY <1>i DEF SpentOK
  <2>10. CASE k = t
    <3>1. /\ IsFiniteSet(Redeeming(k) \ {r})
          /\ Cardinality(Redeeming(k) \ {r}) = Cardinality(Redeeming(k)) - 1
      BY <2>4, <2>7, <2>10, FS_RemoveElement
    <3>2. Cardinality(Redeeming(k)') <= Cardinality(Redeeming(k) \ {r})
      BY <2>5, <3>1, FS_Subset
    <3>3. spent'[k] = spent[k] + 1
      BY <1>i, <2>2, <2>10
    <3>4. spent'[k] + Cardinality(Redeeming(k)') <= Cardinality(Threads)
      BY <2>8, <2>9, <3>1, <3>2, <3>3
    <3> QED BY <2>1, <2>2, <2>10, <3>4
  <2>11. CASE k # t
    <3>1. spent'[k] = spent[k]
      BY <1>i, <2>2, <2>11
    <3>2. spent'[k] + Cardinality(Redeeming(k)') <= Cardinality(Threads)
      BY <2>7, <2>8, <2>9, <3>1
    <3> QED BY <2>2, <3>1, <3>2 DEF SpentOK
  <2> QED BY <2>10, <2>11
<1>3. CASE UNCHANGED spent /\ \A t \in TokenIds : Redeeming(t)' \subseteq Redeeming(t)
  BY <1>p, <1>3, SpentKept
<1> QED
  BY <1>1, <1>2, <1>3, Redeemers

(* SpentOK holds in every behaviour. *)
LEMMA LinksAreSpentByThreads == Spec => []SpentOK
<1>1. Init => SpentOK
  <2> SUFFICES ASSUME Init, NEW t \in TokenIds
               PROVE  /\ ~(spent[t] > 0)
                      /\ spent[t] + Cardinality(Redeeming(t)) <= Cardinality(Threads)
    BY DEF SpentOK
  <2>1. Redeeming(t) = {} /\ spent[t] = 0
    BY DEF Init, Redeeming, Idle, Begin
  <2>2. Cardinality({}) = 0 /\ Cardinality(Threads) \in Nat
    BY FS_EmptySet, FS_CardinalityType, ThreadsAssumption
  <2> QED BY <2>1, <2>2
<1>2. Inv /\ SpentOK /\ [Next]_vars => SpentOK'
  <2>1. ASSUME Inv, SpentOK, UNCHANGED vars PROVE SpentOK'
    BY <2>1 DEF vars, SpentOK, Redeeming
  <2> QED BY <2>1, SpentStep
<1> QED BY <1>1, <1>2, Invariant, PTL DEF Spec

(* However many clients submit one reset link at once, it changes the      *)
(* password at most once per worker thread (reset_password checks the link *)
(* before it consumes it).                                                 *)
THEOREM OncePerThread ==
    Spec => [](\A t \in TokenIds : spent[t] <= Cardinality(Threads))
<1>1. Inv /\ SpentOK => \A t \in TokenIds : spent[t] <= Cardinality(Threads)
  <2> SUFFICES ASSUME Inv, SpentOK, NEW t \in TokenIds
               PROVE  spent[t] <= Cardinality(Threads)
    OBVIOUS
  <2>1. Redeeming(t) \subseteq Threads
    BY DEF Redeeming
  <2>2. /\ Cardinality(Redeeming(t)) \in Nat /\ Cardinality(Threads) \in Nat
        /\ spent[t] \in Nat
    BY <2>1, ThreadsAssumption, FS_Subset, FS_CardinalityType DEF Inv, TypeOK
  <2> QED BY <2>2 DEF SpentOK
<1> QED BY <1>1, LinksAreSpentByThreads, Invariant, PTL

(* While no link is redeemed by two requests at once, who is redeeming a    *)
(* link has not spent it, and nobody spends it twice.                      *)
OnceOK == \A t \in TokenIds :
    /\ spent[t] <= 1
    /\ Redeeming(t) # {} => spent[t] = 0

(* Every step keeps OnceOK while links are redeemed by one request a time. *)
LEMMA OnceStep ==
    ASSUME Inv, SpentOK, OnceOK, LinksRedeemedApart, Next
    PROVE  OnceOK'
<1>i. /\ reqs \in [Threads -> RequestType]
      /\ spent \in [TokenIds -> Nat]
      /\ mailbox \subseteq TokenIds
      /\ \A r \in Threads : reqs[r] \in RequestType /\ RequestOK(reqs[r])
  BY DEF Inv, TypeOK, RequestsOK
<1>1. CASE UNCHANGED spent /\ \A t \in TokenIds : Redeeming(t)' \subseteq Redeeming(t)
  BY <1>1 DEF OnceOK
<1>2. ASSUME NEW r \in Threads, NEW t \in mailbox, NEW p \in Passwords,
             ResetPassword(r, t, p)
      PROVE  OnceOK'
  <2>1. t \in TokenIds /\ ~tokens[t].used /\ spent' = spent
    BY <1>2, <1>i DEF ResetPassword, get_usable_email_token, history
  <2>2. spent[t] = 0
    BY <1>i, <2>1 DEF SpentOK
  <2>3. /\ reqs'[r].token = t
        /\ \A s \in Threads \ {r} : reqs'[s] = reqs[s]
    BY <1>2, <1>i DEF ResetPassword, Begin
  <2>4. \A k \in TokenIds \ {t} : Redeeming(k)' \subseteq Redeeming(k)
    BY <2>3 DEF Redeeming
  <2> QED BY <2>1, <2>2, <2>4 DEF OnceOK
<1>3. ASSUME NEW r \in Threads, SetPassword(r)
      PROVE  OnceOK'
  <2> DEFINE t == reqs[r].token
  <2>1. /\ t \in TokenIds
        /\ reqs[r].kind = "reset" /\ reqs[r].pc = "password"
    BY <1>3, <1>i DEF SetPassword, At, RequestOK
  <2>2. /\ spent' = [spent EXCEPT ![t] = @ + 1]
        /\ reqs' = [reqs EXCEPT ![r].pc = "refresh"]
    BY <1>3 DEF SetPassword, PasswordHistory
  <2>3. /\ reqs'[r].pc = "refresh"
        /\ \A s \in Threads \ {r} : reqs'[s] = reqs[s]
    BY <1>i, <2>2 DEF RequestType
  <2>4. \A k \in TokenIds : Redeeming(k)' \subseteq Redeeming(k) \ {r}
    BY <2>3 DEF Redeeming
  <2>5. r \in Redeeming(t)
    BY <2>1 DEF Redeeming
  <2>6. Redeeming(t) \subseteq {r}
    <3> SUFFICES ASSUME NEW s \in Redeeming(t) PROVE s = r
      OBVIOUS
    <3>1. /\ s \in Threads /\ reqs[s].kind = "reset" /\ reqs[s].token = t
          /\ reqs[s].pc \notin {"refresh", "mark", "answer"}
      BY DEF Redeeming
    <3>2. reqs[s].pc \in Resetting
      BY <1>i, <3>1 DEF RequestOK, RequestType, PCs, Issuers, Resetting
    <3>3. reqs[r].pc \in Resetting
      BY <2>1 DEF Resetting
    <3> QED BY <2>1, <3>1, <3>2, <3>3 DEF LinksRedeemedApart
  <2>7. spent[t] = 0
    BY <2>1, <2>5 DEF OnceOK
  <2> HIDE DEF t
  <2>8. \A k \in TokenIds : k = t => Redeeming(k)' = {}
    BY <2>4, <2>6
  <2>9. /\ spent'[t] = 1
        /\ \A k \in TokenIds \ {t} : spent'[k] = spent[k]
    BY <1>i, <2>1, <2>2, <2>7
  <2> SUFFICES ASSUME NEW k \in TokenIds
               PROVE  spent'[k] <= 1 /\ (Redeeming(k)' # {} => spent'[k] = 0)
    BY DEF OnceOK
  <2>10. CASE k = t
    BY <2>8, <2>9, <2>10
  <2>11. CASE k # t
    <3>1. Redeeming(k)' \subseteq Redeeming(k)
      BY <2>4
    <3> QED BY <2>9, <2>11, <3>1 DEF OnceOK
  <2> QED BY <2>10, <2>11
<1> QED BY <1>1, <1>2, <1>3, Redeemers

(* A reset link is single-use, as email_tokens documents it, for any pool  *)
(* of worker threads, as long as no two requests redeem one link at the    *)
(* same time; without that it is not (run auth_double_submit).             *)
THEOREM SpentOnce == Spec => LinksAreSpentOnce
<1>1. Init => OnceOK
  BY DEF Init, OnceOK, Redeeming, Idle, Begin
<1>2. Inv /\ SpentOK /\ OnceOK /\ LinksRedeemedApart /\ [Next]_vars => OnceOK'
  <2>1. ASSUME OnceOK, UNCHANGED vars PROVE OnceOK'
    BY <2>1 DEF vars, OnceOK, Redeeming
  <2> QED BY <2>1, OnceStep
<1>3. OnceOK => SingleUse
  BY DEF OnceOK, SingleUse
<1> QED BY <1>1, <1>2, <1>3, Invariant, LinksAreSpentByThreads, PTL DEF Spec, LinksAreSpentOnce

-----------------------------------------------------------------------------
(* The sessions of the service. *)

(* Nobody knows of a password change that has not happened. *)
AsofOK ==
    /\ \A j \in jwts : j.asof <= changes[j.user]
    /\ \A r \in Threads :
         reqs[r].user \in Spellings => reqs[r].asof <= changes[reqs[r].user]

(* While the resets of an account do not overlap, one that is under way    *)
(* knows of every change, and so no two changes ever overlap.              *)
UnderWay(q) == /\ q.kind = "reset"
               /\ q.pc \in {"select", "retire", "reread", "password"}
SerialOK ==
    /\ \A u \in Spellings : ~overlapped[u]
    /\ \A r \in Threads :
         UnderWay(reqs[r]) => reqs[r].asof = changes[reqs[r].user]

(* A step of one request that commits no password change. *)
LEMMA AsofOfRequest ==
    ASSUME Inv, AsofOK, NEW r \in Threads, UNCHANGED changes,
           \A s \in Threads \ {r} : reqs'[s] = reqs[s],
           reqs'[r].user \in Spellings =>
             \/ reqs'[r].user = reqs[r].user /\ reqs'[r].asof = reqs[r].asof
             \/ reqs'[r].asof \in {0, changes[reqs'[r].user]},
           \A j \in jwts' : \/ j \in jwts
                            \/ /\ reqs[r].user \in Spellings
                               /\ j.user = reqs[r].user /\ j.asof = reqs[r].asof
    PROVE  AsofOK'
<1>1. changes \in [Spellings -> Nat]
  BY DEF Inv, TypeOK
<1>2. \A s \in Threads :
        reqs'[s].user \in Spellings => reqs'[s].asof <= changes'[reqs'[s].user]
  BY <1>1 DEF AsofOK
<1>3. \A j \in jwts' : j.asof <= changes'[j.user]
  BY DEF AsofOK
<1> QED BY <1>2, <1>3 DEF AsofOK

(* Every step keeps AsofOK, with any number of threads. *)
LEMMA AsofStep ==
    ASSUME Inv, AsofOK, Next
    PROVE  AsofOK'
<1>i. /\ reqs \in [Threads -> RequestType]
      /\ changes \in [Spellings -> Nat]
      /\ jwts \subseteq Jwt
      /\ \A r \in Threads : reqs[r] \in RequestType /\ RequestOK(reqs[r])
  BY DEF Inv, TypeOK, RequestsOK
<1>idle. Idle.user = None /\ None \notin Spellings
  BY NoneAssumption DEF Idle, Begin
<1>1. ASSUME NEW r \in Threads, Arrive(r)
      PROVE  AsofOK'
  <2>1. /\ UNCHANGED <<changes, jwts>>
        /\ \A s \in Threads \ {r} : reqs'[s] = reqs[s]
    BY <1>1, <1>i DEF Arrive, Register, Login, ForgotPassword, ResendVerification,
         VerifyEmail, ResetPassword, history
  <2>2. reqs'[r].asof \in {0, changes[reqs'[r].user]}
    <3>1. CASE \E s \in Spellings, p \in Passwords : Register(r, s, p)
      BY <3>1, <1>i DEF Register, Begin
    <3>2. CASE \E s \in Spellings, p \in Passwords : Login(r, s, p)
      BY <3>2, <1>i DEF Login, Begin
    <3>3. CASE \E s \in Spellings : ForgotPassword(r, s)
      BY <3>3, <1>i DEF ForgotPassword, Begin
    <3>4. CASE \E j \in jwts : ResendVerification(r, j)
      BY <3>4, <1>i DEF ResendVerification, Begin
    <3>5. CASE \E t \in mailbox : VerifyEmail(r, t)
      BY <3>5, <1>i DEF VerifyEmail, Begin
    <3>6. CASE \E t \in mailbox, p \in Passwords : ResetPassword(r, t, p)
      BY <3>6, <1>i DEF ResetPassword, Begin
    <3> QED BY <1>1, <3>1, <3>2, <3>3, <3>4, <3>5, <3>6 DEF Arrive
  <2> QED BY <2>1, <2>2, AsofOfRequest
<1>2. ASSUME NEW r \in Threads,
             \/ CreateUser(r) \/ ConsumeEmailToken(r) \/ InvalidateSelect(r)
             \/ InvalidateCommit(r) \/ (\E t \in TokenIds : CreateEmailToken(r, t))
             \/ MarkEmailVerified(r) \/ Fail(r)
      PROVE  AsofOK'
  <2>1. /\ UNCHANGED <<changes, jwts>>
        /\ \A s \in Threads \ {r} : reqs'[s] = reqs[s]
    BY <1>2, <1>i DEF CreateUser, ConsumeEmailToken, InvalidateSelect, InvalidateCommit,
         CreateEmailToken, MarkEmailVerified, Fail, history
  <2>2. \/ reqs'[r] = Idle
        \/ reqs'[r].user = reqs[r].user /\ reqs'[r].asof = reqs[r].asof
    <3>1. CASE CreateUser(r) \/ Fail(r)
      BY <3>1, <1>i DEF CreateUser, Fail, RequestType
    <3>2. CASE ConsumeEmailToken(r) \/ InvalidateCommit(r) \/ MarkEmailVerified(r)
      <4>1. PICK pc : reqs' = [reqs EXCEPT ![r].pc = pc]
        BY <3>2 DEF ConsumeEmailToken, InvalidateCommit, MarkEmailVerified
      <4> QED BY <1>i, <4>1 DEF RequestType
    <3>3. CASE InvalidateSelect(r)
      <4>1. PICK rows, pc : reqs' = [reqs EXCEPT ![r].seen = rows, ![r].pc = pc]
        BY <3>3 DEF InvalidateSelect
      <4> QED BY <1>i, <4>1 DEF RequestType
    <3>4. CASE \E t \in TokenIds : CreateEmailToken(r, t)
      <4>1. PICK t \in TokenIds : reqs' = [reqs EXCEPT ![r].pc = "refresh", ![r].token = t]
        BY <3>4 DEF CreateEmailToken
      <4> QED BY <1>i, <4>1 DEF RequestType
    <3> QED BY <1>2, <3>1, <3>2, <3>3, <3>4
  <2> QED BY <1>idle, <2>1, <2>2, AsofOfRequest
<1>3. ASSUME NEW r \in Threads, ReloadUser(r) \/ RereadUser(r) \/ RefreshUser(r)
      PROVE  AsofOK'
  <2>1. /\ UNCHANGED <<changes, jwts>>
        /\ \A s \in Threads \ {r} : reqs'[s] = reqs[s]
    BY <1>3, <1>i DEF ReloadUser, RereadUser, RefreshUser, history
  <2>2. PICK ver, pc : reqs' = [reqs EXCEPT ![r].ver = ver,
                                  ![r].asof = changes[reqs[r].user], ![r].pc = pc]
    BY <1>3 DEF ReloadUser, RereadUser, RefreshUser
  <2>3. reqs'[r].user = reqs[r].user /\ reqs'[r].asof = changes[reqs[r].user]
    BY <1>i, <2>2 DEF RequestType
  <2> QED BY <2>1, <2>3, AsofOfRequest
<1>4. ASSUME NEW r \in Threads, VerifyPassword(r) \/ Answer(r)
      PROVE  AsofOK'
  <2>1. /\ UNCHANGED changes
        /\ \A s \in Threads \ {r} : reqs'[s] = reqs[s]
        /\ reqs'[r] = Idle
    BY <1>4, <1>i DEF VerifyPassword, Answer, history
  <2>2. reqs[r].user \in Spellings
    BY <1>4, <1>i DEF VerifyPassword, Answer, At, RequestOK
  <2>3. jwts' \subseteq jwts \cup {token_for(reqs[r].user, reqs[r].ver, reqs[r].asof)}
    BY <1>4 DEF VerifyPassword, Answer, RegisterResponse, ResetResponse
  <2>4. \A j \in jwts' : j \in jwts \/ (j.user = reqs[r].user /\ j.asof = reqs[r].asof)
    BY <2>3 DEF token_for
  <2> QED BY <1>idle, <2>1, <2>2, <2>4, AsofOfRequest
<1>5. ASSUME NEW r \in Threads, SetPassword(r)
      PROVE  AsofOK'
  <2>1. reqs[r].user \in Spellings
    BY <1>5, <1>i DEF SetPassword, At, RequestOK
  <2>2. /\ jwts' = jwts /\ reqs' = [reqs EXCEPT ![r].pc = "refresh"]
        /\ changes' = [changes EXCEPT ![reqs[r].user] = @ + 1]
    BY <1>5 DEF SetPassword, PasswordHistory
  <2>3. \A u \in Spellings : changes[u] \in Nat /\ changes'[u] \in {changes[u], changes[u] + 1}
    BY <1>i, <2>1, <2>2
  <2>4. \A s \in Threads : reqs'[s].user = reqs[s].user /\ reqs'[s].asof = reqs[s].asof
    BY <1>i, <2>2 DEF RequestType
  <2>5. \A s \in Threads : reqs[s].asof \in Nat
    BY <1>i DEF RequestType
  <2>6. \A j \in jwts : j.asof \in Nat /\ j.user \in Spellings
    BY <1>i DEF Jwt
  <2>7. \A s \in Threads :
          reqs'[s].user \in Spellings => reqs'[s].asof <= changes'[reqs'[s].user]
    BY <2>3, <2>4, <2>5 DEF AsofOK
  <2>8. \A j \in jwts' : j.asof <= changes'[j.user]
    BY <2>2, <2>3, <2>6 DEF AsofOK
  <2> QED BY <2>7, <2>8 DEF AsofOK
<1>6. CASE (\E t \in TokenIds : SendEmail(t)) \/ Crash \/ Tick
  <2>1. /\ UNCHANGED <<changes, jwts>>
        /\ reqs' = reqs \/ reqs' = [s \in Threads |-> Idle]
    BY <1>6 DEF SendEmail, Crash, Tick, history
  <2> QED BY <1>idle, <2>1 DEF AsofOK
<1> QED
  BY <1>1, <1>2, <1>3, <1>4, <1>5, <1>6 DEF Next, Step

(* A step of one request that commits no password change. *)
LEMMA SerialOfRequest ==
    ASSUME SerialOK, NEW r \in Threads, UNCHANGED <<changes, overlapped>>,
           \A s \in Threads \ {r} : reqs'[s] = reqs[s],
           UnderWay(reqs'[r]) => reqs'[r].asof = changes[reqs'[r].user]
    PROVE  SerialOK'
BY DEF SerialOK, UnderWay

(* Every step keeps SerialOK while resets of one account do not overlap.   *)
LEMMA SerialStep ==
    ASSUME Inv, SerialOK, ResetsApart, Next
    PROVE  SerialOK'
<1>i. /\ reqs \in [Threads -> RequestType]
      /\ \A r \in Threads : reqs[r] \in RequestType /\ RequestOK(reqs[r])
      /\ overlapped \in [Spellings -> BOOLEAN]
      /\ changes \in [Spellings -> Nat]
  BY DEF Inv, TypeOK, RequestsOK
<1>idle. ~UnderWay(Idle)
  BY DEF Idle, Begin, UnderWay
<1>1. ASSUME NEW r \in Threads, Arrive(r)
      PROVE  SerialOK'
  <2>1. /\ UNCHANGED <<changes, overlapped>>
        /\ \A s \in Threads \ {r} : reqs'[s] = reqs[s]
    BY <1>1, <1>i DEF Arrive, Register, Login, ForgotPassword, ResendVerification,
         VerifyEmail, ResetPassword, history
  <2>2. reqs'[r].pc \in {"create", "consume", "bcrypt"} \/ reqs'[r].kind # "reset"
    <3>1. CASE \E s \in Spellings, p \in Passwords : Register(r, s, p)
      BY <3>1, <1>i DEF Register, Begin
    <3>2. CASE \E s \in Spellings, p \in Passwords : Login(r, s, p)
      BY <3>2, <1>i DEF Login, Begin
    <3>3. CASE \E s \in Spellings : ForgotPassword(r, s)
      BY <3>3, <1>i DEF ForgotPassword, Begin
    <3>4. CASE \E j \in jwts : ResendVerification(r, j)
      BY <3>4, <1>i DEF ResendVerification, Begin
    <3>5. CASE \E t \in mailbox : VerifyEmail(r, t)
      BY <3>5, <1>i DEF VerifyEmail, Begin
    <3>6. CASE \E t \in mailbox, p \in Passwords : ResetPassword(r, t, p)
      BY <3>6, <1>i DEF ResetPassword, Begin
    <3> QED BY <1>1, <3>1, <3>2, <3>3, <3>4, <3>5, <3>6 DEF Arrive
  <2> QED BY <2>1, <2>2, SerialOfRequest DEF UnderWay
<1>2. ASSUME NEW r \in Threads, VerifyPassword(r) \/ Answer(r) \/ Fail(r)
      PROVE  SerialOK'
  <2>1. /\ UNCHANGED <<changes, overlapped>>
        /\ \A s \in Threads \ {r} : reqs'[s] = reqs[s]
        /\ reqs'[r] = Idle
    BY <1>2, <1>i DEF VerifyPassword, Answer, Fail, history
  <2> QED BY <1>idle, <2>1, SerialOfRequest
<1>3. ASSUME NEW r \in Threads, CreateUser(r)
      PROVE  SerialOK'
  <2>1. /\ UNCHANGED <<changes, overlapped>>
        /\ \A s \in Threads \ {r} : reqs'[s] = reqs[s]
        /\ reqs[r].kind = "register"
    BY <1>3, <1>i DEF CreateUser, At, RequestOK, history
  <2>2. reqs'[r] = Idle \/ reqs'[r].kind # "reset"
    BY <1>3, <1>i, <2>1 DEF CreateUser, RequestType
  <2>3. ~UnderWay(reqs'[r])
    BY <1>idle, <2>2 DEF UnderWay
  <2> QED BY <2>1, <2>3, SerialOfRequest
<1>4. ASSUME NEW r \in Threads,
             \/ ConsumeEmailToken(r) \/ RefreshUser(r) \/ MarkEmailVerified(r)
             \/ \E t \in TokenIds : CreateEmailToken(r, t)
      PROVE  SerialOK'
  <2>1. /\ UNCHANGED <<changes, overlapped>>
        /\ \A s \in Threads \ {r} : reqs'[s] = reqs[s]
    BY <1>4, <1>i DEF ConsumeEmailToken, RefreshUser, MarkEmailVerified, CreateEmailToken, history
  <2>2. reqs'[r].pc \in {"reload", "refresh", "mark", "answer"}
    <3>1. CASE ConsumeEmailToken(r) \/ MarkEmailVerified(r)
      BY <3>1, <1>i DEF ConsumeEmailToken, MarkEmailVerified, RequestType
    <3>2. CASE RefreshUser(r)
      BY <3>2, <1>i DEF RefreshUser, RequestType
    <3>3. CASE \E t \in TokenIds : CreateEmailToken(r, t)
      <4>1. PICK t \in TokenIds : reqs' = [reqs EXCEPT ![r].pc = "refresh", ![r].token = t]
        BY <3>3 DEF CreateEmailToken
      <4> QED BY <1>i, <4>1 DEF RequestType
    <3> QED BY <1>4, <3>1, <3>2, <3>3
  <2> QED BY <2>1, <2>2, SerialOfRequest DEF UnderWay
<1>5. ASSUME NEW r \in Threads, ReloadUser(r) \/ RereadUser(r)
      PROVE  SerialOK'
  <2>1. /\ UNCHANGED <<changes, overlapped>>
        /\ \A s \in Threads \ {r} : reqs'[s] = reqs[s]
    BY <1>5, <1>i DEF ReloadUser, RereadUser, history
  <2>2. PICK ver, pc : reqs' = [reqs EXCEPT ![r].ver = ver,
                                  ![r].asof = changes[reqs[r].user], ![r].pc = pc]
    BY <1>5 DEF ReloadUser, RereadUser
  <2>3. reqs'[r].user = reqs[r].user /\ reqs'[r].asof = changes[reqs[r].user]
    BY <1>i, <2>2 DEF RequestType
  <2> QED BY <2>1, <2>3, SerialOfRequest
<1>6. ASSUME NEW r \in Threads, InvalidateSelect(r) \/ InvalidateCommit(r)
      PROVE  SerialOK'
  <2>1. /\ UNCHANGED <<changes, overlapped>>
        /\ \A s \in Threads \ {r} : reqs'[s] = reqs[s]
        /\ reqs[r].pc \in {"select", "retire"}
    BY <1>6, <1>i DEF InvalidateSelect, InvalidateCommit, At, history
  <2>2. /\ reqs'[r].user = reqs[r].user /\ reqs'[r].asof = reqs[r].asof
        /\ reqs'[r].kind = reqs[r].kind
    <3>1. CASE InvalidateCommit(r)
      <4>1. PICK pc : reqs' = [reqs EXCEPT ![r].pc = pc]
        BY <3>1 DEF InvalidateCommit
      <4> QED BY <1>i, <4>1 DEF RequestType
    <3>2. CASE InvalidateSelect(r)
      <4>1. PICK rows, pc : reqs' = [reqs EXCEPT ![r].seen = rows, ![r].pc = pc]
        BY <3>2 DEF InvalidateSelect
      <4> QED BY <1>i, <4>1 DEF RequestType
    <3> QED BY <1>6, <3>1, <3>2
  <2>3. UnderWay(reqs'[r]) => reqs'[r].asof = changes[reqs'[r].user]
    BY <2>1, <2>2 DEF SerialOK, UnderWay
  <2> QED BY <2>1, <2>3, SerialOfRequest
<1>7. ASSUME NEW r \in Threads, SetPassword(r)
      PROVE  SerialOK'
  <2> DEFINE u == reqs[r].user
  <2>1. /\ reqs[r].pc = "password" /\ reqs[r].kind = "reset" /\ u \in Spellings
    BY <1>7, <1>i DEF SetPassword, At, RequestOK
  <2>2. /\ overlapped' = [overlapped EXCEPT ![u] = @ \/ reqs[r].asof # changes[u]]
        /\ changes' = [changes EXCEPT ![u] = @ + 1]
        /\ reqs' = [reqs EXCEPT ![r].pc = "refresh"]
    BY <1>7 DEF SetPassword, PasswordHistory
  <2>3. reqs[r].asof = changes[u]
    BY <2>1 DEF SerialOK, UnderWay
  <2>4. \A x \in Spellings : ~overlapped'[x]
    BY <1>i, <2>2, <2>3 DEF SerialOK
  <2>5. /\ reqs'[r].pc = "refresh"
        /\ \A s \in Threads \ {r} : reqs'[s] = reqs[s]
    BY <1>i, <2>2 DEF RequestType
  <2>6. ASSUME NEW s \in Threads, UnderWay(reqs'[s])
        PROVE  reqs'[s].asof = changes'[reqs'[s].user]
    <3>1. s # r /\ reqs'[s] = reqs[s]
      BY <2>5, <2>6 DEF UnderWay
    <3>2. reqs[s].user \in Spellings /\ reqs[s].user # u
      <4>1. /\ reqs[s].kind = "reset" /\ reqs[s].pc \in Resetting
            /\ reqs[r].pc \in Resetting
        BY <2>1, <2>6, <3>1 DEF UnderWay, Resetting
      <4>2. reqs[s].user \in Spellings
        BY <1>i, <4>1 DEF RequestOK
      <4> QED BY <2>1, <3>1, <4>1, <4>2 DEF ResetsApart
    <3>3. changes'[reqs[s].user] = changes[reqs[s].user]
      BY <1>i, <2>2, <3>2
    <3> QED BY <2>6, <3>1, <3>3 DEF SerialOK
  <2> QED BY <2>4, <2>6 DEF SerialOK
<1>8. CASE (\E t \in TokenIds : SendEmail(t)) \/ Crash \/ Tick
  <2>1. /\ UNCHANGED <<changes, overlapped>>
        /\ reqs' = reqs \/ reqs' = [s \in Threads |-> Idle]
    BY <1>8 DEF SendEmail, Crash, Tick, history
  <2> QED BY <1>idle, <2>1 DEF SerialOK
<1> QED
  BY <1>1, <1>2, <1>3, <1>4, <1>5, <1>6, <1>7, <1>8 DEF Next, Step

(* AsofOK holds in every behaviour. *)
LEMMA NobodyForesees == Spec => [](Inv /\ AsofOK)
<1>1. Init => AsofOK
  BY NoneAssumption DEF Init, AsofOK, Idle, Begin
<1>2. Inv /\ AsofOK /\ [Next]_vars => AsofOK'
  <2>1. ASSUME AsofOK, UNCHANGED vars PROVE AsofOK'
    BY <2>1 DEF vars, AsofOK
  <2> QED BY <2>1, AsofStep
<1> QED BY <1>1, <1>2, Invariant, PTL DEF Spec

(* While resets of one account do not overlap, so does SerialOK. *)
LEMMA ApartIsSerial == Spec /\ []ResetsApart => []SerialOK
<1>1. Init => SerialOK
  BY DEF Init, SerialOK, UnderWay, Idle, Begin
<1>2. Inv /\ SerialOK /\ ResetsApart /\ [Next]_vars => SerialOK'
  <2>1. ASSUME SerialOK, UNCHANGED vars PROVE SerialOK'
    BY <2>1 DEF vars, SerialOK, UnderWay
  <2> QED BY <2>1, SerialStep
<1> QED BY <1>1, <1>2, Invariant, PTL DEF Spec

(* The sessions that are accepted. *)
Live == {j \in jwts : get_current_user(j)}

(* A step that neither issues a token, nor changes a version behind one,   *)
(* nor moves the clock, changes no session.                                *)
LEMMA SessionsStay ==
    ASSUME Inv, UNCHANGED <<jwts, changes, overlapped, now>>,
           \A u \in Spellings : users[u] # None =>
             users'[u] # None /\ users'[u].ver = users[u].ver
    PROVE  UNCHANGED <<jwts, Live, changes, overlapped>>
<1>1. \A j \in jwts : users[j.user] # None /\ j.user \in Spellings
  BY DEF Inv, JwtsOK, TypeOK, Jwt
<1>2. \A j \in jwts : get_current_user(j)' <=> get_current_user(j)
  BY <1>1 DEF get_current_user
<1> QED BY <1>2 DEF Live

(* set_password touches no session of another account.  Unless it raced    *)
(* another change of its own, it ends every session and revives none: the  *)
(* new version is one that no token carries yet.                           *)
LEMMA PasswordChangeKills ==
    ASSUME Inv, AsofOK, NEW r \in Threads, SetPassword(r)
    PROVE  \E u \in Spellings : Session!PasswordChange(u)
<1> DEFINE u == reqs[r].user
<1>i. /\ reqs[r] \in RequestType /\ RequestOK(reqs[r])
      /\ users \in [Spellings -> User \cup {None}]
      /\ changes \in [Spellings -> Nat]
      /\ \A j \in jwts : j \in Jwt /\ j.ver \in Nat /\ j.asof \in Nat /\ j.user \in Spellings
  BY DEF Inv, TypeOK, RequestsOK, Jwt
<1>1. /\ u \in Spellings /\ users[u] # None /\ users[u] \in User
      /\ reqs[r].ver \in Nat /\ reqs[r].pw \in Passwords
      /\ ~overlapped[u] => reqs[r].ver = reqs[r].asof
      /\ reqs[r].kind = "reset" /\ reqs[r].pc = "password"
  BY <1>i DEF SetPassword, At, RequestOK, RequestType
<1>r. overlapped' = [overlapped EXCEPT ![u] = @ \/ reqs[r].asof # changes[u]]
  BY DEF SetPassword, PasswordHistory
<1>o. overlapped \in [Spellings -> BOOLEAN] /\ changes[u] \in Nat
  BY <1>i, <1>1 DEF Inv, TypeOK
<1>2. /\ overlapped' \in {overlapped, [overlapped EXCEPT ![u] = TRUE]}
      /\ ~overlapped'[u] => ~overlapped[u] /\ reqs[r].ver = changes[u]
  <2>1. CASE overlapped[u] \/ reqs[r].asof # changes[u]
    BY <1>1, <1>r, <1>o, <2>1
  <2>2. CASE ~overlapped[u] /\ reqs[r].asof = changes[u]
    <3>1. overlapped' = overlapped
      BY <1>1, <1>r, <1>o, <2>2
    <3> QED BY <1>1, <2>2, <3>1
  <2> QED BY <2>1, <2>2
<1>3. \A j \in jwts : j.user = u /\ ~overlapped[u] => j.ver <= changes[u]
  BY <1>i DEF Inv, JwtsOK, AsofOK
<1>4. /\ changes' = [changes EXCEPT ![u] = @ + 1]
      /\ users' = [users EXCEPT ![u].pw = reqs[r].pw, ![u].ver = reqs[r].ver + 1]
      /\ UNCHANGED <<jwts, now>>
  BY DEF SetPassword, PasswordHistory
<1>5. /\ users'[u].ver = reqs[r].ver + 1
      /\ \A x \in Spellings \ {u} : users'[x] = users[x]
  BY <1>i, <1>1, <1>4 DEF User
<1> HIDE DEF u
<1>6. ~overlapped'[u] => \A j \in jwts : j.user = u => ~get_current_user(j)'
  <2> SUFFICES ASSUME ~overlapped'[u], NEW j \in jwts, j.user = u
               PROVE  j.ver # users'[u].ver
    BY <1>4 DEF get_current_user
  <2>1. j.ver \in Nat /\ j.ver <= changes[u]
    BY <1>i, <1>2, <1>3
  <2> QED BY <1>2, <1>5, <1>o, <2>1
<1>7. \A j \in jwts : j.user # u => (get_current_user(j)' <=> get_current_user(j))
  BY <1>i, <1>4, <1>5 DEF get_current_user
<1> DEFINE L == {j \in jwts : get_current_user(j)}
           M == {j \in jwts' : get_current_user(j)'}
<1>8. /\ M \ {j \in M : j.user = u} = L \ {j \in L : j.user = u}
      /\ {j \in M : j.user = u} \subseteq jwts
      /\ ~overlapped'[u] => {j \in M : j.user = u} = {}
  BY <1>4, <1>6, <1>7
<1>9. Session!PasswordChange(u)
  BY <1>2, <1>4, <1>8 DEF Session!PasswordChange, Session!Of
<1> QED BY <1>1, <1>9 DEF u

(* A token that is handed out is the only session that can begin. *)
LEMMA TokenSignsIn ==
    ASSUME NEW j, jwts' = jwts \cup {j}, UNCHANGED <<users, now, changes, overlapped>>
    PROVE  j \in jwts' /\ Live' \in {Live, Live \cup {j}}
<1>1. \A k : get_current_user(k)' <=> get_current_user(k)
  BY DEF get_current_user
<1> QED BY <1>1 DEF Live

(* Every step is a step of Sessions or leaves the sessions as they are. *)
LEMMA StepSessions ==
    ASSUME Inv, AsofOK, [Next]_vars
    PROVE  [Session!Next]_(Session!vars)
<1> USE DEF Live
<1>0. ASSUME UNCHANGED <<jwts, Live, changes, overlapped>>
      PROVE  [Session!Next]_(Session!vars)
  BY <1>0 DEF Session!vars
<1>1. CASE UNCHANGED vars
  <2>1. UNCHANGED <<jwts, users, now, changes, overlapped>>
    BY <1>1 DEF vars
  <2>2. UNCHANGED <<jwts, Live, changes, overlapped>>
    BY <2>1 DEF get_current_user
  <2> QED BY <1>0, <2>2
<1>2. ASSUME NEW r \in Threads, SetPassword(r)
      PROVE  [Session!Next]_(Session!vars)
  BY <1>2, PasswordChangeKills DEF Session!Next
<1>3. ASSUME NEW r \in Threads, VerifyPassword(r) \/ Answer(r)
      PROVE  [Session!Next]_(Session!vars)
  <2> DEFINE j == token_for(reqs[r].user, reqs[r].ver, reqs[r].asof)
  <2>1. UNCHANGED <<users, now, changes, overlapped>> /\ jwts' \in {jwts, jwts \cup {j}}
    BY <1>3 DEF VerifyPassword, Answer, RegisterResponse, ResetResponse, history
  <2> HIDE DEF j
  <2>2. CASE jwts' = jwts
    <3>1. UNCHANGED <<jwts, Live, changes, overlapped>>
      BY <2>1, <2>2 DEF get_current_user
    <3> QED BY <1>0, <3>1
  <2>3. CASE jwts' = jwts \cup {j}
    <3>1. j \in jwts' /\ Live' \in {Live, Live \cup {j}}
      BY <2>1, <2>3, TokenSignsIn
    <3>2. Session!SignIn
      BY <2>1, <2>3, <3>1 DEF Session!SignIn
    <3> QED BY <3>2 DEF Session!Next
  <2> QED BY <2>1, <2>2, <2>3
<1>4. CASE Tick
  <2>1. UNCHANGED <<users, jwts, changes, overlapped>> /\ now' = now + 1 /\ now \in Nat
    BY <1>4 DEF Tick, history, Inv, TypeOK
  <2>2. \A k \in jwts : k.exp \in Nat
    BY DEF Inv, TypeOK, Jwt
  <2>3. \A k \in jwts : get_current_user(k)' => get_current_user(k)
    BY <2>1, <2>2 DEF get_current_user
  <2>4. Live' \subseteq Live
    BY <2>1, <2>3
  <2>5. Session!Expire
    BY <2>1, <2>4 DEF Session!Expire
  <2> QED BY <2>5 DEF Session!Next
<1>5. ASSUME NEW r \in Threads, CreateUser(r) \/ MarkEmailVerified(r)
      PROVE  [Session!Next]_(Session!vars)
  <2>i. /\ reqs[r] \in RequestType /\ RequestOK(reqs[r])
        /\ users \in [Spellings -> User \cup {None}]
    BY DEF Inv, TypeOK, RequestsOK
  <2>1. UNCHANGED <<jwts, changes, overlapped, now>>
    BY <1>5 DEF CreateUser, MarkEmailVerified, history
  <2>2. ASSUME NEW u \in Spellings, users[u] # None
        PROVE  users'[u] # None /\ users'[u].ver = users[u].ver
    <3>1. CASE CreateUser(r)
      BY <2>i, <2>2, <3>1 DEF CreateUser
    <3>2. CASE MarkEmailVerified(r)
      <4>1. users' = [users EXCEPT ![reqs[r].user].verified = TRUE]
        BY <3>2 DEF MarkEmailVerified
      <4>2. users[u] \in User
        BY <2>i, <2>2
      <4>3. /\ [users[u] EXCEPT !.verified = TRUE] \in User
            /\ [users[u] EXCEPT !.verified = TRUE].ver = users[u].ver
        BY <4>2 DEF User
      <4>4. users'[u] \in {users[u], [users[u] EXCEPT !.verified = TRUE]}
        BY <2>i, <4>1
      <4> QED BY <4>2, <4>3, <4>4, NoneAssumption
    <3> QED BY <1>5, <3>1, <3>2
  <2>3. UNCHANGED <<jwts, Live, changes, overlapped>>
    BY <2>1, <2>2, SessionsStay
  <2> QED BY <1>0, <2>3
<1>6. CASE \/ \E r \in Threads :
                \/ Arrive(r) \/ ConsumeEmailToken(r) \/ ReloadUser(r)
                \/ InvalidateSelect(r) \/ InvalidateCommit(r) \/ RereadUser(r)
                \/ (\E t \in TokenIds : CreateEmailToken(r, t))
                \/ RefreshUser(r) \/ Fail(r)
           \/ (\E t \in TokenIds : SendEmail(t)) \/ Crash
  <2>1. UNCHANGED <<jwts, users, now, changes, overlapped>>
    BY <1>6 DEF Arrive, Register, Login, ForgotPassword, ResendVerification,
       VerifyEmail, ResetPassword, ConsumeEmailToken, ReloadUser, InvalidateSelect,
       InvalidateCommit, RereadUser, CreateEmailToken, RefreshUser, Fail, SendEmail,
       Crash, history
  <2>2. UNCHANGED <<jwts, Live, changes, overlapped>>
    BY <2>1 DEF get_current_user
  <2> QED BY <1>0, <2>2
<1> QED
  BY <1>1, <1>2, <1>3, <1>4, <1>5, <1>6 DEF Next, Step

(* However requests overlap, the JWTs implement the sessions that are      *)
(* promised: a password change ends exactly the sessions of its account    *)
(* and none comes back, unless it raced another change of that account     *)
(* (set_password, token_for, get_current_user).                            *)
THEOREM SessionsImplemented == Spec => ImplementsSessions
<1>1. Init => Session!Init
  BY DEF Init, Session!Init
<1>2. Inv /\ AsofOK /\ [Next]_vars => [Session!Next]_(Session!vars)
  BY StepSessions
<1> QED BY <1>1, <1>2, NobodyForesees, PTL DEF Spec, ImplementsSessions, Session!Spec

(* With any pool of worker threads, a password change ends every session   *)
(* of its account, with no exception, as long as no two resets of one      *)
(* account are under way at once; without that it may not                  *)
(* (run auth_lost_bump).                                                   *)
THEOREM ResetsApartEndSessions == Spec => ResetsEndSessions
<1>1. Inv /\ SerialOK => ResetEndsEverySession
  BY DEF Inv, TypeOK, Jwt, RowsOK, JwtsOK, SerialOK, ResetEndsEverySession, get_current_user
<1> QED BY <1>1, Invariant, ApartIsSerial, PTL DEF ResetsEndSessions

=============================================================================
