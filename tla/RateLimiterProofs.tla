------------------------- MODULE RateLimiterProofs -------------------------
(***************************************************************************)
(* Proofs about RateLimiter for every number of threads and clients, every *)
(* rule and every lag.  The window property needs two relations between    *)
(* the deques and the admissions: an entry that can still share a window   *)
(* with a new one is in the deque, as far from its end as from the end of  *)
(* the log (KeptOK), and the entries of a deque are out of order by at     *)
(* most the longest wait for the lock (OrderOK), so that the last one      *)
(* speaks for the others when the sweep looks at nothing else.             *)
(***************************************************************************)
EXTENDS RateLimiter, FiniteSetTheorems, WellFoundedInduction, TLAPS

(* The key of a check is the address of the client's connection to nginx.  *)
KeyedByPeer == \A t \in Threads : calls[t] # Idle =>
             calls[t].key \in Peers /\ calls[t].peer = calls[t].key

OrderOK ==
    /\ last_sweep <= clock
    /\ \A t \in Threads : calls[t].now <= clock
    /\ \A k \in Peers : hits[k] # None => \A i \in 1 .. Len(hits[k]) :
          /\ hits[k][i] <= clock
          /\ \A j \in i .. Len(hits[k]) : hits[k][i] <= hits[k][j] + lag

KeptOK ==
    \A p \in Peers : \A i \in 1 .. Len(log[p]) :
        log[p][i] > clock - Window + lag =>
            /\ hits[p] # None
            /\ i + Len(hits[p]) - Len(log[p]) >= 1
            /\ hits[p][i + Len(hits[p]) - Len(log[p])] = log[p][i]

PromiseOK ==
    \A k \in Peers : promise[k] # None /\ hits[k] # None =>
        hits[k] # <<>> /\ hits[k][1] + Window < promise[k]

(* The window property for every end of the window, past or future. *)
EveryWindow ==
    \A p \in Peers, e \in Int :
        Cardinality(InWindow(p, e, Window - 2 * lag)) <= Limit

Inv == TypeOK /\ KeyedByPeer /\ OrderOK /\ KeptOK /\ PromiseOK
       /\ DequeBounded /\ SweptKeysGone /\ EveryWindow

-----------------------------------------------------------------------------
(* A set of naturals has a minimum.                                        *)
LEMMA SmallestNat ==
    ASSUME NEW S \in SUBSET Nat, S # {}
    PROVE  Min(S) \in S /\ \A y \in S : Min(S) <= y
<1>1. PICK x \in S : \A y \in S : ~(<<y, x>> \in OpToRel(<, Nat))
  BY NatLessThanWellFounded, WFMin
<1>2. \A y \in S : x <= y
  <2>1. ASSUME NEW y \in S PROVE x <= y
    <3>1. ~(y < x)
      BY <1>1, <2>1 DEF OpToRel
    <3> QED BY <3>1
  <2> QED BY <2>1
<1> QED BY <1>2 DEF Min

(* The loop of check pops the first d entries, all of them expired, and    *)
(* stops at one that is not.                                               *)
LEMMA PruneFacts ==
    ASSUME NEW h \in Seq(Nat), NEW cutoff \in Int
    PROVE  /\ Prune(h, cutoff) \in Seq(Nat)
           /\ \E d \in 0 .. Len(h) :
                 /\ Len(Prune(h, cutoff)) = Len(h) - d
                 /\ \A i \in 1 .. Len(h) - d : Prune(h, cutoff)[i] = h[i + d]
                 /\ \A i \in 1 .. d : h[i] <= cutoff
                 /\ d < Len(h) => h[d + 1] > cutoff
<1> DEFINE live == {i \in 1 .. Len(h) : h[i] > cutoff}
<1>1. CASE live = {}
  <2>1. Prune(h, cutoff) = <<>>
    BY <1>1 DEF Prune
  <2>2. \A i \in 1 .. Len(h) : h[i] <= cutoff
    BY <1>1
  <2> QED BY <2>1, <2>2
<1>2. CASE live # {}
  <2> DEFINE m == Min(live)
  <2>1. m \in live /\ \A y \in live : m <= y
    <3>1. live \in SUBSET Nat
      OBVIOUS
    <3> HIDE DEF live
    <3> QED BY <1>2, <3>1, SmallestNat
  <2>2. Prune(h, cutoff) = SubSeq(h, m, Len(h))
    BY <1>2 DEF Prune
  <2> HIDE DEF m
  <2>3. m \in 1 .. Len(h) /\ h[m] > cutoff /\ \A i \in 1 .. m - 1 : h[i] <= cutoff
    BY <2>1
  <2>4. /\ SubSeq(h, m, Len(h)) \in Seq(Nat)
        /\ Len(SubSeq(h, m, Len(h))) = Len(h) - (m - 1)
        /\ \A i \in 1 .. Len(h) - (m - 1) : SubSeq(h, m, Len(h))[i] = h[i + (m - 1)]
    BY <2>3
  <2>5. m - 1 \in 0 .. Len(h) /\ h[(m - 1) + 1] > cutoff
    BY <2>3
  <2> QED BY <2>2, <2>3, <2>4, <2>5
<1> QED BY <1>1, <1>2

(* The address nginx appends is the one that counts. *)
LEMMA ClientIp ==
    ASSUME NEW peer \in Peers, NEW sent \in Headers
    PROVE  client_ip(Append(sent, peer), Proxy) = peer
<1> DEFINE S == Range(sent)
           n == Len(sent) + 1
           named == Entries(Append(sent, peer))
<1>1. sent \in Seq(S)
  BY PeersAssumption
<1> HIDE DEF S
<1>2. Len(Append(sent, peer)) = n /\ n \in Nat /\ n >= 1 /\ Append(sent, peer)[n] = peer
  BY <1>1
<1>3. /\ n \in named /\ named \subseteq 1 .. n
      /\ \A y \in named : n >= y
  BY <1>2, PeersAssumption DEF Entries
<1>4. Max(named) = n
  <2>1. \A x \in named : x \in Int
    BY <1>2, <1>3
  <2> QED BY <1>3, <2>1 DEF Max
<1> QED BY <1>2, <1>3, <1>4 DEF client_ip

(* Rounded down and one more, the seconds cover the ticks. *)
LEMMA RoundedUp ==
    ASSUME NEW a \in Nat, NEW b \in Nat \ {0}
    PROVE  a \div b \in Nat /\ a < (a \div b + 1) * b
<1>1. a = b * (a \div b) + (a % b) /\ a % b < b /\ a % b >= 0
  OBVIOUS
<1>2. a \div b \in Nat
  OBVIOUS
<1>3. (a \div b + 1) * b = b * (a \div b) + b
  BY <1>2
<1> QED BY <1>1, <1>2, <1>3

(* A part of a set within the limit is within the limit.                   *)
LEMMA NotMore ==
    ASSUME NEW S, NEW T, IsFiniteSet(T), S \subseteq T, Cardinality(T) <= Limit
    PROVE  Cardinality(S) <= Limit
<1>1. S \in SUBSET T
  OBVIOUS
<1>2. IsFiniteSet(S) /\ Cardinality(S) <= Cardinality(T)
  BY <1>1, FS_Subset
<1>3. Cardinality(S) \in Nat /\ Cardinality(T) \in Nat
  BY <1>2, FS_CardinalityType
<1> QED BY <1>2, <1>3, RuleAssumption

(* A window holds finitely many admissions.                                *)
LEMMA WindowsAreFinite ==
    ASSUME TypeOK, NEW p \in Peers, NEW e, NEW w
    PROVE  IsFiniteSet(InWindow(p, e, w))
<1>1. Len(log[p]) \in Nat
  BY DEF TypeOK
<1>2. IsFiniteSet(1 .. Len(log[p])) /\ InWindow(p, e, w) \in SUBSET (1 .. Len(log[p]))
  BY <1>1, FS_Interval DEF InWindow
<1> QED BY <1>2, FS_Subset

(* The invariant holds in a new process.                                   *)
LEMMA InitInv == Init => Inv
<1> SUFFICES ASSUME Init PROVE Inv
  OBVIOUS
<1>1. TypeOK
  BY DEF Init, TypeOK, Idle
<1>2. KeyedByPeer /\ OrderOK /\ KeptOK /\ PromiseOK /\ DequeBounded /\ SweptKeysGone
  BY DEF Init, KeyedByPeer, OrderOK, KeptOK, PromiseOK, DequeBounded, SweptKeysGone, Idle
<1>3. EveryWindow
  <2>1. ASSUME NEW p \in Peers, NEW e, NEW w PROVE InWindow(p, e, w) = {}
    BY DEF Init, InWindow
  <2> QED BY <2>1, FS_EmptySet, RuleAssumption DEF EveryWindow
<1> QED BY <1>1, <1>2, <1>3 DEF Inv

-----------------------------------------------------------------------------
(* What a check finds after the sweep, and what the loop leaves of it. *)
Found(t) == LET s == Swept(calls[t].now)[calls[t].key] IN IF s = None THEN <<>> ELSE s
Left(t) == Prune(Found(t), calls[t].now - Window)

(* The sweep leaves a deque alone or drops it when it is drained.          *)
LEMMA SweepFacts ==
    ASSUME Inv, NEW now \in Nat
    PROVE  /\ Swept(now) \in [Peers -> Seq(Nat) \cup {None}]
           /\ \A k \in Peers :
                /\ \/ Swept(now)[k] = hits[k]
                   \/ Swept(now)[k] = None /\ hits[k] # None /\ Drained(k, now)
                /\ SweepNow(now) /\ Swept(now)[k] # None
                      => hits[k] # <<>> /\ Last(hits[k]) > now - Widest
<1>1. hits \in [Peers -> Seq(Nat) \cup {None}]
  BY DEF Inv, TypeOK
<1>2. CASE ~SweepNow(now)
  BY <1>1, <1>2 DEF Swept
<1>3. CASE SweepNow(now)
  <2>1. Swept(now) = [k \in Peers |-> IF hits[k] # None /\ Drained(k, now) THEN None
                                      ELSE hits[k]]
    BY <1>3 DEF Swept
  <2>2. Swept(now) \in [Peers -> Seq(Nat) \cup {None}]
    BY <1>1, <2>1
  <2>3. ASSUME NEW k \in Peers, Swept(now)[k] # None
        PROVE  hits[k] # <<>> /\ Last(hits[k]) > now - Widest
    <3>1. hits[k] \in Seq(Nat) /\ ~Drained(k, now)
      BY <1>1, <2>1, <2>3
    <3>2. hits[k] # <<>> /\ ~(Last(hits[k]) <= now - Widest)
      BY <3>1 DEF Drained
    <3>3. Last(hits[k]) \in Nat
      BY <3>1, <3>2 DEF Last
    <3> QED BY <3>2, <3>3, RuleAssumption
  <2> QED BY <2>1, <2>2, <2>3
<1> QED BY <1>2, <1>3

(* The sweep never drops a deque that holds a recent admission: its last   *)
(* entry is at most the lag older.                                         *)
LEMMA SweepKeeps ==
    ASSUME Inv, NEW now \in Nat, now <= clock,
           NEW p \in Peers, NEW i \in 1 .. Len(log[p]), log[p][i] > clock - Window + lag
    PROVE  Swept(now)[p] = hits[p]
<1> DEFINE H == hits[p]
           L == log[p]
           n == i + Len(H) - Len(L)
<1>1. /\ H # None /\ n >= 1 /\ H[n] = L[i] /\ L[i] > clock - Window + lag
      /\ H \in Seq(Nat) /\ L \in Seq(Nat) /\ i \in 1 .. Len(L)
      /\ clock \in Nat /\ lag \in Nat
  BY DEF Inv, TypeOK, KeptOK
<1>2. \A j \in 1 .. Len(H) : \A k \in j .. Len(H) : H[j] <= H[k] + lag
  BY <1>1 DEF Inv, OrderOK
<1>3. Drained(p, now) <=> H = <<>> \/ H[Len(H)] <= now - Widest
  BY DEF Drained, Last
<1>4. Swept(now)[p] = H \/ Drained(p, now)
  BY SweepFacts
<1> HIDE DEF H, L
<1>5. n \in 1 .. Len(H) /\ H # <<>> /\ Len(H) \in n .. Len(H)
  BY <1>1
<1> HIDE DEF n
<1>6. H[n] \in Nat /\ H[Len(H)] \in Nat
  BY <1>1, <1>5
<1>7. ~(H[Len(H)] <= now - Widest)
  <2>1. H[n] <= H[Len(H)] + lag
    BY <1>2, <1>5
  <2>2. H[n] > clock - Window + lag /\ clock \in Nat /\ lag \in Nat
    BY <1>1
  <2> QED BY <1>6, <2>1, <2>2, RuleAssumption
<1>8. ~Drained(p, now)
  BY <1>3, <1>5, <1>7
<1> QED BY <1>4, <1>8 DEF H

(* What is left when a check decides. *)
LEMMA LeftFacts ==
    ASSUME Inv, NEW t \in Threads, calls[t] # Idle
    PROVE  /\ calls[t].key \in Peers /\ calls[t].peer = calls[t].key
           /\ calls[t].now \in Nat /\ calls[t].now <= clock
           /\ Found(t) \in Seq(Nat) /\ Left(t) \in Seq(Nat)
           /\ \/ Found(t) = <<>>
              \/ Found(t) = hits[calls[t].key] /\ hits[calls[t].key] # None
           /\ \E d \in 0 .. Len(Found(t)) :
                 /\ Len(Left(t)) = Len(Found(t)) - d
                 /\ \A i \in 1 .. Len(Found(t)) - d : Left(t)[i] = Found(t)[i + d]
                 /\ \A i \in 1 .. d : Found(t)[i] <= calls[t].now - Window
                 /\ d < Len(Found(t)) => Found(t)[d + 1] > calls[t].now - Window
<1>1. /\ calls[t].key \in Peers /\ calls[t].peer = calls[t].key
      /\ calls[t].now \in Nat /\ calls[t].now <= clock
  BY DEF Inv, TypeOK, KeyedByPeer, OrderOK
<1>2. /\ Found(t) \in Seq(Nat)
      /\ \/ Found(t) = <<>>
         \/ Found(t) = hits[calls[t].key] /\ hits[calls[t].key] # None
  BY <1>1, SweepFacts DEF Found
<1>3. calls[t].now - Window \in Int
  BY <1>1, RuleAssumption
<1> QED BY <1>1, <1>2, <1>3, PruneFacts DEF Left

(* Pruning leaves every admission that a window can still reach.           *)
LEMMA RecentLeft ==
    ASSUME Inv, NEW t \in Threads, calls[t] # Idle,
           NEW i \in 1 .. Len(log[calls[t].key]),
           log[calls[t].key][i] > clock - Window + lag
    PROVE  LET L == log[calls[t].key] IN
           /\ i + Len(Left(t)) - Len(L) >= 1
           /\ Left(t)[i + Len(Left(t)) - Len(L)] = L[i]
<1> DEFINE p == calls[t].key
<1>1. /\ p \in Peers /\ calls[t].now \in Nat /\ calls[t].now <= clock
      /\ Found(t) \in Seq(Nat) /\ Left(t) \in Seq(Nat)
  BY LeftFacts
<1>2. Swept(calls[t].now)[p] = hits[p]
  BY <1>1, SweepKeeps
<1> DEFINE H == hits[p]
           L == log[p]
           Q == Left(t)
           n == i + Len(H) - Len(L)
<1>3. /\ H # None /\ n >= 1 /\ H[n] = L[i] /\ L[i] > clock - Window + lag
      /\ H \in Seq(Nat) /\ L \in Seq(Nat) /\ i \in 1 .. Len(L)
      /\ clock \in Nat /\ lag \in Nat /\ Q \in Seq(Nat)
  BY <1>1 DEF Inv, TypeOK, KeptOK
<1>4. Found(t) = H
  BY <1>2, <1>3 DEF Found
<1>5. PICK d \in 0 .. Len(H) :
                 /\ Len(Q) = Len(H) - d
                 /\ \A j \in 1 .. Len(H) - d : Q[j] = H[j + d]
                 /\ \A j \in 1 .. d : H[j] <= calls[t].now - Window
  BY <1>4, LeftFacts
<1> HIDE DEF H, L, Q
<1>6. n \in 1 .. Len(H) /\ L[i] \in Nat
  <2>1. Len(H) \in Nat /\ Len(L) \in Nat /\ i \in 1 .. Len(L)
    BY <1>3
  <2>2. n \in 1 .. Len(H)
    BY <1>3, <2>1
  <2>3. L[i] \in Nat
    <3>1. L \in Seq(Nat) /\ i \in 1 .. Len(L)
      BY <1>3
    <3> QED BY <3>1
  <2> QED BY <2>2, <2>3
<1>7. ~(L[i] <= calls[t].now - Window)
  <2>1. L[i] > clock - Window + lag /\ clock \in Nat /\ lag \in Nat
    BY <1>3
  <2>2. calls[t].now \in Nat /\ calls[t].now <= clock
    BY <1>1
  <2> QED BY <1>6, <2>1, <2>2, RuleAssumption
<1>8. n - d \in 1 .. Len(H) - d /\ (n - d) + d = n
  <2>1. Len(H) \in Nat /\ n \in 1 .. Len(H) /\ H[n] = L[i]
    BY <1>3, <1>6
  <2> HIDE DEF n
  <2>2. ~(n <= d)
    BY <1>5, <1>7, <2>1
  <2> QED BY <2>1, <2>2
<1>9. Q[n - d] = L[i]
  BY <1>3, <1>5, <1>8
<1>10. i + Len(Q) - Len(L) = n - d /\ n - d >= 1
  BY <1>3, <1>5, <1>8
<1> QED BY <1>9, <1>10 DEF H, L, Q

-----------------------------------------------------------------------------
(* One check, entry by entry. *)
LEMMA CheckFacts ==
    ASSUME Inv, NEW t \in Threads, check(t)
    PROVE  LET k == calls[t].key
               now == calls[t].now
           IN  /\ calls[t] # Idle /\ k \in Peers /\ now \in Nat /\ now <= clock
               /\ Left(t) \in Seq(Nat) /\ clock' = clock
               /\ calls' = [calls EXCEPT ![t] = Idle]
               /\ last_sweep' = (IF SweepNow(now) THEN now ELSE last_sweep)
               /\ lag' \in Nat /\ lag' >= lag /\ lag' >= clock - now
               /\ hits' \in [Peers -> Seq(Nat) \cup {None}]
               /\ \A p \in Peers : p # k => hits'[p] = Swept(now)[p]
               /\ \/ /\ Len(Left(t)) < Limit
                     /\ hits'[k] = Append(Left(t), now)
                     /\ log' = [log EXCEPT ![k] = Append(log[k], now)]
                     /\ promise' = [promise EXCEPT ![k] = None]
                  \/ /\ ~(Len(Left(t)) < Limit)
                     /\ hits'[k] = Left(t)
                     /\ log' = log
                     /\ promise' = [promise EXCEPT ![k] =
                           now + RetryAfter(Left(t), now) * TicksPerSecond]
<1> DEFINE k == calls[t].key
           now == calls[t].now
<1>1. calls[t] # Idle
  BY DEF check
<1>2. /\ k \in Peers /\ calls[t].peer = k /\ now \in Nat /\ now <= clock
      /\ Left(t) \in Seq(Nat)
  BY <1>1, LeftFacts
<1>3. Swept(now) \in [Peers -> Seq(Nat) \cup {None}]
  BY <1>2, SweepFacts
<1>4. lag' = IF clock - now > lag THEN clock - now ELSE lag
  BY DEF check
<1>5. lag' \in Nat /\ lag' >= lag /\ lag' >= clock - now
  BY <1>2, <1>4 DEF Inv, TypeOK
<1>6. CASE /\ Admit(Left(t))
           /\ hits' = [Swept(now) EXCEPT ![k] = Append(Left(t), now)]
           /\ log' = [log EXCEPT ![calls[t].peer] = Append(@, now)]
           /\ promise' = [promise EXCEPT ![k] = None]
  <2>1. Append(Left(t), now) \in Seq(Nat)
    BY <1>2
  <2>2. /\ hits' \in [Peers -> Seq(Nat) \cup {None}]
        /\ hits'[k] = Append(Left(t), now)
        /\ \A p \in Peers : p # k => hits'[p] = Swept(now)[p]
    BY <1>2, <1>3, <1>6, <2>1
  <2>3. Len(Left(t)) < Limit
    BY <1>6 DEF Admit
  <2> QED BY <1>1, <1>2, <1>5, <1>6, <2>2, <2>3 DEF check
<1>7. CASE /\ ~Admit(Left(t))
           /\ hits' = [Swept(now) EXCEPT ![k] = Left(t)]
           /\ promise' = [promise EXCEPT ![k] =
                            now + RetryAfter(Left(t), now) * TicksPerSecond]
           /\ UNCHANGED log
  <2>1. /\ hits' \in [Peers -> Seq(Nat) \cup {None}]
        /\ hits'[k] = Left(t)
        /\ \A p \in Peers : p # k => hits'[p] = Swept(now)[p]
    BY <1>2, <1>3, <1>7
  <2>2. ~(Len(Left(t)) < Limit)
    BY <1>7 DEF Admit
  <2> QED BY <1>1, <1>2, <1>5, <1>7, <2>1, <2>2 DEF check
<1> QED BY <1>6, <1>7 DEF check, Left, Found

(* A refusal: the deque is full, nothing was popped from it, and the       *)
(* client is sent away until after its first entry expires.                *)
LEMMA RefusalFacts ==
    ASSUME Inv, NEW t \in Threads, calls[t] # Idle, ~(Len(Left(t)) < Limit)
    PROVE  LET k == calls[t].key
               now == calls[t].now
               until == now + RetryAfter(Left(t), now) * TicksPerSecond
           IN  /\ Left(t) # <<>> /\ until \in Nat /\ Left(t)[1] + Window < until
               /\ hits[k] # None /\ hits[k] # <<>> /\ now < hits[k][1] + Window
<1> DEFINE k == calls[t].key
           now == calls[t].now
           Q == Left(t)
           H == Found(t)
<1>1. PICK d \in 0 .. Len(H) :
                 /\ Len(Q) = Len(H) - d
                 /\ \A i \in 1 .. Len(H) - d : Q[i] = H[i + d]
                 /\ d < Len(H) => H[d + 1] > now - Window
  BY LeftFacts
<1>2. /\ k \in Peers /\ now \in Nat /\ now <= clock
      /\ H \in Seq(Nat) /\ Q \in Seq(Nat)
      /\ H = <<>> \/ (H = hits[k] /\ hits[k] # None)
  <2>1. calls[t].key \in Peers /\ calls[t].now \in Nat /\ calls[t].now <= clock
    BY LeftFacts
  <2>2. Found(t) \in Seq(Nat) /\ Left(t) \in Seq(Nat)
    BY LeftFacts
  <2>3. \/ Found(t) = <<>>
        \/ Found(t) = hits[calls[t].key] /\ hits[calls[t].key] # None
    BY LeftFacts
  <2> QED BY <2>1, <2>2, <2>3
<1>3. Len(Q) \in Nat /\ Len(Q) >= Limit /\ Len(Q) >= 1 /\ ~(Len(Q) < Limit)
  BY <1>2, RuleAssumption
<1>4. hits[k] # None => Len(hits[k]) <= Limit
  BY <1>2 DEF Inv, DequeBounded
<1> HIDE DEF Q, H, now
<1>5. H # <<>> /\ H = hits[k] /\ hits[k] # None
  BY <1>1, <1>2, <1>3
<1>6. Len(H) <= Limit /\ Len(H) \in Nat
  BY <1>2, <1>4, <1>5
<1>7. d = 0
  BY <1>1, <1>3, <1>6, RuleAssumption
<1>8. Q[1] = H[1] /\ H[1] > now - Window /\ H[1] \in Nat
  BY <1>1, <1>2, <1>3, <1>7
<1>9. Q # <<>>
  BY <1>3
<1> DEFINE a == Q[1] + Window - now
<1>10. a \in Nat /\ TicksPerSecond \in Nat \ {0} /\ Q[1] + Window = now + a
       /\ now < Q[1] + Window
  BY <1>2, <1>8, RuleAssumption
<1> HIDE DEF a
<1>11. a \div TicksPerSecond \in Nat /\ a < (a \div TicksPerSecond + 1) * TicksPerSecond
  BY <1>10, RoundedUp
<1>12. RetryAfter(Q, now) = a \div TicksPerSecond + 1
  BY DEF RetryAfter, a
<1> DEFINE ticks == RetryAfter(Q, now) * TicksPerSecond
<1>13. ticks \in Nat /\ a < ticks
  BY <1>10, <1>11, <1>12
<1> HIDE DEF ticks
<1>14. now + ticks \in Nat /\ Q[1] + Window < now + ticks
  BY <1>2, <1>10, <1>13
<1>15. now < hits[k][1] + Window
  BY <1>5, <1>8, <1>10
<1> QED BY <1>5, <1>9, <1>14, <1>15 DEF Q, now, ticks

(* check keeps the invariant.                                              *)
LEMMA CheckInv ==
    ASSUME Inv, NEW t \in Threads, check(t)
    PROVE  Inv'
<1> DEFINE k == calls[t].key
           now == calls[t].now
           Q == Left(t)
           S == Swept(now)
<1>1. /\ calls[t] # Idle /\ k \in Peers /\ now \in Nat /\ now <= clock
      /\ Q \in Seq(Nat) /\ clock' = clock
      /\ calls' = [calls EXCEPT ![t] = Idle]
      /\ last_sweep' = (IF SweepNow(now) THEN now ELSE last_sweep)
      /\ lag' \in Nat /\ lag' >= lag /\ lag' >= clock - now
      /\ hits' \in [Peers -> Seq(Nat) \cup {None}]
      /\ \A p \in Peers : p # k => hits'[p] = S[p]
  BY CheckFacts
<1>2. \/ /\ Len(Q) < Limit
         /\ hits'[k] = Append(Q, now)
         /\ log' = [log EXCEPT ![k] = Append(log[k], now)]
         /\ promise' = [promise EXCEPT ![k] = None]
      \/ /\ ~(Len(Q) < Limit)
         /\ hits'[k] = Q
         /\ log' = log
         /\ promise' = [promise EXCEPT ![k] = now + RetryAfter(Q, now) * TicksPerSecond]
  BY CheckFacts
<1>3. /\ clock \in Nat /\ last_sweep \in Nat /\ lag \in Nat
      /\ hits \in [Peers -> Seq(Nat) \cup {None}]
      /\ log \in [Peers -> Seq(Nat)] /\ promise \in [Peers -> Nat \cup {None}]
      /\ last_sweep <= clock
  BY DEF Inv, TypeOK, OrderOK
<1>4. \A p \in Peers :
          /\ S[p] = hits[p] \/ S[p] = None
          /\ SweepNow(now) /\ S[p] # None => hits[p] # <<>> /\ Last(hits[p]) > now - Widest
  BY <1>1, SweepFacts
<1>5. PICK d \in Nat :
          /\ d <= Len(Found(t)) /\ Len(Q) = Len(Found(t)) - d
          /\ \A i \in 1 .. Len(Q) : Q[i] = Found(t)[i + d]
  <2>1. Len(Found(t)) \in Nat
    BY <1>1, LeftFacts
  <2> QED BY <1>1, <2>1, LeftFacts
<1>6. /\ Found(t) \in Seq(Nat)
      /\ Found(t) = <<>> \/ (Found(t) = hits[k] /\ hits[k] # None /\ S[k] = hits[k])
  <2>1. Found(t) \in Seq(Nat)
    BY <1>1, LeftFacts
  <2> QED BY <1>1, <1>4, <2>1 DEF Found
<1> DEFINE H == Found(t)
<1>7. Q # <<>> => /\ H # <<>> /\ Last(Q) = Last(H) /\ H = hits[k] /\ hits[k] # None
                  /\ S[k] = hits[k]
  <2> SUFFICES ASSUME Q # <<>>
               PROVE  H # <<>> /\ Last(Q) = Last(H)
    BY <1>6
  <2> HIDE DEF Q, H
  <2>1. Len(Q) \in Nat /\ Len(Q) >= 1 /\ Len(H) \in Nat
    BY <1>1, <1>6
  <2>2. Q[Len(Q)] = H[Len(Q) + d] /\ Len(Q) + d = Len(H)
    BY <1>5, <2>1 DEF H
  <2> QED BY <1>5, <2>1, <2>2 DEF Last
<1>16. \A i \in 1 .. Len(log[k]) : log[k][i] > clock - Window + lag =>
           /\ i + Len(Q) - Len(log[k]) >= 1
           /\ Q[i + Len(Q) - Len(log[k])] = log[k][i]
  BY <1>1, RecentLeft
<1> DEFINE late == lag'
<1>17. late \in Nat /\ late >= lag /\ late >= clock - now
  BY <1>1
<1> HIDE DEF k, now, Q, H, S, late
<1>8. TypeOK'
  <2>1. calls' \in [Threads -> [key : Peers \cup {None}, peer : Peers \cup {None}, now : Nat]]
    BY <1>1 DEF Inv, TypeOK, Idle
  <2>2. last_sweep' \in Nat /\ clock' \in Nat /\ log' \in [Peers -> Seq(Nat)]
    <3>1. Append(log[k], now) \in Seq(Nat)
      BY <1>1, <1>3
    <3> QED BY <1>1, <1>2, <1>3, <3>1
  <2>3. promise' \in [Peers -> Nat \cup {None}]
    <3>1. ~(Len(Q) < Limit) => now + RetryAfter(Q, now) * TicksPerSecond \in Nat
      BY <1>1, RefusalFacts DEF Q, now
    <3> QED BY <1>1, <1>2, <1>3, <3>1
  <2> QED BY <1>1, <2>1, <2>2, <2>3 DEF TypeOK
<1>9. KeyedByPeer'
  BY <1>1 DEF Inv, TypeOK, KeyedByPeer
<1>10. PromiseOK'
  <2> SUFFICES ASSUME NEW p \in Peers, promise'[p] # None, hits'[p] # None
               PROVE  hits'[p] # <<>> /\ hits'[p][1] + Window < promise'[p]
    BY DEF PromiseOK
  <2>1. CASE p # k
    BY <1>1, <1>2, <1>3, <1>4, <2>1 DEF Inv, PromiseOK
  <2>2. CASE p = k
    <3>1. ~(Len(Q) < Limit) /\ hits'[k] = Q
          /\ promise'[k] = now + RetryAfter(Q, now) * TicksPerSecond
      BY <1>1, <1>2, <1>3, <2>2
    <3> QED BY <1>1, <2>2, <3>1, RefusalFacts DEF Q, now
  <2> QED BY <2>1, <2>2
<1>11. DequeBounded'
  <2> SUFFICES ASSUME NEW p \in Peers, hits'[p] # None
               PROVE  Len(hits'[p]) <= Limit
    BY DEF DequeBounded
  <2>1. CASE p # k
    BY <1>1, <1>4, <2>1 DEF Inv, DequeBounded
  <2>2. CASE p = k
    <3>1. Len(Q) \in Nat /\ Len(H) \in Nat
      BY <1>1, <1>6 DEF H
    <3>2. CASE Len(Q) < Limit
      BY <1>1, <1>2, <2>2, <3>1, <3>2, RuleAssumption
    <3>3. CASE ~(Len(Q) < Limit)
      <4>1. H = hits[k] /\ hits[k] # None /\ Len(Q) <= Len(H)
        <5>1. Q # <<>>
          BY <3>1, <3>3, RuleAssumption
        <5> QED BY <1>5, <1>7, <3>1, <5>1 DEF H
      <4> QED BY <1>1, <1>2, <2>2, <3>1, <3>3, <4>1, RuleAssumption DEF Inv, DequeBounded
    <3> QED BY <3>2, <3>3
  <2> QED BY <2>1, <2>2
<1>12. SweptKeysGone'
  <2> SUFFICES ASSUME NEW p \in Peers, hits'[p] # None, hits'[p] # <<>>
               PROVE  Last(hits'[p]) > last_sweep' - Widest - lag'
    BY DEF SweptKeysGone
  <2>1. ASSUME S[p] = hits[p], hits[p] # None, hits[p] # <<>>
        PROVE  Last(hits[p]) > last_sweep' - Widest - lag'
    <3>1. Last(hits[p]) \in Nat
      BY <1>3, <2>1 DEF Last
    <3>2. CASE SweepNow(now)
      BY <1>1, <1>3, <1>4, <2>1, <3>1, <3>2, RuleAssumption
    <3>3. CASE ~SweepNow(now)
      <4>1. Last(hits[p]) > last_sweep - Widest - lag
        BY <2>1 DEF Inv, SweptKeysGone
      <4> QED BY <1>1, <1>3, <3>1, <3>3, <4>1, RuleAssumption
    <3> QED BY <3>2, <3>3
  <2>2. CASE p # k
    BY <1>1, <1>4, <2>1, <2>2
  <2>3. CASE p = k /\ hits'[k] = Q
    BY <1>7, <2>1, <2>3 DEF H
  <2>4. CASE p = k /\ hits'[k] = Append(Q, now)
    <3>1. Last(hits'[p]) = now
      BY <1>1, <2>4 DEF Last
    <3>2. last_sweep' <= clock /\ last_sweep' \in Nat
      BY <1>1, <1>3
    <3>3. now > last_sweep' - Widest - lag'
      <4>1. lag' \in Nat /\ lag' >= clock - now /\ now \in Nat
        BY <1>1
      <4>2. clock \in Nat /\ Widest \in Nat /\ Widest >= 1
        BY <1>3, RuleAssumption
      <4> QED BY <3>2, <4>1, <4>2
    <3> QED BY <3>1, <3>3
  <2> QED BY <1>2, <2>2, <2>3, <2>4
<1>13. OrderOK'
  <2>1. last_sweep' <= clock' /\ \A u \in Threads : calls'[u].now <= clock'
    BY <1>1, <1>3 DEF Inv, TypeOK, OrderOK, Idle
  <2>2. ASSUME NEW p \in Peers, hits[p] # None
        PROVE  \A i \in 1 .. Len(hits[p]) :
                  /\ hits[p][i] <= clock
                  /\ \A j \in i .. Len(hits[p]) : hits[p][i] <= hits[p][j] + lag'
    <3> DEFINE G == hits[p]
    <3>1. G \in Seq(Nat)
      BY <1>3, <2>2
    <3>2. \A i \in 1 .. Len(G) :
             G[i] <= clock /\ \A j \in i .. Len(G) : G[i] <= G[j] + lag
      BY <2>2 DEF Inv, OrderOK
    <3> HIDE DEF G
    <3>3. \A i \in 1 .. Len(G) : \A j \in i .. Len(G) :
             G[i] \in Nat /\ G[j] \in Nat /\ G[i] <= G[j] + lag
      BY <3>1, <3>2
    <3>4. lag \in Nat /\ lag' \in Nat /\ lag <= lag'
      BY <1>1, <1>3
    <3>5. \A i \in 1 .. Len(G) : \A j \in i .. Len(G) : G[i] <= G[j] + lag'
      BY <3>3, <3>4
    <3>6. \A i \in 1 .. Len(G) :
             G[i] <= clock /\ \A j \in i .. Len(G) : G[i] <= G[j] + lag'
      BY <3>2, <3>5
    <3> QED BY <3>6 DEF G
  <2>3. ASSUME NEW i \in 1 .. Len(Q)
        PROVE  /\ Q[i] <= clock /\ Q[i] \in Nat
               /\ \A j \in i .. Len(Q) : Q[i] <= Q[j] + lag'
    <3>1. Len(Q) \in Nat /\ Q[i] \in Nat /\ Q # <<>>
      BY <1>1
    <3>2. H = hits[k] /\ hits[k] # None /\ Len(H) = Len(Q) + d /\ Len(H) \in Nat
      BY <1>5, <1>6, <1>7, <3>1 DEF H
    <3>3. \A j \in i .. Len(Q) : Q[j] = H[j + d] /\ j + d \in i + d .. Len(H)
      BY <1>5, <3>1, <3>2 DEF H
    <3>4. i + d \in 1 .. Len(H) /\ i \in i .. Len(Q)
      BY <3>1, <3>2
    <3> QED BY <1>1, <2>2, <3>1, <3>2, <3>3, <3>4
  <2>4. ASSUME NEW p \in Peers, hits'[p] # None, NEW i \in 1 .. Len(hits'[p])
        PROVE  /\ hits'[p][i] <= clock'
               /\ \A j \in i .. Len(hits'[p]) : hits'[p][i] <= hits'[p][j] + lag'
    <3>1. CASE p # k
      BY <1>1, <1>4, <2>2, <2>4, <3>1
    <3>2. CASE p = k /\ hits'[k] = Q
      BY <1>1, <2>3, <2>4, <3>2
    <3>3. CASE p = k /\ hits'[k] = Append(Q, now)
      <4> DEFINE A == Append(Q, now)
      <4>1. /\ Len(Q) \in Nat /\ Len(A) = Len(Q) + 1 /\ A[Len(Q) + 1] = now
            /\ \A j \in 1 .. Len(Q) : A[j] = Q[j]
        BY <1>1
      <4> HIDE DEF A
      <4>2. \A j \in i .. Len(A) : j \in 1 .. Len(Q) \/ j = Len(Q) + 1
        BY <2>4, <3>3, <4>1 DEF A
      <4>3. i \in 1 .. Len(Q) \/ i = Len(Q) + 1
        BY <2>4, <3>3, <4>1 DEF A
      <4>4. CASE i = Len(Q) + 1
        <5>1. \A j \in i .. Len(A) : j = i
          BY <4>1, <4>4
        <5>2. now <= now + lag' /\ now <= clock'
          <6>1. now <= now + late /\ now <= clock'
            BY <1>1, <1>17
          <6> QED BY <6>1 DEF late
        <5>3. A[i] = now
          BY <4>1, <4>4
        <5> QED BY <3>3, <5>1, <5>2, <5>3 DEF A
      <4>5. CASE i \in 1 .. Len(Q)
        <5>1. Q[i] <= clock /\ Q[i] \in Nat /\ A[i] = Q[i]
          BY <2>3, <4>1, <4>5
        <5>2. Q[i] <= now + lag'
          BY <1>1, <1>3, <5>1
        <5>3. ASSUME NEW j \in i .. Len(A) PROVE A[i] <= A[j] + lag'
          <6>1. CASE j = Len(Q) + 1
            BY <4>1, <5>1, <5>2, <6>1
          <6>2. CASE j \in 1 .. Len(Q)
            <7>1. j \in i .. Len(Q)
              BY <4>1, <4>5, <6>2
            <7> QED BY <2>3, <4>1, <4>5, <5>1, <6>2, <7>1
          <6> QED BY <4>2, <6>1, <6>2
        <5> QED BY <1>1, <3>3, <5>1, <5>3 DEF A
      <4> QED BY <4>3, <4>4, <4>5
    <3> QED BY <1>2, <3>1, <3>2, <3>3
  <2> QED BY <2>1, <2>4 DEF OrderOK
<1>14. KeptOK'
  <2> SUFFICES ASSUME NEW p \in Peers, NEW i \in 1 .. Len(log'[p]),
                      log'[p][i] > clock - Window + lag'
               PROVE  /\ hits'[p] # None
                      /\ i + Len(hits'[p]) - Len(log'[p]) >= 1
                      /\ hits'[p][i + Len(hits'[p]) - Len(log'[p])] = log'[p][i]
    BY <1>1 DEF KeptOK
  <2>1. ASSUME log'[p] = log[p] PROVE log[p][i] > clock - Window + lag
    <3>1. log[p][i] \in Nat
      BY <1>3, <2>1
    <3> QED BY <1>1, <1>3, <2>1, <3>1, RuleAssumption
  <2>2. CASE p # k
    <3>1. log'[p] = log[p]
      BY <1>2, <1>3, <2>2
    <3>2. S[p] = hits[p]
      BY <1>1, <2>1, <3>1, SweepKeeps DEF S
    <3>3. hits'[p] = hits[p]
      BY <1>1, <2>2, <3>2
    <3> QED BY <2>1, <3>1, <3>3 DEF Inv, KeptOK
  <2>3. CASE p = k /\ hits'[k] = Q /\ log' = log
    <3>1. Q # None
      BY <1>1, NoneAssumption
    <3>2. i \in 1 .. Len(log[k]) /\ log[k][i] > clock - Window + lag
      BY <2>1, <2>3
    <3> QED BY <1>16, <2>3, <3>1, <3>2
  <2>4. CASE p = k /\ hits'[k] = Append(Q, now)
             /\ log' = [log EXCEPT ![k] = Append(log[k], now)]
    <3> DEFINE L == log[k]
    <3>1. /\ log'[k] = Append(L, now) /\ L \in Seq(Nat)
          /\ Append(Q, now) \in Seq(Nat)
      BY <1>1, <1>3, <2>4
    <3>2. hits'[p] # None
      BY <2>4, <3>1, NoneAssumption
    <3>3. ASSUME NEW j \in 1 .. Len(L), L[j] > clock - Window + lag
          PROVE  j + Len(Q) - Len(L) >= 1 /\ Q[j + Len(Q) - Len(L)] = L[j]
      BY <1>16, <3>3
    <3> HIDE DEF L
    <3>4. /\ Len(L) \in Nat /\ Len(Q) \in Nat
          /\ Len(Append(L, now)) = Len(L) + 1 /\ Len(Append(Q, now)) = Len(Q) + 1
          /\ Append(L, now)[Len(L) + 1] = now /\ Append(Q, now)[Len(Q) + 1] = now
          /\ \A j \in 1 .. Len(L) : Append(L, now)[j] = L[j] /\ L[j] \in Nat
          /\ \A j \in 1 .. Len(Q) : Append(Q, now)[j] = Q[j]
      BY <1>1, <3>1
    <3>5. i \in 1 .. Len(L) \/ i = Len(L) + 1
      BY <2>4, <3>1, <3>4
    <3>6. i + Len(Append(Q, now)) - Len(Append(L, now)) = i + Len(Q) - Len(L)
      BY <3>4, <3>5
    <3>7. /\ i + Len(Q) - Len(L) >= 1
          /\ Append(Q, now)[i + Len(Q) - Len(L)] = Append(L, now)[i]
      <4>1. CASE i = Len(L) + 1
        <5>1. i + Len(Q) - Len(L) = Len(Q) + 1
          BY <3>4, <4>1
        <5> QED BY <3>4, <4>1, <5>1
      <4>2. CASE i \in 1 .. Len(L)
        <5>1. L[i] > clock - Window + lag
          <6>1. L[i] > clock - Window + lag' /\ L[i] \in Nat
            BY <2>4, <3>1, <3>4, <4>2
          <6> QED BY <1>1, <1>3, <6>1, RuleAssumption
        <5>2. i + Len(Q) - Len(L) \in 1 .. Len(Q)
          BY <3>3, <3>4, <4>2, <5>1
        <5> QED BY <3>3, <3>4, <4>2, <5>1, <5>2
      <4> QED BY <3>5, <4>1, <4>2
    <3> QED BY <2>4, <3>1, <3>2, <3>6, <3>7
  <2> QED BY <1>2, <2>2, <2>3, <2>4
<1>15. EveryWindow'
  <2> DEFINE w == Window - 2 * lag'
  <2>1. Window \in Int /\ w \in Int /\ w <= Window - 2 * lag
    <3>1. Window \in Nat /\ lag \in Nat
      BY <1>3, RuleAssumption
    <3>2. /\ Window \in Int /\ Window - 2 * late \in Int
          /\ Window - 2 * late <= Window - 2 * lag
      BY <1>17, <3>1
    <3> QED BY <3>2 DEF late
  <2> SUFFICES ASSUME NEW p \in Peers, NEW e \in Int
               PROVE  Cardinality(InWindow(p, e, Window - 2 * lag)') <= Limit
    BY DEF EveryWindow
  <2> DEFINE after == InWindow(p, e, Window - 2 * lag)'
  <2>2. after = {i \in 1 .. Len(log'[p]) : e - w < log'[p][i] /\ log'[p][i] <= e}
    BY DEF InWindow
  <2> HIDE DEF after
  <2> DEFINE L == log[p]
             before == {i \in 1 .. Len(L) : e - w < L[i] /\ L[i] <= e}
  <2>3. L \in Seq(Nat) /\ Len(L) \in Nat
    BY <1>3
  <2>4. before \subseteq InWindow(p, e, Window - 2 * lag)
    <3> SUFFICES ASSUME NEW i \in 1 .. Len(L), e - w < L[i]
                 PROVE  e - (Window - 2 * lag) < L[i]
      BY DEF InWindow
    <3>1. L[i] \in Nat
      BY <2>3
    <3> HIDE DEF L, w
    <3>2. e - (Window - 2 * lag) <= e - w
      BY <1>3, <2>1
    <3> QED BY <1>3, <2>1, <3>1, <3>2
  <2>5. Cardinality(before) <= Limit
    <3>1. Cardinality(InWindow(p, e, Window - 2 * lag)) <= Limit
      BY DEF Inv, EveryWindow
    <3>2. IsFiniteSet(InWindow(p, e, Window - 2 * lag))
      BY WindowsAreFinite DEF Inv
    <3> QED BY <2>4, <3>1, <3>2, NotMore
  <2>6. CASE log'[p] = L
    BY <2>2, <2>5, <2>6 DEF after
  <2>7. CASE p = k /\ Len(Q) < Limit /\ log'[p] = Append(L, now)
    <3> HIDE DEF L
    <3>1. /\ Len(log'[p]) = Len(L) + 1 /\ log'[p][Len(L) + 1] = now
          /\ \A i \in 1 .. Len(L) : log'[p][i] = L[i] /\ L[i] \in Nat
      BY <1>1, <2>3, <2>7
    <3>2. \A i \in 1 .. Len(L) + 1 : i \in 1 .. Len(L) \/ i = Len(L) + 1
      BY <2>3
    <3>3. CASE ~(e - w < now /\ now <= e)
      <4>1. after = before
        BY <2>2, <2>3, <3>1, <3>2, <3>3
      <4> QED BY <2>5, <4>1 DEF after
    <3>4. CASE e - w < now /\ now <= e
      <4>1. Len(Q) \in Nat /\ Len(Q) + 1 <= Limit
        BY <1>1, <2>7, RuleAssumption
      <4> DEFINE last == (Len(L) - Len(Q) + 1) .. (Len(L) + 1)
      <4>2. IsFiniteSet(last) /\ Cardinality(last) <= Limit
        <5>1. Len(L) - Len(Q) + 1 \in Int /\ Len(L) + 1 \in Int
          BY <2>3, <4>1
        <5>2. /\ IsFiniteSet(last)
              /\ Cardinality(last) = IF Len(L) - Len(Q) + 1 > Len(L) + 1 THEN 0
                                     ELSE (Len(L) + 1) - (Len(L) - Len(Q) + 1) + 1
          BY <5>1, FS_Interval
        <5> HIDE DEF last
        <5> QED BY <2>3, <4>1, <5>2
      <4>3. ASSUME NEW i \in 1 .. Len(L), e - w < L[i]
            PROVE  i \in last
        <5>1. L[i] > clock - Window + lag
          <6>1. L[i] \in Nat /\ L[i] > now - w
            <7>1. L[i] \in Nat
              BY <3>1
            <7> HIDE DEF w
            <7> QED BY <1>1, <2>1, <3>4, <4>3, <7>1
          <6>2. clock \in Nat /\ now \in Nat /\ lag \in Nat /\ Window \in Nat
            BY <1>1, <1>3, RuleAssumption
          <6>3. now - w >= clock - Window + lag
            <7>1. now - (Window - 2 * late) >= clock - Window + lag
              BY <1>17, <6>2
            <7> QED BY <7>1 DEF late
          <6> HIDE DEF w
          <6> QED BY <2>1, <6>1, <6>2, <6>3
        <5>2. i + Len(Q) - Len(L) >= 1
          BY <1>16, <2>7, <5>1 DEF L
        <5> QED BY <2>3, <4>1, <5>2
      <4>4. Len(L) + 1 \in last
        BY <2>3, <4>1
      <4>5. after \subseteq last
        <5> HIDE DEF last
        <5> QED BY <2>2, <3>1, <3>2, <4>3, <4>4
      <4> QED BY <4>2, <4>5, NotMore DEF after
    <3> QED BY <3>3, <3>4
  <2>8. log'[p] = L \/ (p = k /\ Len(Q) < Limit /\ log'[p] = Append(L, now))
    BY <1>1, <1>2, <1>3
  <2> QED BY <2>6, <2>7, <2>8
<1> QED BY <1>8, <1>9, <1>10, <1>11, <1>12, <1>13, <1>14, <1>15 DEF Inv

-----------------------------------------------------------------------------
(* The other steps. *)
LEMMA ReadClockInv ==
    ASSUME Inv, NEW t \in Threads, NEW peer \in Peers, NEW sent \in Headers,
           ReadClock(t, peer, sent)
    PROVE  Inv'
<1>1. /\ calls' = [calls EXCEPT ![t] = [key |-> peer, peer |-> peer, now |-> clock]]
      /\ UNCHANGED <<clock, hits, last_sweep, log, lag, promise>>
  BY ClientIp DEF ReadClock
<1>2. TypeOK'
  BY <1>1 DEF Inv, TypeOK
<1>3. KeyedByPeer'
  BY <1>1 DEF Inv, TypeOK, KeyedByPeer
<1>4. \A u \in Threads : calls'[u].now <= clock'
  BY <1>1 DEF Inv, TypeOK, OrderOK
<1>5. OrderOK'
  BY <1>1, <1>4 DEF Inv, OrderOK
<1>6. KeptOK' /\ PromiseOK' /\ DequeBounded' /\ SweptKeysGone' /\ EveryWindow'
  BY <1>1 DEF Inv, KeptOK, PromiseOK, DequeBounded, SweptKeysGone, EveryWindow, InWindow
<1> QED BY <1>2, <1>3, <1>5, <1>6 DEF Inv

(* Counters are cleared, for some clients or -- by a restart -- for all:   *)
(* their history starts anew.                                              *)
LEMMA ClearedInv ==
    ASSUME Inv, NEW K \in SUBSET Peers,
           hits' = [k \in Peers |-> IF k \in K THEN None ELSE hits[k]],
           log' = [p \in Peers |-> IF p \in K THEN <<>> ELSE log[p]],
           promise' = [k \in Peers |-> IF k \in K THEN None ELSE promise[k]],
           clock' = clock, lag' = lag,
           calls' = calls \/ calls' = [t \in Threads |-> Idle],
           last_sweep' = last_sweep \/ (last_sweep' = clock /\ K = Peers)
    PROVE  Inv'
<1>1. \A p \in Peers : \/ hits'[p] = None /\ log'[p] = <<>> /\ promise'[p] = None
                       \/ hits'[p] = hits[p] /\ log'[p] = log[p] /\ promise'[p] = promise[p]
  OBVIOUS
<1>2. TypeOK'
  BY DEF Inv, TypeOK, Idle
<1>3. KeyedByPeer'
  BY DEF Inv, KeyedByPeer, Idle
<1>4. OrderOK'
  <2>1. last_sweep' <= clock' /\ \A t \in Threads : calls'[t].now <= clock'
    BY DEF Inv, TypeOK, OrderOK, Idle
  <2> QED BY <1>1, <2>1 DEF Inv, OrderOK
<1>5. KeptOK' /\ PromiseOK' /\ DequeBounded'
  <2>1. KeptOK'
    <3> SUFFICES ASSUME NEW p \in Peers, NEW i \in 1 .. Len(log'[p]),
                        log'[p][i] > clock - Window + lag
                 PROVE  /\ hits'[p] # None
                        /\ i + Len(hits'[p]) - Len(log'[p]) >= 1
                        /\ hits'[p][i + Len(hits'[p]) - Len(log'[p])] = log'[p][i]
      BY DEF KeptOK
    <3>1. hits'[p] = hits[p] /\ log'[p] = log[p]
      BY <1>1
    <3> QED BY <3>1 DEF Inv, KeptOK
  <2>2. PromiseOK'
    BY <1>1 DEF Inv, PromiseOK
  <2>3. DequeBounded'
    BY <1>1 DEF Inv, DequeBounded
  <2> QED BY <2>1, <2>2, <2>3
<1>6. SweptKeysGone'
  BY <1>1 DEF Inv, SweptKeysGone
<1>7. EveryWindow'
  <2> SUFFICES ASSUME NEW p \in Peers, NEW e \in Int
               PROVE  Cardinality(InWindow(p, e, Window - 2 * lag)') <= Limit
    BY DEF EveryWindow
  <2>1. CASE log'[p] = log[p]
    BY <2>1 DEF Inv, EveryWindow, InWindow
  <2>2. CASE log'[p] = <<>>
    <3> DEFINE S == InWindow(p, e, Window - 2 * lag)'
    <3>1. S = {}
      BY <2>2 DEF InWindow
    <3> HIDE DEF S
    <3>2. Cardinality(S) = 0 /\ 0 <= Limit
      BY <3>1, FS_EmptySet, RuleAssumption
    <3> QED BY <3>2 DEF S
  <2> QED BY <1>1, <2>1, <2>2
<1> QED BY <1>2, <1>3, <1>4, <1>5, <1>6, <1>7 DEF Inv

(* Time passes, and the log forgets a prefix that no window can reach.     *)
LEMMA TickInv == Inv /\ Tick => Inv'
<1> SUFFICES ASSUME Inv, Tick PROVE Inv'
  OBVIOUS
<1>1. /\ clock' = clock + 1
      /\ log' = [p \in Peers |-> Prune(log[p], clock - MaxLag - Window)]
      /\ UNCHANGED <<hits, last_sweep, calls, lag, promise>>
  BY DEF Tick
<1>2. /\ clock \in Nat /\ lag \in Nat /\ last_sweep \in Nat
      /\ log \in [Peers -> Seq(Nat)] /\ hits \in [Peers -> Seq(Nat) \cup {None}]
      /\ \A t \in Threads : calls[t].now \in Nat
  BY DEF Inv, TypeOK
<1>3. \A p \in Peers : log'[p] \in Seq(Nat) /\ \E d \in 0 .. Len(log[p]) :
          /\ Len(log'[p]) = Len(log[p]) - d
          /\ \A i \in 1 .. Len(log[p]) - d : log'[p][i] = log[p][i + d]
  <2>1. clock - MaxLag - Window \in Int
    BY <1>2, RuleAssumption
  <2> QED BY <1>1, <1>2, <2>1, PruneFacts
<1>4. TypeOK'
  <2>1. log' \in [Peers -> Seq(Nat)]
    BY <1>1, <1>3
  <2> QED BY <1>1, <2>1 DEF Inv, TypeOK
<1>5. KeyedByPeer' /\ PromiseOK' /\ DequeBounded' /\ SweptKeysGone'
  BY <1>1 DEF Inv, KeyedByPeer, PromiseOK, DequeBounded, SweptKeysGone
<1>6. OrderOK'
  <2>1. last_sweep' <= clock' /\ \A t \in Threads : calls'[t].now <= clock'
    BY <1>1, <1>2 DEF Inv, OrderOK
  <2>2. ASSUME NEW k \in Peers, hits[k] # None, NEW i \in 1 .. Len(hits[k])
        PROVE  hits[k][i] <= clock + 1
    <3>1. hits[k][i] <= clock
      BY <2>2 DEF Inv, OrderOK
    <3>2. hits[k][i] \in Nat
      BY <1>2, <2>2
    <3> QED BY <1>2, <3>1, <3>2
  <2> QED BY <1>1, <2>1, <2>2 DEF Inv, OrderOK
<1>7. ASSUME NEW p \in Peers
      PROVE  /\ \A i \in 1 .. Len(log'[p]) : log'[p][i] > clock' - Window + lag' =>
                   /\ hits'[p] # None
                   /\ i + Len(hits'[p]) - Len(log'[p]) >= 1
                   /\ hits'[p][i + Len(hits'[p]) - Len(log'[p])] = log'[p][i]
             /\ \A e \in Int : Cardinality(InWindow(p, e, Window - 2 * lag)') <= Limit
  <2> DEFINE L == log[p]
             M == log'[p]
             N == Len(hits[p])
  <2>1. L \in Seq(Nat) /\ Len(L) \in Nat /\ M \in Seq(Nat) /\ Len(M) \in Nat
    BY <1>2, <1>3
  <2>2. PICK d \in 0 .. Len(L) : /\ Len(M) = Len(L) - d
                                /\ \A i \in 1 .. Len(L) - d : M[i] = L[i + d]
    BY <1>3
  <2>3. \A i \in 1 .. Len(M) : M[i] = L[i + d] /\ i + d \in 1 .. Len(L) /\ M[i] \in Nat
    <3> HIDE DEF L, M
    <3> QED BY <2>1, <2>2
  <2>4. ASSUME NEW i \in 1 .. Len(M), M[i] > clock + 1 - Window + lag
        PROVE  /\ hits[p] # None /\ i + N - Len(M) >= 1
               /\ hits[p][i + N - Len(M)] = M[i]
    <3>1. L[i + d] > clock - Window + lag
      <4>1. M[i] \in Nat /\ M[i] = L[i + d]
        BY <2>3
      <4>2. clock \in Nat /\ lag \in Nat /\ Window \in Nat
        BY <1>2, RuleAssumption
      <4> HIDE DEF L, M
      <4> QED BY <2>4, <4>1, <4>2
    <3>2. /\ hits[p] # None /\ (i + d) + N - Len(L) >= 1
          /\ hits[p][(i + d) + N - Len(L)] = L[i + d]
      BY <2>3, <3>1 DEF Inv, KeptOK
    <3>3. N \in Nat
      BY <1>2, <3>2
    <3> HIDE DEF L, M, N
    <3>4. (i + d) + N - Len(L) = i + N - Len(M)
      BY <2>1, <2>2, <3>3
    <3> QED BY <2>3, <3>2, <3>4
  <2>5. ASSUME NEW e \in Int
        PROVE  Cardinality(InWindow(p, e, Window - 2 * lag)') <= Limit
    <3> DEFINE T == InWindow(p, e, Window - 2 * lag)
               S == InWindow(p, e, Window - 2 * lag)'
               f == [i \in S |-> i + d]
    <3>1. S = {i \in 1 .. Len(M) : e - (Window - 2 * lag) < M[i] /\ M[i] <= e}
      BY <1>1 DEF InWindow
    <3>2. T = {i \in 1 .. Len(L) : e - (Window - 2 * lag) < L[i] /\ L[i] <= e}
      BY DEF InWindow
    <3>3. IsFiniteSet(T) /\ Cardinality(T) <= Limit
      BY WindowsAreFinite DEF Inv, EveryWindow
    <3> HIDE DEF L, M, S, T
    <3>4. \A i \in S : i \in Nat /\ i + d \in T
      BY <2>1, <2>3, <3>1, <3>2
    <3>5. f \in [S -> T] /\ \A i, j \in S : f[i] = f[j] => i = j
      BY <3>4
    <3>6. f \in Injection(S, T)
      BY <3>5 DEF Injection, IsInjective
    <3>7. IsFiniteSet(S) /\ Cardinality(S) <= Cardinality(T)
      BY <3>3, <3>6, FS_Injection
    <3>8. Cardinality(S) \in Nat /\ Cardinality(T) \in Nat
      BY <3>3, <3>7, FS_CardinalityType
    <3>9. Cardinality(S) <= Limit
      BY <3>3, <3>7, <3>8, RuleAssumption
    <3> QED BY <3>9 DEF S
  <2>6. clock' - Window + lag' = clock + 1 - Window + lag /\ hits'[p] = hits[p]
    <3> DEFINE later == clock'
               still == lag'
    <3>1. later = clock + 1 /\ still = lag /\ hits'[p] = hits[p]
      BY <1>1
    <3> HIDE DEF later, still
    <3>2. later - Window + still = clock + 1 - Window + lag
      BY <1>2, <3>1, RuleAssumption
    <3> QED BY <3>1, <3>2 DEF later, still
  <2> QED BY <2>4, <2>5, <2>6
<1>8. KeptOK' /\ EveryWindow'
  <2>1. KeptOK'
    BY <1>7 DEF KeptOK
  <2>2. EveryWindow'
    BY <1>1, <1>7 DEF EveryWindow, InWindow
  <2> QED BY <2>1, <2>2
<1> QED BY <1>4, <1>5, <1>6, <1>8 DEF Inv

-----------------------------------------------------------------------------
(* Every step keeps the invariant.                                         *)
LEMMA StepInv == Inv /\ [Next]_vars => Inv'
<1> SUFFICES ASSUME Inv, [Next]_vars PROVE Inv'
  OBVIOUS
<1>1. CASE \E t \in Threads, p \in Peers, sent \in Headers : ReadClock(t, p, sent)
  BY <1>1, ReadClockInv
<1>2. CASE \E t \in Threads : check(t)
  BY <1>2, CheckInv
<1>3. ASSUME NEW K \in SUBSET Peers, reset(K) PROVE Inv'
  BY <1>3, ClearedInv DEF reset
<1>4. CASE Restart
  <2>1. /\ hits' = [k \in Peers |-> IF k \in Peers THEN None ELSE hits[k]]
        /\ log' = [p \in Peers |-> IF p \in Peers THEN <<>> ELSE log[p]]
        /\ promise' = [k \in Peers |-> IF k \in Peers THEN None ELSE promise[k]]
        /\ clock' = clock /\ lag' = lag /\ last_sweep' = clock
        /\ calls' = [t \in Threads |-> Idle]
    BY <1>4 DEF Restart
  <2> QED BY <2>1, ClearedInv
<1>5. CASE Tick
  BY <1>5, TickInv
<1>6. CASE UNCHANGED vars
  BY <1>6 DEF vars, Inv, TypeOK, KeyedByPeer, OrderOK, KeptOK, PromiseOK, DequeBounded,
              SweptKeysGone, EveryWindow, InWindow
<1>7. CASE (\E k \in Peers : reset({k})) \/ reset(Peers)
  BY <1>3, <1>7
<1> QED BY <1>1, <1>2, <1>4, <1>5, <1>6, <1>7 DEF Next

(* The invariant holds for ever.                                           *)
LEMMA Invariant == Spec => []Inv
<1> QED BY InitInv, StepInv, PTL DEF Spec

(* Every check counts under the address that nginx appended, whatever the  *)
(* client sent before it, and the state keeps its type.                    *)
THEOREM LimiterTypeCorrect == Spec => [](TypeOK /\ KeyedByPeer)
<1>1. Inv => TypeOK /\ KeyedByPeer
  BY DEF Inv
<1> QED BY <1>1, Invariant, PTL

(* The rule holds up to twice the longest wait for the lock, for any       *)
(* number of threads, any limit and any window: without such waits no      *)
(* client is admitted more than limit times in a window.                   *)
THEOREM RuleHolds == Spec => []WindowLimitUpToLag
<1>1. Inv => WindowLimitUpToLag
  <2>1. \A e \in 0 .. clock : e \in Int
    BY DEF Inv, TypeOK
  <2> QED BY <2>1 DEF Inv, EveryWindow, WindowLimitUpToLag
<1> QED BY <1>1, Invariant, PTL

(* No deque of _hits is longer than the limit.                             *)
THEOREM DequesAreBounded == Spec => []DequeBounded
<1>1. Inv => DequeBounded
  BY DEF Inv
<1> QED BY <1>1, Invariant, PTL

(* No key outlives the sweep after its last hit left the widest window.    *)
THEOREM SweepReaches == Spec => []SweptKeysGone
<1>1. Inv => SweptKeysGone
  BY DEF Inv
<1> QED BY <1>1, Invariant, PTL

(* A client that waited as long as Retry-After said is admitted: it was    *)
(* refused on a full deque whose first entry is expired by then.           *)
THEOREM WaitIsEnough == Spec => RetryHonoured
<1>1. Inv /\ [Next]_vars => [RefusalIsHonest]_vars
  <2> SUFFICES ASSUME Inv, Next, NEW t \in Threads,
                      calls[t] # Idle, calls'[t] = Idle, promise'[calls[t].key] # None
               PROVE  promise[calls[t].key] = None \/ calls[t].now < promise[calls[t].key]
    BY DEF RefusalIsHonest
  <2> DEFINE k == calls[t].key
  <2>1. k \in Peers /\ calls[t].now \in Nat /\ promise \in [Peers -> Nat \cup {None}]
    BY DEF Inv, KeyedByPeer, TypeOK
  <2>2. CASE check(t)
    <3>1. ~(Len(Left(t)) < Limit)
      BY <2>1, <2>2, CheckFacts
    <3>2. hits[k] # None /\ hits[k] # <<>> /\ calls[t].now < hits[k][1] + Window
      BY <3>1, RefusalFacts
    <3>3. promise[k] # None => hits[k][1] + Window < promise[k]
      BY <2>1, <3>2 DEF Inv, PromiseOK
    <3>4. hits[k][1] \in Nat
      BY <2>1, <3>2 DEF Inv, TypeOK
    <3> QED BY <2>1, <3>2, <3>3, <3>4, RuleAssumption
  <2>3. CASE Restart
    BY <2>1, <2>3 DEF Restart
  <2>4. CASE \E u \in Threads : u # t /\ (check(u)
                 \/ \E p \in Peers, sent \in Headers : ReadClock(u, p, sent))
    BY <2>4 DEF check, ReadClock, Inv, TypeOK
  <2>5. CASE \E p \in Peers, sent \in Headers : ReadClock(t, p, sent)
    BY <2>5 DEF ReadClock
  <2>6. CASE Tick \/ reset(Peers) \/ \E p \in Peers : reset({p})
    BY <2>6 DEF Tick, reset
  <2> QED BY <2>2, <2>3, <2>4, <2>5, <2>6 DEF Next
<1> QED BY <1>1, Invariant, PTL DEF Spec, RetryHonoured

=============================================================================
