---------------------------- MODULE RateLimiter -----------------------------
(***************************************************************************)
(* The sliding-window limiter of app/ratelimit.py, for one bucket of       *)
(* RULES keyed by client address.  Handlers run in a thread pool and all   *)
(* call the one module-level limiter; check reads the clock BEFORE it      *)
(* takes the lock, so a thread can enter the critical section with a       *)
(* timestamp older than the ones already stored.                           *)
(*                                                                         *)
(* Time is counted in ticks, TicksPerSecond to the second, so that the     *)
(* truncation of int() in retry_after is visible.                          *)
(***************************************************************************)
EXTENDS Integers, Sequences, FiniteSets, SequencesExt

CONSTANTS
    Threads,
    Peers,            \* addresses nginx sees on the client's connection
    Proxy,            \* the address of nginx, the only one the program sees itself
    Headers,          \* X-Forwarded-For lists a client may send itself
    Blank,            \* an entry of such a list that is empty once stripped
    Limit,            \* rule.limit
    Window,           \* rule.window_seconds, in ticks
    Widest,           \* the widest window of RULES, in ticks
    SweepInterval,    \* _sweep_interval, in ticks
    TicksPerSecond,
    MaxTime,          \* bound of the clock
    MaxLag,           \* bound of the time a check waits for the lock
    Unknown,          \* "unknown"
    None

ASSUME RuleAssumption ==
    /\ Limit \in Nat \ {0} /\ Window \in Nat \ {0} /\ TicksPerSecond \in Nat \ {0}
    /\ Widest \in Nat /\ Window <= Widest
    /\ SweepInterval \in Nat /\ MaxTime \in Nat /\ MaxLag \in Nat

ASSUME PeersAssumption ==
    /\ Blank \notin Peers /\ None \notin Peers
    /\ \A sent \in Headers : sent \in Seq(Range(sent))
ASSUME NoneAssumption == None \notin Nat /\ None \notin Seq(Nat)

VARIABLES
    clock,       \* time.monotonic()
    hits,        \* _hits: key -> deque of timestamps, None when not in the dict
    last_sweep,  \* _last_sweep
    calls,       \* the check each thread is executing
    log,         \* history: timestamps admitted since the counters of the
                 \* client were last cleared, as far back as they can share
                 \* a window with one that is still to come
    lag,         \* history: the longest a check has waited for the lock after
                 \* it read the clock
    promise      \* history: when the last refused client was told to retry,
                 \* None once somebody was admitted under that key

vars == <<clock, hits, last_sweep, calls, log, lag, promise>>

-----------------------------------------------------------------------------
(* client_ip: the last non-blank entry of the header, else the host of the *)
(* connection, if it has one.  nginx appends the peer, so the header of a  *)
(* request is what the client sent plus the peer, over a connection from   *)
(* nginx.                                                                  *)
Entries(header) == {i \in 1 .. Len(header) : header[i] # Blank}
FirstEntry(header, client) ==
    IF Entries(header) # {} THEN header[Min(Entries(header))]
    ELSE IF client # None THEN client ELSE Unknown
client_ip(header, client) ==
    IF Entries(header) # {} THEN header[Max(Entries(header))]
    ELSE IF client # None THEN client ELSE Unknown

(* while hits and hits[0] <= cutoff: hits.popleft() *)
Prune(h, cutoff) ==
    LET live == {i \in 1 .. Len(h) : h[i] > cutoff}
    IN  IF live = {} THEN <<>> ELSE SubSeq(h, Min(live), Len(h))

(* _maybe_sweep: drop the keys whose newest hit left the widest window. *)
SweepNow(now) == now - last_sweep >= SweepInterval
SweepNothing(now) == hits
Drained(k, now) == hits[k] = <<>> \/ Last(hits[k]) <= now - Widest
Swept(now) ==
    IF ~SweepNow(now) THEN hits
    ELSE [k \in Peers |-> IF hits[k] # None /\ Drained(k, now) THEN None ELSE hits[k]]

Idle == [key |-> None, peer |-> None, now |-> 0]

-----------------------------------------------------------------------------
Init ==
    /\ clock = 0 /\ last_sweep = 0 /\ lag = 0
    /\ hits = [k \in Peers |-> None]
    /\ calls = [t \in Threads |-> Idle]
    /\ log = [p \in Peers |-> <<>>]
    /\ promise = [k \in Peers |-> None]

(* enforce and the first line of check: the key, and the clock. *)
ReadClock(t, peer, sent) ==
    /\ calls[t] = Idle
    /\ calls' = [calls EXCEPT ![t] =
                    [key |-> client_ip(Append(sent, peer), Proxy),
                     peer |-> peer, now |-> clock]]
    /\ UNCHANGED <<clock, hits, last_sweep, log, lag, promise>>

(* The critical section: sweep, prune, then refuse or record the attempt. *)
RetryTruncated(h, now) == (h[1] + Window - now) \div TicksPerSecond
RetryAfter(h, now) == (h[1] + Window - now) \div TicksPerSecond + 1
AdmitOneMore(h) == Len(h) <= Limit
Admit(h) == Len(h) < Limit
check(t) ==
    LET c == calls[t]
        swept == Swept(c.now)
        found == IF swept[c.key] = None THEN <<>> ELSE swept[c.key]
        h == Prune(found, c.now - Window)
    IN
    /\ c # Idle
    /\ last_sweep' = IF SweepNow(c.now) THEN c.now ELSE last_sweep
    /\ calls' = [calls EXCEPT ![t] = Idle]
    /\ lag' = IF clock - c.now > lag THEN clock - c.now ELSE lag
    /\ \/ /\ Admit(h)
          /\ hits' = [swept EXCEPT ![c.key] = Append(h, c.now)]
          /\ log' = [log EXCEPT ![c.peer] = Append(@, c.now)]
          /\ promise' = [promise EXCEPT ![c.key] = None]
       \/ /\ ~Admit(h)
          /\ hits' = [swept EXCEPT ![c.key] = h]
          /\ promise' = [promise EXCEPT ![c.key] =
                            c.now + RetryAfter(h, c.now) * TicksPerSecond]
          /\ UNCHANGED log
    /\ UNCHANGED clock

(* reset, for one key or for all. *)
reset(K) ==
    /\ hits' = [k \in Peers |-> IF k \in K THEN None ELSE hits[k]]
    /\ log' = [p \in Peers |-> IF p \in K THEN <<>> ELSE log[p]]
    /\ promise' = [k \in Peers |-> IF k \in K THEN None ELSE promise[k]]
    /\ UNCHANGED <<clock, last_sweep, calls, lag>>

(* The process is restarted: the counters live in memory only. *)
Restart ==
    /\ hits' = [k \in Peers |-> None]
    /\ last_sweep' = clock
    /\ calls' = [t \in Threads |-> Idle]
    /\ log' = [p \in Peers |-> <<>>]
    /\ promise' = [k \in Peers |-> None]
    /\ UNCHANGED <<clock, lag>>

Tick == /\ clock < MaxTime
        /\ \A t \in Threads : calls[t] # Idle => clock - calls[t].now < MaxLag
        /\ clock' = clock + 1
        /\ log' = [p \in Peers |-> Prune(log[p], clock - MaxLag - Window)]
        /\ UNCHANGED <<hits, last_sweep, calls, lag, promise>>

Next ==
    \/ \E t \in Threads, p \in Peers, s \in Headers : ReadClock(t, p, s)
    \/ \E t \in Threads : check(t)
    \/ \E k \in Peers : reset({k})
    \/ reset(Peers)
    \/ Restart
    \/ Tick

Spec == Init /\ [][Next]_vars

-----------------------------------------------------------------------------
(* Properties. *)

TypeOK ==
    /\ clock \in Nat /\ last_sweep \in Nat /\ lag \in Nat
    /\ hits \in [Peers -> Seq(Nat) \cup {None}]
    /\ calls \in [Threads -> [key : Peers \cup {None}, peer : Peers \cup {None},
                              now : Nat]]
    /\ log \in [Peers -> Seq(Nat)]
    /\ promise \in [Peers -> Nat \cup {None}]

(* Admissions of one client with timestamps in the w ticks that end at e. *)
InWindow(p, e, w) == {i \in 1 .. Len(log[p]) : e - w < log[p][i] /\ log[p][i] <= e}

(* Rule: "limit events allowed per window_seconds, per key", counted for   *)
(* the real client whatever X-Forwarded-For it sent, and whatever the      *)
(* sweep dropped.  When threads enter check out of order the window        *)
(* shrinks by twice the longest wait for the lock -- once because another  *)
(* thread pruned with a newer timestamp, once because the sweep judges an  *)
(* unordered deque by its last element; without a wait (lag = 0) this is   *)
(* the rule itself.                                                        *)
WindowLimitUpToLag ==
    \A p \in Peers, e \in 0 .. clock :
        Cardinality(InWindow(p, e, Window - 2 * lag)) <= Limit

(* A deque never holds more than limit timestamps (memory per key).        *)
DequeBounded == \A k \in Peers : hits[k] # None => Len(hits[k]) <= Limit

(* Retry-After is honest: a client that waited as long as it was told is   *)
(* admitted, unless somebody was admitted under the same key meanwhile --  *)
(* also when threads enter check out of order.                             *)
RefusalIsHonest ==
    \A t \in Threads :
        LET c == calls[t] IN
        c # Idle /\ calls'[t] = Idle /\ promise'[c.key] # None =>
            promise[c.key] = None \/ c.now < promise[c.key]
RetryHonoured == [][RefusalIsHonest]_vars

(* The sweep keeps memory bounded: no key outlives a sweep after its       *)
(* newest hit left the widest window, unless that hit itself was recorded  *)
(* late.                                                                   *)
SweptKeysGone ==
    \A k \in Peers : hits[k] # None /\ hits[k] # <<>> =>
        Last(hits[k]) > last_sweep - Widest - lag

=============================================================================
