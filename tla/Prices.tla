------------------------------- MODULE Prices -------------------------------
(***************************************************************************)
(* Daily prices: upsert_daily_prices of app/crud.py behind                 *)
(* POST /userapi/ingest/prices, for one trading day of daily_prices.       *)
(*                                                                         *)
(* One request is one transaction at READ COMMITTED: a SELECT of the day's *)
(* rows, a loop over the items in memory, and one flush that writes row by *)
(* row -- first an UPDATE of every row object with a changed column, in    *)
(* primary-key order and setting only those columns, then the INSERTs in   *)
(* the order of the body.  A write waits while another transaction holds   *)
(* the row (or the key it inserted); an INSERT that finds a row fails on   *)
(* the primary key, and PostgreSQL ends one transaction of a cycle.        *)
(*                                                                         *)
(* Of the columns, name stands for the two texts a blank keeps (name,      *)
(* market_code), volume for the nullable numbers (open, high, low, volume).*)
(***************************************************************************)
EXTENDS Integers, FiniteSets, Sequences, SequencesExt

CONSTANTS
    Threads,
    Symbols,
    PkOrder,       \* the symbols in the order of the primary key
    Names,
    Blank,         \* the empty name
    Closes,
    Volumes,
    Bodies,        \* uploads: sequences of items
    None

Item == [symbol : Symbols, name : Names \cup {Blank},
         close : Closes \cup {None}, volume : Volumes \cup {None}]

ASSUME SymbolsAssumption ==
    PkOrder \in Seq(Symbols) /\ ToSet(PkOrder) = Symbols /\ IsInjective(PkOrder)
ASSUME BodiesAssumption == Bodies \subseteq Seq(Item)

VARIABLES
    bars,        \* committed rows of the day: symbol -> row, or None
    tx           \* the transaction of each thread

vars == <<bars, tx>>

-----------------------------------------------------------------------------
Row == [name : Names \cup {Blank}, close : Closes, volume : Volumes \cup {None}]
ASSUME NoneAssumption == None \notin Row /\ None \notin Closes
Columns == {"name", "close", "volume"}
Statement == [op : {"insert", "update"}, symbol : Symbols, row : Row,
              sets : SUBSET Columns]

(* stmts is the flush, the first "done" of its statements are executed;    *)
(* inserted and updated are the counts of the loop.  History: read, the    *)
(* rows of the SELECT; alone, no other upload was open since then.         *)
Unread == [s \in Symbols |-> None]
TxType == [pc : {"idle", "flush", "failed", "lost"}, body : Bodies \cup {<<>>},
           stmts : Seq(Statement), done : Nat,
           inserted : Nat, updated : Nat,
           read : [Symbols -> Row \cup {None}], alone : BOOLEAN]
Idle == [pc |-> "idle", body |-> <<>>, stmts |-> <<>>, done |-> 0,
         inserted |-> 0, updated |-> 0, read |-> Unread, alone |-> TRUE]

Init ==
    /\ bars = Unread
    /\ tx = [t \in Threads |-> Idle]

-----------------------------------------------------------------------------
(* The loop.  rows are the row objects that were read, a symbol without    *)
(* one adds a new object for every item (the loop never extends            *)
(* "existing"); an item without a close is skipped.                        *)
Written(old, item) ==
    [name |-> IF item.name # Blank THEN item.name ELSE old.name,
     close |-> item.close, volume |-> item.volume]
NewRow == [name |-> Blank, close |-> None, volume |-> None]
Insert(item) == [op |-> "insert", symbol |-> item.symbol,
                 row |-> Written(NewRow, item), sets |-> Columns]

Adds(acc, item) == [acc EXCEPT !.added = Append(@, Insert(item))]
Sets(acc, item) == [acc EXCEPT !.rows[item.symbol] = Written(@, item), !.updated = @ + 1]
TakeAll(acc, item) ==
    IF acc.rows[item.symbol] = None THEN Adds(acc, item) ELSE Sets(acc, item)
TakeNew(acc, item) == IF item.close = None THEN acc ELSE Adds(acc, item)
Take(acc, item) ==
    IF item.close = None THEN acc
    ELSE IF acc.rows[item.symbol] = None THEN Adds(acc, item) ELSE Sets(acc, item)
Start(existing) == [rows |-> existing, added |-> <<>>, updated |-> 0]
Loop(existing, b) == FoldLeft(Take, Start(existing), b)

(* The flush: the ORM compares each row object with what was read. *)
DirtyGiven(old, row) == {c \in Columns : row[c] # old[c] /\ row[c] # None}
Dirty(old, row) == {c \in Columns : row[c] # old[c]}
Update(existing, rows, s) == [op |-> "update", symbol |-> s, row |-> rows[s],
                              sets |-> Dirty(existing[s], rows[s])]
Updates(existing, rows) ==
    LET add(acc, s) == IF existing[s] = None \/ rows[s] = existing[s] THEN acc
                       ELSE Append(acc, Update(existing, rows, s))
    IN  FoldLeft(add, <<>>, PkOrder)

Open(t) == tx[t].pc = "flush"
Others(t) == Threads \ {t}

(* SELECT and loop. *)
IngestPrices(t, b) ==
    /\ tx[t].pc = "idle"
    /\ LET loop == Loop(bars, b)
       IN  tx' = [o \in Threads |->
             IF o = t
             THEN [pc |-> "flush", body |-> b, done |-> 0,
                   stmts |-> Updates(bars, loop.rows) \o loop.added,
                   inserted |-> Len(loop.added), updated |-> loop.updated,
                   read |-> bars, alone |-> \A p \in Others(t) : ~Open(p)]
             ELSE [tx[o] EXCEPT !.alone = @ /\ ~Open(o)]]
    /\ UNCHANGED bars

-----------------------------------------------------------------------------
(* The flush, one statement at a time. *)
Held(t) == {tx[t].stmts[i].symbol : i \in 1 .. tx[t].done}
Current(t) == tx[t].stmts[tx[t].done + 1]
Flushing(t) == Open(t) /\ tx[t].done < Len(tx[t].stmts)
Blocks(o, t) == o # t /\ Flushing(t) /\ Current(t).symbol \in Held(o)

DuplicateUpserts(t) == FALSE
Duplicate(t) == /\ Current(t).op = "insert"
                /\ \/ bars[Current(t).symbol] # None
                   \/ Current(t).symbol \in Held(t)

Flush(t) ==
    /\ Flushing(t)
    /\ \A o \in Threads : ~Blocks(o, t)
    /\ tx' = IF Duplicate(t)
             THEN [tx EXCEPT ![t].pc = "failed", ![t].stmts = <<>>, ![t].done = 0]
             ELSE [tx EXCEPT ![t].done = @ + 1]
    /\ UNCHANGED bars

(* PostgreSQL finds a cycle of waiting transactions and ends one of them.  *)
DeadlockUndetected(t) == FALSE /\ UNCHANGED vars
DeadlockDetected(t) ==
    /\ \E S \in SUBSET Threads :
          /\ t \in S
          /\ \A o \in S : \E p \in S : Blocks(p, o)
    /\ tx' = [tx EXCEPT ![t].pc = "failed", ![t].stmts = <<>>, ![t].done = 0]
    /\ UNCHANGED bars

(* session.commit(): the executed statements become visible at once.  An   *)
(* UPDATE keeps what another transaction wrote into the other columns.     *)
Merge(old, stmt) ==
    [c \in Columns |-> IF c \in stmt.sets THEN stmt.row[c] ELSE old[c]]
StmtOf(t, s) == CHOOSE x \in ToSet(tx[t].stmts) : x.symbol = s
CommitReplacesDay(t) ==
    /\ Open(t) /\ tx[t].done = Len(tx[t].stmts)
    /\ bars' = [s \in Symbols |->
                  IF s \in Held(t) THEN Merge(bars[s], StmtOf(t, s)) ELSE None]
    /\ tx' = [tx EXCEPT ![t] = Idle]
Commit(t) ==
    /\ Open(t) /\ tx[t].done = Len(tx[t].stmts)
    /\ bars' = [s \in Symbols |->
                  IF s \in Held(t) THEN Merge(bars[s], StmtOf(t, s)) ELSE bars[s]]
    /\ tx' = [tx EXCEPT ![t] = Idle]

(* The 500 of a transaction that ended; its locks are already released. *)
Fail(t) ==
    /\ tx[t].pc \in {"failed", "lost"}
    /\ tx' = [tx EXCEPT ![t] = Idle]
    /\ UNCHANGED bars

(* A lost connection or a restart of the process rolls a transaction back. *)
Rollback(t) ==
    /\ Open(t)
    /\ tx' = [tx EXCEPT ![t] = [Idle EXCEPT !.pc = "lost"]]
    /\ UNCHANGED bars

-----------------------------------------------------------------------------
Step(t) == Flush(t) \/ DeadlockDetected(t) \/ Commit(t) \/ Fail(t)

Next == \E t \in Threads : (\E b \in Bodies : IngestPrices(t, b)) \/ Step(t) \/ Rollback(t)

Spec == Init /\ [][Next]_vars

(* The thread pool and PostgreSQL run every request on, a statement that   *)
(* waits for a row is next in line when the row is released, and           *)
(* deadlock_timeout makes the server look for cycles.                      *)
FairSpec == Spec /\ \A t \in Threads : WF_vars(Step(t)) /\ SF_vars(Flush(t))

-----------------------------------------------------------------------------
(* Properties. *)

TypeOK ==
    /\ bars \in [Symbols -> Row \cup {None}]
    /\ tx \in [Threads -> TxType]
    /\ \A t \in Threads : tx[t].done <= Len(tx[t].stmts)

(* What the last quoted item of a body leaves in the row of a symbol; a    *)
(* blank name keeps the last one that was given or stored.                 *)
LastOf(b, I) == b[CHOOSE i \in I : \A j \in I : j <= i]
BarAfter(b, s, old) ==
    LET quotes == {i \in 1 .. Len(b) : b[i].symbol = s /\ b[i].close # None}
        named  == {i \in quotes : b[i].name # Blank}
    IN  IF quotes = {} THEN old
        ELSE [name   |-> IF named # {} THEN LastOf(b, named).name
                         ELSE IF old # None THEN old.name ELSE Blank,
              close  |-> LastOf(b, quotes).close,
              volume |-> LastOf(b, quotes).volume]
Commits(t) == Open(t) /\ tx'[t] = Idle

(* An upload that no other upload overlapped stores exactly its bars, also *)
(* when it names a stored symbol several times, with and without a name or *)
(* a close, and leaves every other symbol of the day as it is ("additive   *)
(* rather than replace-the-day").                                          *)
AloneUploadOverwrites ==
    [][\A t \in Threads : Commits(t) /\ tx[t].alone =>
         \A s \in Symbols : bars'[s] = BarAfter(tx[t].body, s, bars[s])]_vars

(* In a race too, an upload leaves in every column of a stored bar what    *)
(* its body says (BarAfter, on the row as it was read) -- or, where that   *)
(* is the value it read, what an overlapping upload wrote there meanwhile: *)
(* the ORM sends only the columns that changed.  A bar can so be mixed     *)
(* from overlapping uploads, but keeps no value that either one replaced.  *)
RacedBar(t, s) ==
    LET read == tx[t].read[s]
        asked == BarAfter(tx[t].body, s, read)
    IN IF read = None
       THEN bars'[s] = BarAfter(tx[t].body, s, bars[s])
       ELSE /\ bars'[s] # None
            /\ \A c \in Columns :
                  \/ bars'[s][c] = asked[c]
                  \/ /\ asked[c] = read[c] /\ bars[s][c] # read[c]
                     /\ bars'[s][c] = bars[s][c]
BarOfTheRace ==
    [][\A t \in Threads : Commits(t) => \A s \in Symbols : RacedBar(t, s)]_vars

(* The counts of the answer are true in every race, although the loop      *)
(* takes them from rows read before: each "inserted" is one new row, each  *)
(* "updated" an item for a row that was there.                             *)
NewRows == {s \in Symbols : bars[s] = None /\ bars'[s] # None}
CountsAreTrue ==
    [][\A t \in Threads : Commits(t) =>
         /\ Cardinality(NewRows) = tx[t].inserted
         /\ tx[t].updated = Cardinality({i \in 1 .. Len(tx[t].body) :
                /\ tx[t].body[i].close # None
                /\ tx[t].body[i].symbol \notin NewRows})]_vars

(* An upload fails with a 500 only when another one overlapped it or its   *)
(* body quotes one new symbol twice (two objects with one primary key).    *)
FailsOnlyInRaces ==
    \A t \in Threads : tx[t].pc = "failed" /\ tx[t].alone =>
        \E i, j \in 1 .. Len(tx[t].body) :
            /\ i < j /\ tx[t].body[i].symbol = tx[t].body[j].symbol
            /\ tx[t].body[i].close # None /\ tx[t].body[j].close # None

(* Every upload is one step of the price table or none: it never erases a  *)
(* close, stores all its new symbols or fails, and changes a close only to *)
(* the last one its body gives.                                            *)
Table == INSTANCE PriceTable WITH
    closes <- [s \in Symbols |-> IF bars[s] = None THEN None ELSE bars[s].close]
ImplementsPriceTable == Table!Spec

(* Every upload ends, also those that wait for each other's new rows.      *)
UploadsEnd == \A t \in Threads : tx[t].pc # "idle" ~> tx[t].pc = "idle"

=============================================================================
