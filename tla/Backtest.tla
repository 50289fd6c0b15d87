------------------------------ MODULE Backtest ------------------------------
(***************************************************************************)
(* The backtest: app/backtest.py behind GET /backtestapi/run of            *)
(* app/routers/backtest.py, over the screened entries and the closes of    *)
(* table daily_prices.                                                     *)
(*                                                                         *)
(* A request reads entries, trading calendar and closes in separate        *)
(* statements (the closes in one statement per day), while uploads of      *)
(* prices commit between them; then it computes.  Dates and symbols are    *)
(* numbers in their order; prices are whole numbers, and a return is       *)
(* rounded down to a percentage where the code rounds to four digits.      *)
(* Snapshots stand still here: their entries are read by one statement.    *)
(***************************************************************************)
EXTENDS Integers, Sequences, FiniteSets, SequencesExt

CONSTANTS
    Days, Symbols,
    Closes,           \* closing prices that can be uploaded
    Screenings,       \* stored entries, ordered by (trade_date, rank)
    HeaderDays,       \* screening -> days of its snapshots, empty ones too
    Questions,        \* query parameters clients send
    Uploads,          \* bodies of POST /userapi/ingest/prices
    MaxUploads,       \* bound on the number of price uploads
    Today,
    MaxRange,         \* _MAX_RANGE_DAYS
    MAX_HORIZON, MAX_HORIZONS,
    None

VARIABLES
    closes,      \* daily_prices.close: day -> symbol -> price or None (no row)
    picks,       \* the entries of all snapshots
    req,         \* the request that is served
    uploads,     \* number of price uploads so far
    tables       \* history: the values closes had since the request began

vars == <<closes, picks, req, uploads, tables>>

-----------------------------------------------------------------------------
MODE_SESSION == [intraday_to_close |-> "intraday_1300", close_to_close |-> "eod"]
DETAIL_SORT_KEYS == {"trade_date", "symbol", "entry_price", "exit_date",
                     "exit_price", "change", "return_pct"}

Table == [Days -> [Symbols -> Closes \cup {None}]]
NoPrices == [d \in Days |-> [s \in Symbols |-> None]]

(* A screened item of a snapshot; its price is the close the item records, *)
(* in the 13:00 session the price of that moment.                          *)
Entry == [session : {"intraday_1300", "eod"}, day : Days, symbol : Symbols,
          price : Int \cup {None}]

(* What a client asks for; None is a parameter it left out. *)
Question ==
    [mode : DOMAIN MODE_SESSION, start : Days \cup {None}, end : Days \cup {None},
     horizons : SUBSET Int, detail_n : Int \cup {None}, limit : Nat,
     sort : DETAIL_SORT_KEYS, order : {"asc", "desc"}]

ASSUME QuestionAssumption ==
    /\ \A q \in Questions : q \in Question
    /\ Days \subseteq Int /\ IsFiniteSet(Days) /\ Today \in Days
    /\ Symbols \subseteq Int /\ Closes \subseteq Int
    /\ None \notin Int /\ None \notin {"pending", "missing"}
    /\ MaxUploads \in Nat /\ MAX_HORIZON \in Nat
ASSUME StoredAssumption ==
    /\ \A stored \in Screenings :
          /\ stored \in Seq(Entry)
          /\ HeaderDays[stored] \subseteq Days
          /\ \A i \in DOMAIN stored : stored[i].day \in HeaderDays[stored]
    /\ \A u \in Uploads : u \in [day : Days, close : [Symbols -> Closes \cup {None}]]

Idle == [pc |-> "idle"]
Init ==
    /\ closes = NoPrices
    /\ picks \in Screenings
    /\ req = Idle
    /\ uploads = 0
    /\ tables = {}

-----------------------------------------------------------------------------
(* ORDER BY: the k-th number of a set is the one with k - 1 below it. *)
Ascending(S) == [k \in 1 .. Cardinality(S) |->
                    CHOOSE x \in S : Cardinality({y \in S : y < x}) = k - 1]

(* The calendar: an ascending sequence of the days that have prices. *)
list_price_trading_days(table) ==
    Ascending({d \in Days : \E s \in Symbols : table[d][s] # None})

bisect_left(calendar, day) == Cardinality({i \in DOMAIN calendar : calendar[i] < day})
bisect_right(calendar, day) == Cardinality({i \in DOMAIN calendar : calendar[i] <= day})

(* The n-th trading day after a day, the day itself for 0 (n < 0 never     *)
(* gets here).                                                             *)
NthFromIndex(calendar, day, n) ==
    LET idx == bisect_left(calendar, day) + n IN
    IF idx < Len(calendar) THEN calendar[idx + 1] ELSE None
nth_trading_day(calendar, day, n) ==
    IF n = 0
    THEN IF \E i \in DOMAIN calendar :
                i = bisect_left(calendar, day) + 1 /\ calendar[i] = day
         THEN day ELSE None
    ELSE LET idx == bisect_right(calendar, day) + n - 1
         IN IF idx < Len(calendar) THEN calendar[idx + 1] ELSE None

(* normalize_horizons, and the rule that close_to_close has no N = 0. *)
normalize_horizons(q) ==
    /\ q.horizons # {} /\ Cardinality(q.horizons) <= MAX_HORIZONS
    /\ \A n \in q.horizons : 0 <= n /\ n <= MAX_HORIZON
    /\ q.mode = "close_to_close" => 0 \notin q.horizons

(* _resolve_range: an open end is filled from the snapshots of either      *)
(* session, those without items too, or with today when there are none.    *)
Resolved(given, bound) == IF given # None THEN given
                          ELSE IF bound = {} THEN Today ELSE CHOOSE d \in bound : TRUE
Screened == HeaderDays[picks]
resolve_range(q) ==
    [start |-> Resolved(q.start, IF Screened = {} THEN {} ELSE {Min(Screened)}),
     end   |-> Resolved(q.end,   IF Screened = {} THEN {} ELSE {Max(Screened)})]

-----------------------------------------------------------------------------
(* The loop over the entries, from what the request has read: r.entries,   *)
(* r.calendar and r.prices.                                                *)

ExitDay(r, e, n) == nth_trading_day(r.calendar, e.day, n)

EntryPrice(r, e) ==
    IF e.price = None /\ r.q.mode = "close_to_close"
    THEN r.prices[e.day][e.symbol] ELSE e.price

(* The (day, symbol) pairs whose close will be looked up. *)
Wanted(r, calendar, d) ==
    {e.symbol : e \in {x \in ToSet(r.entries) :
        \/ \E n \in r.q.horizons : nth_trading_day(calendar, x.day, n) = d
        \/ r.q.mode = "close_to_close" /\ x.price = None /\ x.day = d}}

Settled(r, e, n) ==
    LET day == ExitDay(r, e, n) IN day # None /\ r.prices[day][e.symbol] # None

Row(r, e, n) ==
    LET entry == EntryPrice(r, e)
        day == ExitDay(r, e, n)
        exit == r.prices[day][e.symbol]
    IN [trade_date |-> e.day, symbol |-> e.symbol, entry_price |-> entry,
        exit_date |-> day, exit_price |-> exit, change |-> exit - entry,
        return_pct |-> ((exit - entry) * 100) \div entry]

(* One turn of the loop; acc holds missing and returns for every N. *)
Count(r, acc, e) ==
    [n \in r.q.horizons |->
        IF /\ EntryPrice(r, e) # None /\ EntryPrice(r, e) > 0
           /\ Settled(r, e, n)
        THEN [acc[n] EXCEPT !.rows = Append(@, Row(r, e, n))]
        ELSE [acc[n] EXCEPT !.missing = @ + 1]]

Counted(r) ==
    LET zero == [n \in r.q.horizons |-> [missing |-> 0, rows |-> <<>>]]
    IN FoldLeft(LAMBDA acc, e : Count(r, acc, e), zero, r.entries)

(* The buckets go by the unrounded return, which has the sign of the       *)
(* change: the entry price is positive.                                    *)
Wins(rows)   == Cardinality({k \in DOMAIN rows : rows[k].change > 0})
Losses(rows) == Cardinality({k \in DOMAIN rows : rows[k].change < 0})
Flat(rows) == Len(rows) - Wins(rows) - Losses(rows)
Summarize(acc) ==
    LET all == {row.return_pct : row \in ToSet(acc.rows)}
    IN [samples |-> Len(acc.rows), missing |-> acc.missing, wins |-> Wins(acc.rows),
        losses |-> Losses(acc.rows), flat |-> Flat(acc.rows),
        best  |-> IF all = {} THEN None ELSE Max(all),
        worst |-> IF all = {} THEN None ELSE Min(all)]

(* The detail: sorted by the column and (trade_date, symbol), then cut. *)
detail_sort_key(sort, row) ==
    CASE sort = "trade_date" -> <<row.trade_date, row.symbol>>
      [] sort = "symbol"     -> <<row.symbol, row.trade_date>>
      [] OTHER               -> <<row[sort], row.trade_date, row.symbol>>
Before(q, a, b) ==
    LET x == detail_sort_key(q.sort, IF q.order = "asc" THEN a ELSE b)
        y == detail_sort_key(q.sort, IF q.order = "asc" THEN b ELSE a)
    IN \E i \in DOMAIN x : x[i] < y[i] /\ \A j \in 1 .. i - 1 : x[j] = y[j]
(* list.sort is stable, reversed too: of two rows with equal keys, the one *)
(* that was added first stays ahead.                                       *)
Ahead(q, a, i, b, j) == Before(q, a, b) \/ (i < j /\ ~Before(q, b, a))
Sorted(q, rows) ==
    [k \in DOMAIN rows |-> rows[CHOOSE i \in DOMAIN rows :
        Cardinality({j \in DOMAIN rows : Ahead(q, rows[j], j, rows[i], i)}) = k - 1]]
Cut(rows, limit) == SubSeq(rows, 1, Min({limit, Len(rows)}))
CutThenSort(q, rows) == Sorted(q, Cut(rows, q.limit))
SortThenCut(q, rows) == Cut(Sorted(q, rows), q.limit)

(* _coverage_warning: not there yet, or a fifth of the entries missing. *)
first_entry_day(r) == Min({e.day : e \in ToSet(r.entries)})
last_entry_day(r)  == Max({e.day : e \in ToSet(r.entries)})
coverage_warning(r, counted) ==
    LET worst == Max({counted[n].missing : n \in r.q.horizons}) IN
    IF nth_trading_day(r.calendar, last_entry_day(r), Max(r.q.horizons)) = None
    THEN "pending"
    ELSE IF worst > 0 /\ worst * 5 >= Len(r.entries) THEN "missing" ELSE None

detail_n(q) == IF q.detail_n \in q.horizons THEN q.detail_n ELSE Min(q.horizons)

(* The answer when there is nothing to compute, and the computed one. *)
EmptyAnswer(r, warning) ==
    [summary |-> [n \in r.q.horizons |->
                    Summarize([missing |-> Len(r.entries), rows |-> <<>>])],
     total |-> 0, detail |-> <<>>, warning |-> warning]
FullAnswer(r) ==
    LET counted == Counted(r)
        rows == counted[detail_n(r.q)].rows
    IN [summary |-> [n \in r.q.horizons |-> Summarize(counted[n])],
        total |-> Len(rows), detail |-> SortThenCut(r.q, rows),
        warning |-> coverage_warning(r, counted)]

-----------------------------------------------------------------------------
(* upsert_daily_prices as a committed upload leaves the closes: symbols    *)
(* without a close are skipped, rows of other symbols stay.                *)
upsert_daily_prices(u) ==
    /\ uploads < MaxUploads
    /\ closes' = [closes EXCEPT ![u.day] =
                    [s \in Symbols |-> IF u.close[s] = None THEN @[s] ELSE u.close[s]]]
    /\ uploads' = uploads + 1
    /\ tables' = IF req = Idle THEN tables ELSE tables \cup {closes'}
    /\ UNCHANGED <<picks, req>>

(* backtest_run: a request passes validation; 422 changes nothing. *)
backtest_run(q) ==
    LET range == resolve_range(q) IN
    /\ req = Idle
    /\ normalize_horizons(q)
    /\ range.start <= range.end /\ range.end - range.start <= MaxRange
    /\ req' = [pc |-> "entries", q |-> q, start |-> range.start, end |-> range.end]
    /\ tables' = {closes}
    /\ UNCHANGED <<closes, picks, uploads>>

(* The entries of one session in a range of days, in their order. *)
list_snapshot_entries(session, start, end) ==
    LET at == Ascending({i \in DOMAIN picks :
                 /\ picks[i].session = session
                 /\ start <= picks[i].day /\ picks[i].day <= end})
    IN [k \in DOMAIN at |-> picks[at[k]]]

CollectEntries ==
    /\ req.pc = "entries"
    /\ req' = [pc |-> "calendar", q |-> req.q,
               entries |-> list_snapshot_entries(MODE_SESSION[req.q.mode],
                                                 req.start, req.end)]
    /\ UNCHANGED <<closes, picks, uploads, tables>>

ReadCalendar ==
    LET calendar == list_price_trading_days(closes) IN
    /\ req.pc = "calendar"
    /\ req' = IF req.entries = <<>> \/ calendar = <<>>
              THEN [pc |-> "answered", q |-> req.q,
                    answer |-> EmptyAnswer(req, IF req.entries = <<>> THEN "no entries"
                                                ELSE "no prices")]
              ELSE [pc |-> "prices", q |-> req.q, entries |-> req.entries,
                    calendar |-> calendar, prices |-> NoPrices,
                    todo |-> {d \in Days : Wanted(req, calendar, d) # {}}]
    /\ UNCHANGED <<closes, picks, uploads, tables>>

(* One statement of load_close_prices; the days come in the order the      *)
(* entries mention them, any order here.                                   *)
load_close_prices(d) ==
    /\ req.pc = "prices" /\ d \in req.todo
    /\ req' = [req EXCEPT !.todo = @ \ {d},
                  !.prices[d] = [s \in Symbols |->
                      IF s \in Wanted(req, req.calendar, d) THEN closes[d][s] ELSE None]]
    /\ UNCHANGED <<closes, picks, uploads, tables>>

ComputeWithFreshCalendar ==
    /\ req.pc = "prices" /\ req.todo = {}
    /\ req' = [pc |-> "answered", q |-> req.q,
               answer |-> FullAnswer([req EXCEPT !.calendar =
                                        list_price_trading_days(closes)])]
    /\ UNCHANGED <<closes, picks, uploads, tables>>
Compute ==
    /\ req.pc = "prices" /\ req.todo = {}
    /\ req' = [pc |-> "answered", q |-> req.q, answer |-> FullAnswer(req)]
    /\ UNCHANGED <<closes, picks, uploads, tables>>

SendAnswer ==
    /\ req.pc = "answered"
    /\ req' = Idle
    /\ tables' = {}
    /\ UNCHANGED <<closes, picks, uploads>>

Next ==
    \/ \E u \in Uploads : upsert_daily_prices(u)
    \/ \E q \in Questions : backtest_run(q)
    \/ CollectEntries
    \/ ReadCalendar
    \/ \E d \in Days : load_close_prices(d)
    \/ Compute
    \/ SendAnswer

Spec == Init /\ [][Next]_vars

-----------------------------------------------------------------------------
(* What an answer means, without calendar arithmetic and loops: the entry  *)
(* e is settled N trading days later on a given table.                     *)

OpenDays(table) == {d \in Days : \E s \in Symbols : table[d][s] # None}

(* The day with exactly n open days after the entry, up to it: no or one.  *)
TrueExits(table, e, n) ==
    {d \in OpenDays(table) :
        /\ e.day <= d
        /\ Cardinality({c \in OpenDays(table) : e.day < c /\ c <= d}) = n}
TrueEntry(q, table, e) ==
    IF e.price = None /\ q.mode = "close_to_close" THEN table[e.day][e.symbol]
    ELSE e.price
(* The rows this entry contributes at n: none (missing) or one. *)
TrueRows(q, table, e, n) ==
    LET entry == TrueEntry(q, table, e) IN
    {[trade_date |-> e.day, symbol |-> e.symbol, entry_price |-> entry,
      exit_date |-> d, exit_price |-> table[d][e.symbol],
      change |-> table[d][e.symbol] - entry,
      return_pct |-> ((table[d][e.symbol] - entry) * 100) \div entry] :
        d \in {x \in TrueExits(table, e, n) :
                  entry # None /\ entry > 0 /\ table[x][e.symbol] # None}}

(* The entries a question is about: an open end is no bound at all. *)
Asked(q) ==
    {i \in DOMAIN picks : /\ picks[i].session = MODE_SESSION[q.mode]
                          /\ q.start = None \/ q.start <= picks[i].day
                          /\ q.end = None \/ picks[i].day <= q.end}

Answered == req.pc = "answered"
Quiet == tables = {closes}

(* Types of the tables, the parameters and the answer. *)
TypeOK ==
    /\ closes \in Table /\ tables \subseteq Table
    /\ uploads \in 0 .. MaxUploads
    /\ req # Idle => req.q \in Questions /\ closes \in tables
    /\ Answered => \A n \in req.q.horizons :
          LET s == req.answer.summary[n] IN
          {s.samples, s.missing, s.wins, s.losses, s.flat} \subseteq Nat

(* Every entry counts exactly once per horizon, in the right bucket, and   *)
(* a missing price is never a flat trade (BACKTEST.md): when no upload     *)
(* commits meanwhile, the summary is the one of the definition above, for  *)
(* every entry the question is about ("omitting both means every record"). *)
QuietAnswersAreRight ==
    Answered /\ Quiet =>
        \A n \in req.q.horizons :
            LET s == req.answer.summary[n]
                trades == UNION {{[of |-> i, row |-> row] :
                              row \in TrueRows(req.q, closes, picks[i], n)} :
                              i \in Asked(req.q)}
                returns == {t.row.return_pct : t \in trades}
            IN /\ s.wins    = Cardinality({t \in trades : t.row.change > 0})
               /\ s.losses  = Cardinality({t \in trades : t.row.change < 0})
               /\ s.flat    = Cardinality({t \in trades : t.row.change = 0})
               /\ s.samples = Cardinality(trades)
               /\ s.missing = Cardinality(Asked(req.q)) - Cardinality(trades)
               /\ trades # {} => s.best = Max(returns) /\ s.worst = Min(returns)

(* "The 20 best trades really is the best of all of them" (backtest_run):  *)
(* the detail has the trades of as many entries as the limit allows, each  *)
(* ahead of the ones below it and of those that were left out, and equal   *)
(* ones in the fixed order of the entries (_detail_sort_key).              *)
DetailIsTheBest ==
    Answered /\ Quiet =>
        LET q == req.q
            shown == req.answer.detail
            Trades(i) == TrueRows(q, closes, picks[i], detail_n(q))
            settled == {i \in Asked(q) : Trades(i) # {}}
        IN /\ req.answer.total = Cardinality(settled)
           /\ Len(shown) = Min({q.limit, Cardinality(settled)})
           /\ \E at \in [DOMAIN shown -> settled] :
                 /\ \A j, k \in DOMAIN shown : at[j] = at[k] => j = k
                 /\ \A k \in DOMAIN shown : shown[k] \in Trades(at[k])
                 /\ \A k \in DOMAIN shown, i \in settled : \A row \in Trades(i) :
                       (\A j \in 1 .. k : at[j] # i) =>
                           Ahead(q, shown[k], at[k], row, i)

(* One price upload that commits while a request reads leaves no invented  *)
(* trade: every entry is shown, or left out, as it truly was before or     *)
(* after that upload.  (Two uploads can: the calendar of before the first  *)
(* with a close of after the second.)                                      *)
OneUploadInventsNothing ==
    Answered /\ Cardinality(tables) <= 2 /\ req.answer.total <= req.q.limit =>
        LET shown == req.answer.detail
            Trades(table, i) == TrueRows(req.q, table, picks[i], detail_n(req.q))
        IN \E at \in [DOMAIN shown -> Asked(req.q)] :
              /\ \A j, k \in DOMAIN shown : at[j] = at[k] => j = k
              /\ \A k \in DOMAIN shown : \E table \in tables :
                    shown[k] \in Trades(table, at[k])
              /\ \A i \in Asked(req.q) : (\A k \in DOMAIN shown : at[k] # i) =>
                    \E table \in tables : Trades(table, i) = {}

(* The warning tells the two causes apart (_coverage_warning): an answer    *)
(* says to wait exactly if the N >= 1 days of some trade have not all      *)
(* happened, although only the latest entry and the longest horizon are    *)
(* looked at.  Of a question about N = 0 alone the code says so exactly if *)
(* the latest entry day has no prices, also when later days have (then the *)
(* upload was missed and nothing is to be waited for).  Without a warning  *)
(* less than a fifth of the entries is missing at any horizon.             *)
NoExit(i, n) == TrueExits(closes, picks[i], n) = {}
Waits(q) == \E i \in Asked(q), n \in q.horizons \ {0} : NoExit(i, n)
LatestDayMissing(q) ==
    \E i \in Asked(q) : NoExit(i, 0) /\ \A j \in Asked(q) : picks[j].day <= picks[i].day
WarningsAreHonest ==
    Answered /\ Quiet /\ Asked(req.q) # {} /\ OpenDays(closes) # {} =>
        /\ req.answer.warning = "pending" <=>
              IF req.q.horizons = {0} THEN LatestDayMissing(req.q) ELSE Waits(req.q)
        /\ req.answer.warning = None =>
              \A n \in req.q.horizons :
                  5 * req.answer.summary[n].missing < Cardinality(Asked(req.q))
                     \/ req.answer.summary[n].missing = 0

=============================================================================
