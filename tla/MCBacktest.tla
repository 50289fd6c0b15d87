----------------------------- MODULE MCBacktest -----------------------------
(* Model-checking instance of Backtest: four days, two symbols.             *)
EXTENDS Backtest, TLC

Pick(session, day, symbol, price) ==
    [session |-> session, day |-> day, symbol |-> symbol, price |-> price]

(* Entries without a price and with price 0, a last day without prices yet, *)
(* an item that a day lists twice, and no entries at all.                   *)
MCScreenings ==
    { <<Pick("intraday_1300", 1, 1, 2), Pick("intraday_1300", 1, 2, 0),
        Pick("eod", 1, 1, 1), Pick("eod", 1, 2, None),
        Pick("intraday_1300", 3, 2, 1), Pick("eod", 3, 1, 2)>>,
      <<Pick("eod", 2, 2, 2), Pick("eod", 2, 1, None), Pick("intraday_1300", 2, 1, 1),
        Pick("intraday_1300", 2, 2, None), Pick("eod", 2, 2, 2)>>,
      <<>> }

(* A snapshot without items after the last entries, one before the first.   *)
MCHeaderDays == [stored \in MCScreenings |->
    IF stored = <<>> THEN {}
    ELSE IF stored[1].day = 1 THEN {1, 3, 4} ELSE {1, 2}]

Ask(mode, start, end, horizons, n, limit, sort, order) ==
    [mode |-> mode, start |-> start, end |-> end, horizons |-> horizons,
     detail_n |-> n, limit |-> limit, sort |-> sort, order |-> order]

MCQuestions ==
    { Ask("close_to_close", None, None, {1, 2}, 2, 5, "trade_date", "desc"),
      Ask("close_to_close", None, None, {1}, None, 1, "return_pct", "desc"),
      Ask("close_to_close", 2, None, {1}, 1, 5, "exit_date", "asc"),
      Ask("close_to_close", None, None, {0, 1}, 1, 5, "symbol", "asc"),
      Ask("intraday_to_close", None, None, {0, 1}, 0, 5, "symbol", "asc"),
      Ask("intraday_to_close", None, 2, {0}, 0, 1, "change", "asc"),
      Ask("intraday_to_close", 3, 1, {1}, 1, 1, "symbol", "asc"),
      Ask("intraday_to_close", None, None, {1, 2, 9}, 1, 1, "symbol", "asc") }

Bars == {[s \in Symbols |-> s], [s \in Symbols |-> IF s = 1 THEN 4 ELSE None]}
MCUploads == [day : Days, close : Bars]

=============================================================================
