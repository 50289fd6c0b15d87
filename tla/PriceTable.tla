----------------------------- MODULE PriceTable -----------------------------
(***************************************************************************)
(* What the docstrings of upsert_daily_prices (app/crud.py) and            *)
(* ingest_prices (app/routers/ingest.py) promise of one trading day: an    *)
(* upload inserts or overwrites the symbols it quotes, all of them or      *)
(* none, and never erases what another upload stored.                      *)
(***************************************************************************)
EXTENDS Naturals, Sequences

CONSTANTS Symbols, Closes, Bodies, None

VARIABLE closes      \* symbol -> its closing price on the day, or None

(* The last item of a body that quotes the symbol wins. *)
Quotes(b, s) == {i \in 1 .. Len(b) : b[i].symbol = s /\ b[i].close # None}
FinalClose(b, s) ==
    b[CHOOSE i \in Quotes(b, s) : \A j \in Quotes(b, s) : j <= i].close

Init == closes = [s \in Symbols |-> None]

(* A stored close may stay (the upload read the same one before another    *)
(* upload replaced it), but what changes is what the body says.            *)
Upload(b) ==
    /\ closes' \in [Symbols -> Closes \cup {None}]
    /\ \A s \in Symbols :
          IF Quotes(b, s) = {} THEN closes'[s] = closes[s]
          ELSE closes'[s] = FinalClose(b, s)
               \/ (closes'[s] = closes[s] /\ closes[s] # None)

Next == \E b \in Bodies : Upload(b)

Spec == Init /\ [][Next]_closes

=============================================================================
