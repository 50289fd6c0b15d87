------------------------------ MODULE MCPrices ------------------------------
(* Instances of Prices for TLC: two symbols of one day. *)
EXTENDS Prices, TLC

CONSTANTS x, y, n

It(symbol, name, close, volume) ==
    [symbol |-> symbol, name |-> name, close |-> close, volume |-> volume]

(* One market after the other in both orders, a correction that knows no   *)
(* names, a symbol without a close, a symbol named twice, an empty day.    *)
MCPkOrder == <<x, y>>
MCBodies ==
    { <<>>,
      << It(x, n, 1, 1), It(y, n, 1, 1) >>,
      << It(y, n, 2, None), It(x, n, 2, 1) >>,
      << It(x, Blank, 2, 1) >>,
      << It(y, Blank, 1, None), It(x, n, None, 1) >>,
      << It(x, n, 1, None), It(x, Blank, 2, None) >> }

=============================================================================
