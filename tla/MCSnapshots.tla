---------------------------- MODULE MCSnapshots -----------------------------
(* Model-checking instances of Snapshots.  Of the header columns two stand *)
(* for all: the universe that was screened and the number of items.        *)
EXTENDS Snapshots

CONSTANTS
    full,    \* a body with items
    wider,   \* the same number of items out of a larger universe
    empty    \* the universe of "full", no items

HeaderColumns == {"universe", "item_count"}
HeaderValue ==
    [b \in {full, wider, empty} |->
        [universe   |-> IF b = wider THEN 2 ELSE 1,
         item_count |-> IF b = empty THEN 0 ELSE 1]]

=============================================================================
