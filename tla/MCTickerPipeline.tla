--------------------------- MODULE MCTickerPipeline ---------------------------
(* Two tokens: snapshots of one; tick sizes and one-sided changes of the       *)
(* other, so that a side of its book may be missing.                          *)
EXTENDS TickerPipeline

CONSTANTS Yes, No

MCMessages ==
    [type : {"book"}, token : {No}, bid : {1}, ask : {0}]
    \cup {[type |-> "price_change", token |-> Yes, side |-> "BUY", bid |-> 1, ask |-> 0],
          [type |-> "price_change", token |-> Yes, side |-> "SELL", bid |-> 0, ask |-> 2]}
    \cup [type : {"tick_size_change"}, token : {Yes}, size : {1}]
===============================================================================
