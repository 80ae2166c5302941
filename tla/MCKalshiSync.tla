---------------------------- MODULE MCKalshiSync ----------------------------
(* Two events on two pages.  The first has no markets, so that all it does is *)
(* that a run has to get past its page; the two outcome rows of the market of *)
(* the second are the rows that a fallback may tear apart.                    *)
EXTENDS KalshiSync, TLC

CONSTANTS s1, e1, e2, m1

MCSeriesOf == (e1 :> s1) @@ (e2 :> s1)
MCEventOf == (m1 :> e2)
MCPosition == (e1 :> 1) @@ (e2 :> 2)
=============================================================================
