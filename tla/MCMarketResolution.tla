-------------------------- MODULE MCMarketResolution --------------------------
(* Symmetry for the safety run of MarketResolution: permits, cron runs and   *)
(* the names of the outcomes are interchangeable.                            *)
EXTENDS MarketResolution, TLC

Symmetry == Permutations(Slots) \cup Permutations(Crons) \cup Permutations(Outcomes)
===============================================================================
