----------------------------- MODULE MCGroupAlerts -----------------------------
(* Every market is shared at two prices in every group: 52 cents have moved   *)
(* from 60 but not from 50, 40 cents from both.                               *)
EXTENDS GroupAlerts

MCShares ==
    {[group |-> g, market |-> m, price |-> p] :
        g \in Groups, m \in Markets, p \in {50, 60}}
===============================================================================
