--------------------------- MODULE MCGroupMessaging ---------------------------
(* Symmetry for the safety runs of GroupMessaging: the slots of a kind are   *)
(* interchangeable, and so are the users other than the owner.               *)
EXTENDS GroupMessaging, TLC

Symmetry ==
    Permutations(Workers) \cup Permutations(Posts) \cup Permutations(Users \ {Owner})
===============================================================================
