-------------------------- MODULE MCGroupMembership --------------------------
(* Symmetry for the safety runs of GroupMembership: worker slots are        *)
(* interchangeable, and so are the users other than the owner.              *)
EXTENDS GroupMembership, TLC

Symmetry == Permutations(Workers) \cup Permutations(Users \ {Owner})
=============================================================================
