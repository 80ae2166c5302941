--------------------------- MODULE MembershipTable ---------------------------
(***************************************************************************)
(* What the group_memberships and groups rows of one group promise to the  *)
(* rest of the backend, whatever the interleaving of the endpoints:        *)
(*   - rows enter as "member", one at most per user;                       *)
(*   - the owner's row never changes and never leaves, and no other row    *)
(*     becomes the owner's;                                                *)
(*   - a deleted group stays deleted;                                      *)
(*   - member_count moves by one, up only with a new row; but it may also  *)
(*     move down although no row leaves (Drift).                           *)
(* GroupMembership implements this specification.                          *)
(***************************************************************************)
EXTENDS Naturals

CONSTANTS Users,    \* user ids
          Owner     \* the user that created the group

VARIABLES role,     \* role[u]: the role in u's row, "none" without a row
          count,    \* groups.member_count
          deleted   \* groups.is_deleted

tableVars == <<role, count, deleted>>

\* The roles a row may be given after the group was created.
AssignableRoles == {"admin", "member", "follower"}

Init ==
    /\ role = [u \in Users |-> IF u = Owner THEN "owner" ELSE "none"]
    /\ count = 1
    /\ deleted = FALSE

Decremented(n) == IF n = 0 THEN 0 ELSE n - 1

Enrol(u) ==
    /\ role[u] = "none"
    /\ role' = [role EXCEPT ![u] = "member"]
    /\ count' = count + 1
    /\ UNCHANGED deleted

Expel(u) ==
    /\ u # Owner
    /\ role[u] # "none"
    /\ role' = [role EXCEPT ![u] = "none"]
    /\ count' = Decremented(count)
    /\ UNCHANGED deleted

Assign(u, r) ==
    /\ u # Owner
    /\ role[u] # "none"
    /\ role' = [role EXCEPT ![u] = r]
    /\ UNCHANGED <<count, deleted>>

Drift ==
    /\ count' = Decremented(count)
    /\ UNCHANGED <<role, deleted>>

Close ==
    /\ deleted' = TRUE
    /\ UNCHANGED <<role, count>>

Next ==
    \/ \E u \in Users :
          \/ Enrol(u)
          \/ Expel(u)
          \/ \E r \in AssignableRoles : Assign(u, r)
    \/ Drift
    \/ Close

Spec == Init /\ [][Next]_tableVars
=============================================================================
