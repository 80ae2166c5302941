------------------------ MODULE GroupMembershipProofs ------------------------
(***************************************************************************)
(* Proofs about GroupMembership and GroupMessaging, for any number of      *)
(* users, of requests and of posts in flight, any capacity and any choice  *)
(* of endpoints and faults.  What needs requests that do not overlap, or   *)
(* no loss, says so (OneAtATime, NoLoss).                                  *)
(***************************************************************************)
EXTENDS GroupMessaging, FiniteSetTheorems, TLAPS

-----------------------------------------------------------------------------
(* Typing.                                                                  *)

LEMMA NewRequestType ==
    ASSUME NEW op \in Endpoints \cup {"create", "none"}, NEW s \in Steps,
           NEW u \in Users, NEW t \in Users, NEW a \in AssignableRoles
    PROVE  NewRequest(op, s, u, t, a) \in Request
  BY DEF NewRequest, Request, Roles, Statuses

LEMMA IdleType ==
    ASSUME NEW st \in Statuses
    PROVE  Idle(st) \in Request /\ Idle(st).step = "idle" /\ Idle(st).op = "none"
  BY ConstantsAssumption
  DEF Idle, NewRequest, Request, Steps, AssignableRoles, Roles, Endpoints

\* What the loading steps put into the request: fields op, user, target and arg
\* stay, the step follows from op.
LEMMA WithCallerType ==
    ASSUME NEW q \in Request, NEW r \in Roles
    PROVE  WithCaller(q, r) \in Request
  BY DEF WithCaller, Request, Steps

LEMMA WithTargetType ==
    ASSUME NEW q \in Request, NEW r \in Roles, NEW id \in Nat
    PROVE  WithTarget(q, r, id) \in Request
  BY DEF WithTarget, Request, Steps

LEMMA WithRowType ==
    ASSUME NEW q \in Request, NEW id \in Nat
    PROVE  WithRow(q, id) \in Request
  BY DEF WithRow, Request, Steps

LEMMA WithCallerFields ==
    ASSUME NEW q \in Request, NEW r \in Roles
    PROVE  /\ WithCaller(q, r).op = q.op /\ WithCaller(q, r).target = q.target
           /\ WithCaller(q, r).step = IF q.op = "delete" THEN "commit" ELSE "target"
  BY DEF WithCaller, Request

LEMMA WithTargetFields ==
    ASSUME NEW q \in Request, NEW r \in Roles, NEW id \in Nat
    PROVE  /\ WithTarget(q, r, id).op = q.op
           /\ WithTarget(q, r, id).target = q.target
  BY DEF WithTarget, Request

LEMMA WithRowFields ==
    ASSUME NEW q \in Request, NEW id \in Nat
    PROVE  WithRow(q, id).op = q.op /\ WithRow(q, id).target = q.target
  BY DEF WithRow, Request

\* Slot w may have moved; the types hold and the other slots are untouched.
SlotStep(w) ==
    /\ req' \in [Workers -> Request]
    /\ \A v \in Workers \ {w} : req'[v] = req[v]

LEMMA KeepType ==
    ASSUME TypeOK, NEW w \in Workers, NEW r \in Request, Keep(w, r)
    PROVE  SlotStep(w) /\ req'[w] = r
  BY DEF TypeOK, Keep, SlotStep

\* Moving to a step, or answering, changes one slot of req and keeps its type.
LEMMA GotoType ==
    ASSUME TypeOK, NEW w \in Workers, NEW s \in Steps, Goto(w, s)
    PROVE  SlotStep(w) /\ req'[w] = [req[w] EXCEPT !.step = s]
  <1>1. [req[w] EXCEPT !.step = s] \in Request
    BY DEF TypeOK, Request
  <1>2. QED
    BY <1>1, KeepType DEF Goto

LEMMA GotoFields ==
    ASSUME TypeOK, NEW w \in Workers, NEW s \in Steps, Goto(w, s)
    PROVE  /\ req'[w].step = s
           /\ req'[w].op = req[w].op /\ req'[w].target = req[w].target
  <1>1. req'[w] = [req[w] EXCEPT !.step = s]
    BY GotoType
  <1>2. req[w] \in Request
    BY DEF TypeOK
  <1>3. /\ [req[w] EXCEPT !.step = s].step = s
        /\ [req[w] EXCEPT !.step = s].op = req[w].op
        /\ [req[w] EXCEPT !.step = s].target = req[w].target
    BY <1>2 DEF Request
  <1>4. QED
    BY <1>1, <1>3

LEMMA ReplyType ==
    ASSUME TypeOK, NEW w \in Workers, NEW st \in Statuses, Reply(w, st)
    PROVE  SlotStep(w) /\ req'[w] = Idle(st)
  BY IdleType, KeepType DEF Reply

LEMMA TypeInit == Init => TypeOK
  <1> SUFFICES ASSUME Init PROVE TypeOK
    OBVIOUS
  <1>1. NewRequest("create", "sadd", Owner, Owner, "member") \in Request
    BY NewRequestType, ConstantsAssumption DEF Steps, AssignableRoles
  <1>2. Idle(0) \in Request
    BY IdleType DEF Statuses
  <1>3. req \in [Workers -> Request]
    BY <1>1, <1>2 DEF Init
  <1>4. QED
    BY <1>3 DEF Init, TypeOK, Roles

LEMMA CallType ==
    ASSUME TypeOK, NEW w \in Workers, NEW op \in Ops, NEW u \in Users,
           NEW t \in Users, NEW a \in Grants \cup {"member"}, Call(w, op, u, t, a)
    PROVE  /\ TypeOK'
           /\ UNCHANGED <<dbVars, cache, unread>>
           /\ SlotStep(w)
           /\ req'[w] = NewRequest(op, FirstStep(op), u, t, a)
  <1>1. FirstStep(op) \in {"select", "group"}
    BY DEF FirstStep
  <1>2. a \in AssignableRoles /\ op \in Endpoints \cup {"create", "none"}
    BY ConstantsAssumption DEF AssignableRoles
  <1>3. NewRequest(op, FirstStep(op), u, t, a) \in Request
    BY <1>1, <1>2, NewRequestType DEF Steps
  <1>4. QED
    BY <1>3, KeepType DEF Call, TypeOK, dbVars, SlotStep

\* A step that leaves the database, the member set and the counters alone
\* keeps the types if it keeps those of the requests.
LEMMA FrameType ==
    ASSUME TypeOK, UNCHANGED <<dbVars, cache, unread>>,
           req' \in [Workers -> Request]
    PROVE  TypeOK'
  BY DEF TypeOK, dbVars

LEMMA StepType ==
    ASSUME TypeOK, NEW w \in Workers, Step(w)
    PROVE  TypeOK' /\ SlotStep(w)
  <1>go. ASSUME NEW s \in Steps, Goto(w, s) PROVE SlotStep(w)
    BY <1>go, GotoType
  <1>re. ASSUME NEW st \in Statuses, Reply(w, st) PROVE SlotStep(w)
    BY <1>re, ReplyType
  <1>ty. /\ req[w] \in Request /\ req[w].user \in Users /\ req[w].target \in Users
         /\ \A u \in Users : role[u] \in Roles /\ rowId[u] \in Nat
    BY DEF TypeOK, Request
  <1>st. /\ {0, 200, 400, 403, 404, 409, 500} = Statuses
         /\ {"existing", "select", "commit", "sadd", "srem", "clear", "caller",
             "target"} \subseteq Steps
    BY DEF Statuses, Steps
  <1>1. CASE JoinReadGroup(w)
    <2>1. SlotStep(w)
      BY <1>1, <1>go, <1>re, <1>st DEF JoinReadGroup
    <2>2. QED
      BY <1>1, <2>1, FrameType DEF JoinReadGroup, SlotStep
  <1>2. CASE InviteReadMembership(w)
    <2>1. SlotStep(w)
      BY <1>2, <1>go, <1>re, <1>st DEF InviteReadMembership
    <2>2. QED
      BY <1>2, <2>1, FrameType DEF InviteReadMembership, SlotStep
  <1>3. CASE AddSelect(w)
    <2>1. SlotStep(w)
      BY <1>3, <1>go, <1>re, <1>st DEF AddSelect
    <2>2. QED
      BY <1>3, <2>1, FrameType DEF AddSelect, SlotStep
  <1>4. CASE AddCommit(w)
    <2>1. SlotStep(w)
      BY <1>4, <1>go, <1>re, <1>st DEF AddCommit
    <2>2. QED
      BY <1>4, <1>ty, <2>1 DEF AddCommit, TypeOK, SlotStep, dbVars, Roles
  <1>5. CASE AddToMemberSet(w)
    <2>1. SlotStep(w)
      BY <1>5, <1>re, <1>st DEF AddToMemberSet
    <2>2. QED
      BY <1>5, <1>ty, <2>1 DEF AddToMemberSet, TypeOK, SlotStep, dbVars
  <1>6. CASE ReadGroup(w)
    <2>1. SlotStep(w)
      BY <1>6, <1>go, <1>re, <1>st DEF ReadGroup
    <2>2. QED
      BY <1>6, <2>1, FrameType DEF ReadGroup, SlotStep
  <1>7. CASE ReadCaller(w)
    <2>1. SlotStep(w) \/ ~Keep(w, WithCaller(req[w], role[req[w].user]))
      BY <1>ty, WithCallerType, KeepType
    <2>2. SlotStep(w)
      BY <1>7, <1>re, <1>st, <2>1 DEF ReadCaller
    <2>3. QED
      BY <1>7, <2>2, FrameType DEF ReadCaller, SlotStep
  <1>8. CASE ReadTarget(w)
    <2>1. SlotStep(w) \/ ~Keep(w, WithTarget(req[w], role[req[w].target], rowId[req[w].target]))
      BY <1>ty, WithTargetType, KeepType
    <2>2. SlotStep(w)
      BY <1>8, <1>re, <1>st, <2>1 DEF ReadTarget
    <2>3. QED
      BY <1>8, <2>2, FrameType DEF ReadTarget, SlotStep
  <1>9. CASE SetRole(w)
    <2>1. SlotStep(w)
      BY <1>9, <1>re, <1>st DEF SetRole
    <2>2. req[w].arg \in Roles
      BY <1>ty DEF Request, AssignableRoles, Roles
    <2>3. QED
      BY <1>9, <1>ty, <2>1, <2>2 DEF SetRole, TypeOK, SlotStep
  <1>10. CASE DeleteGroup(w)
    <2>1. SlotStep(w)
      BY <1>10, <1>re, <1>st DEF DeleteGroup
    <2>2. QED
      BY <1>10, <2>1 DEF DeleteGroup, TypeOK, SlotStep
  <1>11. CASE RemoveSelect(w)
    <2>1. SlotStep(w) \/ ~Keep(w, WithRow(req[w], rowId[req[w].target]))
      BY <1>ty, WithRowType, KeepType
    <2>2. SlotStep(w)
      BY <1>11, <1>re, <1>st, <2>1 DEF RemoveSelect
    <2>3. QED
      BY <1>11, <2>2, FrameType DEF RemoveSelect, SlotStep
  <1>12. CASE RemoveCommit(w)
    <2>1. SlotStep(w)
      BY <1>12, <1>go, <1>st DEF RemoveCommit
    <2>2. role' \in [Users -> Roles]
      BY <1>12, <1>ty DEF RemoveCommit, TypeOK, Roles
    <2>3. count' \in Nat
      BY <1>12 DEF RemoveCommit, TypeOK, Decremented
    <2>4. QED
      BY <1>12, <2>1, <2>2, <2>3 DEF RemoveCommit, TypeOK, SlotStep
  <1>13. CASE RemoveFromMemberSet(w)
    <2>1. SlotStep(w)
      BY <1>13, <1>go, <1>st DEF RemoveFromMemberSet
    <2>2. QED
      BY <1>13, <2>1 DEF RemoveFromMemberSet, TypeOK, SlotStep, dbVars
  <1>14. CASE ClearUnread(w)
    <2>1. SlotStep(w)
      BY <1>14, <1>re, <1>st DEF ClearUnread
    <2>2. QED
      BY <1>14, <1>ty, <2>1 DEF ClearUnread, TypeOK, SlotStep, dbVars
  <1>15. QED
    BY <1>1, <1>2, <1>3, <1>4, <1>5, <1>6, <1>7, <1>8, <1>9, <1>10, <1>11,
       <1>12, <1>13, <1>14 DEF Step

\* TypeOK is inductive by itself.
LEMMA NextType ==
    TypeOK /\ [Next]_vars => TypeOK'
  <1> SUFFICES ASSUME TypeOK, [Next]_vars PROVE TypeOK'
    OBVIOUS
  <1>1. ASSUME NEW w \in Workers, NEW op \in Ops, NEW u \in Users,
               NEW t \in Users, NEW a \in Grants \cup {"member"},
               Call(w, op, u, t, a)
        PROVE  TypeOK'
    BY <1>1, CallType
  <1>2. ASSUME NEW w \in Workers, Step(w)
        PROVE  TypeOK'
    BY <1>2, StepType
  <1>3. ASSUME NEW w \in Workers, Abort(w)
        PROVE  TypeOK'
    BY <1>3, ReplyType, FrameType DEF Abort, SlotStep, Statuses
  <1>4. CASE ExpireMemberSet
    BY <1>4 DEF ExpireMemberSet, TypeOK, dbVars
  <1>5. CASE UNCHANGED vars
    BY <1>5 DEF vars, TypeOK
  <1>6. QED
    BY <1>1, <1>2, <1>3, <1>4, <1>5 DEF Next

\* Every variable keeps its type.
THEOREM TypeCorrect == Spec => []TypeOK
  BY TypeInit, NextType, PTL DEF Spec

-----------------------------------------------------------------------------
(* The owner, and the abstract table.                                       *)

\* A request about to write or delete a row has seen that it is not the owner's.
CommitTarget ==
    \A w \in Workers :
        req[w].op \in {"role", "leave", "kick"} /\ req[w].step = "commit"
        => req[w].target # Owner

\* OneOwner is preserved only because the row about to be written is not the
\* owner's, and that is seen in a row read while OneOwner held.
OwnerInv == TypeOK /\ OneOwner /\ CommitTarget

\* An action that leaves the database alone keeps OwnerInv if slot w does not
\* arrive at the commit of the owner's row.
LEMMA QuietStep ==
    ASSUME OwnerInv, TypeOK', NEW w \in Workers, SlotStep(w), UNCHANGED dbVars,
           req'[w].op \in {"role", "leave", "kick"} /\ req'[w].step = "commit"
           => req'[w].target # Owner
    PROVE  OwnerInv' /\ UNCHANGED <<role, count, deleted>>
  BY DEF OwnerInv, OneOwner, CommitTarget, SlotStep, dbVars

LEMMA StepTable ==
    ASSUME OwnerInv, NEW w \in Workers, Step(w)
    PROVE  OwnerInv' /\ [Table!Next]_<<role, count, deleted>>
  <1>ty. /\ TypeOK /\ TypeOK' /\ SlotStep(w)
         /\ req[w] \in Request /\ req[w].user \in Users /\ req[w].target \in Users
    BY StepType DEF OwnerInv, TypeOK, Request
  <1>own. \A u \in Users : role[u] = "owner" <=> u = Owner
    BY DEF OwnerInv, OneOwner
  <1>go. ASSUME NEW s \in Steps, Goto(w, s)
         PROVE  /\ req'[w].step = s
                /\ req'[w].op = req[w].op /\ req'[w].target = req[w].target
    BY <1>ty, <1>go, GotoFields
  <1>re. ASSUME NEW st \in Statuses, Reply(w, st)
         PROVE  req'[w].step = "idle" /\ req'[w].op = "none"
    BY <1>ty, <1>re, ReplyType, IdleType
  <1>st. /\ {0, 200, 400, 403, 404, 409, 500} = Statuses
         /\ {"existing", "select", "commit", "sadd", "srem", "clear", "caller",
             "target"} \subseteq Steps
    BY DEF Statuses, Steps
  <1>1. CASE JoinReadGroup(w) \/ InviteReadMembership(w) \/ AddSelect(w)
    <2>1. req[w].op \in {"join", "invite"} /\ UNCHANGED dbVars
      BY <1>1 DEF JoinReadGroup, InviteReadMembership, AddSelect, At
    <2>2. req'[w].op \in {"join", "invite", "none"}
      BY <1>1, <2>1, <1>go, <1>re, <1>st
      DEF JoinReadGroup, InviteReadMembership, AddSelect
    <2>3. QED
      BY <1>ty, <2>1, <2>2, QuietStep
  <1>2. CASE AddCommit(w)
    <2>1. req[w].op \in {"join", "invite"} /\ req[w].step = "commit"
      BY <1>2 DEF AddCommit, At
    <2>2. CASE UNCHANGED dbVars /\ Reply(w, 500)
      BY <2>2, <1>ty, <1>re, <1>st, QuietStep
    <2>3. CASE /\ role[req[w].user] = "none"
               /\ role' = [role EXCEPT ![req[w].user] = "member"]
               /\ count' = count + 1
               /\ UNCHANGED deleted
               /\ Goto(w, "sadd")
      <3>1. Table!Enrol(req[w].user)
        BY <2>3 DEF Table!Enrol
      <3>2. OneOwner'
        BY <2>3, <1>ty, <1>own DEF OneOwner, TypeOK
      <3>3. CommitTarget'
        BY <2>3, <1>ty, <1>go, <1>st DEF CommitTarget, OwnerInv, SlotStep
      <3>4. QED
        BY <1>ty, <3>1, <3>2, <3>3 DEF OwnerInv, Table!Next
    <2>4. QED
      BY <1>2, <2>2, <2>3 DEF AddCommit
  <1>3. CASE AddToMemberSet(w)
    BY <1>3, <1>ty, <1>re, <1>st, QuietStep DEF AddToMemberSet
  <1>4. CASE ReadGroup(w)
    <2>1. req'[w].step \in {"idle", "caller"}
      BY <1>4, <1>go, <1>re, <1>st DEF ReadGroup
    <2>2. QED
      BY <1>4, <1>ty, <2>1, QuietStep DEF ReadGroup
  <1>5. CASE ReadCaller(w)
    <2>1. ASSUME Keep(w, WithCaller(req[w], role[req[w].user]))
          PROVE  req'[w].step = "commit" => req'[w].op = "delete"
      <3>1. /\ role[req[w].user] \in Roles /\ role[req[w].target] \in Roles
            /\ rowId[req[w].target] \in Nat
        BY <1>ty DEF TypeOK
      <3>2. req'[w] = WithCaller(req[w], role[req[w].user])
        BY <2>1, <3>1, <1>ty, WithCallerType, KeepType
      <3>3. QED
        BY <2>1, <3>1, <3>2, <1>ty, <1>own, WithCallerFields
    <2>2. req'[w].step = "commit" => req'[w].op \in {"delete", "none"}
      BY <1>5, <2>1, <1>re, <1>st DEF ReadCaller
    <2>3. QED
      BY <1>5, <1>ty, <2>2, QuietStep DEF ReadCaller
  <1>6. CASE ReadTarget(w)
    <2>1. ASSUME Keep(w, WithTarget(req[w], role[req[w].target], rowId[req[w].target])),
                 role[req[w].target] # "owner"
          PROVE  req'[w].target # Owner
      <3>1. /\ role[req[w].user] \in Roles /\ role[req[w].target] \in Roles
            /\ rowId[req[w].target] \in Nat
        BY <1>ty DEF TypeOK
      <3>2. req'[w] = WithTarget(req[w], role[req[w].target], rowId[req[w].target])
        BY <2>1, <3>1, <1>ty, WithTargetType, KeepType
      <3>3. QED
        BY <2>1, <3>1, <3>2, <1>ty, <1>own, WithTargetFields
    <2>2. req'[w].step = "idle" \/ req'[w].target # Owner
      BY <1>6, <2>1, <1>re, <1>st DEF ReadTarget
    <2>3. QED
      BY <1>6, <1>ty, <2>2, QuietStep DEF ReadTarget
  <1>7. CASE SetRole(w)
    <2>1. req[w].target # Owner /\ req[w].arg \in {"admin", "member", "follower"}
      BY <1>7, <1>ty DEF SetRole, At, OwnerInv, CommitTarget, Request, AssignableRoles
    <2>2. Reply(w, 200) \/ Reply(w, 500)
      BY <1>7 DEF SetRole
    <2>3. CommitTarget'
      BY <1>ty, <1>re, <1>st, <2>2 DEF CommitTarget, OwnerInv, SlotStep
    <2>4. CASE UNCHANGED role
      BY <1>7, <1>ty, <2>3, <2>4 DEF SetRole, OwnerInv, OneOwner
    <2>5. CASE Live(w) /\ role' = [role EXCEPT ![req[w].target] = req[w].arg]
      <3>1. Table!Assign(req[w].target, req[w].arg)
        BY <1>7, <2>1, <2>5 DEF SetRole, Live, Table!Assign
      <3>2. OneOwner'
        BY <2>1, <2>5, <1>ty, <1>own DEF OneOwner, TypeOK
      <3>3. QED
        BY <1>ty, <2>1, <2>3, <3>1, <3>2
        DEF OwnerInv, Table!Next, Table!AssignableRoles
    <2>6. QED
      BY <1>7, <2>4, <2>5 DEF SetRole
  <1>8. CASE DeleteGroup(w)
    <2>1. CommitTarget'
      BY <1>8, <1>ty, <1>re, <1>st DEF DeleteGroup, CommitTarget, OwnerInv, SlotStep
    <2>2. Table!Close
      BY <1>8 DEF DeleteGroup, Table!Close
    <2>3. QED
      BY <1>8, <1>ty, <2>1, <2>2 DEF DeleteGroup, OwnerInv, OneOwner, Table!Next
  <1>9. CASE RemoveSelect(w)
    <2>1. ASSUME Keep(w, WithRow(req[w], rowId[req[w].target])),
                 role[req[w].target] # "owner"
          PROVE  req'[w].target # Owner
      <3>1. /\ role[req[w].user] \in Roles /\ role[req[w].target] \in Roles
            /\ rowId[req[w].target] \in Nat
        BY <1>ty DEF TypeOK
      <3>2. req'[w] = WithRow(req[w], rowId[req[w].target])
        BY <2>1, <3>1, <1>ty, WithRowType, KeepType
      <3>3. QED
        BY <2>1, <3>1, <3>2, <1>ty, <1>own, WithRowFields
    <2>2. req'[w].step = "idle" \/ req'[w].target # Owner
      BY <1>9, <2>1, <1>re, <1>st DEF RemoveSelect
    <2>3. QED
      BY <1>9, <1>ty, <2>2, QuietStep DEF RemoveSelect
  <1>10. CASE RemoveCommit(w)
    <2>1. req[w].target # Owner
      BY <1>10 DEF RemoveCommit, At, OwnerInv, CommitTarget
    <2>2. CommitTarget'
      BY <1>10, <1>ty, <1>go, <1>st DEF RemoveCommit, CommitTarget, OwnerInv, SlotStep
    <2>3. OneOwner'
      BY <1>10, <1>ty, <1>own, <2>1 DEF RemoveCommit, OneOwner, TypeOK
    <2>4. CASE Live(w)
      <3>1. Table!Expel(req[w].target)
        BY <1>10, <2>1, <2>4
        DEF RemoveCommit, Live, Table!Expel, Decremented, Table!Decremented
      <3>2. QED
        BY <1>ty, <2>2, <2>3, <3>1 DEF OwnerInv, Table!Next
    <2>5. CASE ~Live(w)
      <3>1. Table!Drift
        BY <1>10, <2>5 DEF RemoveCommit, Table!Drift, Decremented, Table!Decremented
      <3>2. QED
        BY <1>ty, <2>2, <2>3, <3>1 DEF OwnerInv, Table!Next
    <2>6. QED
      BY <2>4, <2>5
  <1>11. CASE RemoveFromMemberSet(w)
    BY <1>11, <1>ty, <1>go, <1>st, QuietStep DEF RemoveFromMemberSet
  <1>12. CASE ClearUnread(w)
    BY <1>12, <1>ty, <1>re, <1>st, QuietStep DEF ClearUnread
  <1>13. QED
    BY <1>1, <1>2, <1>3, <1>4, <1>5, <1>6, <1>7, <1>8, <1>9, <1>10, <1>11, <1>12
    DEF Step

LEMMA NextTable ==
    OwnerInv /\ [Next]_vars => OwnerInv' /\ [Table!Next]_<<role, count, deleted>>
  <1> SUFFICES ASSUME OwnerInv, [Next]_vars
               PROVE  OwnerInv' /\ [Table!Next]_<<role, count, deleted>>
    OBVIOUS
  <1>ty. TypeOK
    BY DEF OwnerInv
  <1>1. ASSUME NEW w \in Workers, NEW op \in Ops, NEW u \in Users,
               NEW t \in Users, NEW a \in Grants \cup {"member"},
               Call(w, op, u, t, a)
        PROVE  OwnerInv' /\ UNCHANGED <<role, count, deleted>>
    <2>1. req'[w].step \in {"select", "group"}
      <3>1. req'[w] = NewRequest(op, FirstStep(op), u, t, a)
        BY <1>ty, <1>1, CallType
      <3>2. NewRequest(op, FirstStep(op), u, t, a).step = FirstStep(op)
        BY DEF NewRequest
      <3>3. QED
        BY <3>1, <3>2 DEF FirstStep
    <2>2. QED
      BY <1>ty, <1>1, <2>1, CallType, QuietStep
  <1>2. ASSUME NEW w \in Workers, Step(w)
        PROVE  OwnerInv' /\ [Table!Next]_<<role, count, deleted>>
    BY <1>2, StepTable
  <1>3. ASSUME NEW w \in Workers, Abort(w)
        PROVE  OwnerInv' /\ UNCHANGED <<role, count, deleted>>
    <2>1. SlotStep(w) /\ req'[w].step = "idle"
      BY <1>ty, <1>3, ReplyType, IdleType DEF Abort, Statuses
    <2>2. TypeOK' /\ UNCHANGED dbVars
      BY <1>ty, <1>3, <2>1, FrameType DEF Abort, SlotStep
    <2>3. QED
      BY <2>1, <2>2, QuietStep
  <1>4. CASE ExpireMemberSet
    BY <1>4 DEF ExpireMemberSet, OwnerInv, TypeOK, OneOwner, CommitTarget, dbVars
  <1>5. CASE UNCHANGED vars
    BY <1>5 DEF vars, OwnerInv, TypeOK, OneOwner, CommitTarget
  <1>6. QED
    BY <1>1, <1>2, <1>3, <1>4, <1>5 DEF Next

LEMMA InitTable == Init => OwnerInv /\ Table!Init
  <1> SUFFICES ASSUME Init PROVE OwnerInv /\ Table!Init
    OBVIOUS
  <1>1. TypeOK
    BY TypeInit
  <1>2. OneOwner /\ Table!Init
    BY DEF Init, OneOwner, Table!Init
  <1>3. \A w \in Workers : req[w].step # "commit"
    BY IdleType DEF Init, NewRequest, Statuses
  <1>4. QED
    BY <1>1, <1>2, <1>3 DEF OwnerInv, CommitTarget

\* Whatever requests overlap or die, the creator is the one owner of the group.
THEOREM OwnerKept == Spec => []OneOwner
  <1>1. OwnerInv => OneOwner
    BY DEF OwnerInv
  <1>2. QED
    BY InitTable, NextTable, <1>1, PTL DEF Spec

\* GroupMembership implements MembershipTable: every step of every endpoint is
\* one abstract step of the table, or leaves it alone.
THEOREM ImplementsTable == Spec => TableSpec
  <1>1. QED
    BY InitTable, NextTable, PTL DEF Spec, TableSpec, Table!Spec, Table!tableVars

-----------------------------------------------------------------------------
(* The member count.                                                        *)

LEMMA MembersFinite ==
    ASSUME NEW S, S \subseteq Users
    PROVE  IsFiniteSet(S) /\ Cardinality(S) \in Nat
  BY FS_Subset, FS_CardinalityType, ConstantsAssumption

\* A step of the table keeps the count below the number of rows: the count
\* rises only with a new row, and every row that leaves is counted out.
LEMMA TableCount ==
    ASSUME TypeOK, TypeOK', CountNeverAbove, Table!Next
    PROVE  CountNeverAbove'
  <1>fin. /\ IsFiniteSet(Members) /\ Cardinality(Members) \in Nat
          /\ IsFiniteSet(Members') /\ Cardinality(Members') \in Nat
    BY MembersFinite DEF Members
  <1>1. ASSUME NEW u \in Users, Table!Enrol(u)
        PROVE  CountNeverAbove'
    <2>1. u \notin Members /\ Members' = Members \cup {u}
      BY <1>1 DEF Table!Enrol, Members, TypeOK
    <2>2. Cardinality(Members') = Cardinality(Members) + 1
      BY <2>1, <1>fin, FS_AddElement
    <2>3. QED
      BY <1>1, <1>fin, <2>2 DEF Table!Enrol, CountNeverAbove, TypeOK
  <1>2. ASSUME NEW u \in Users, Table!Expel(u)
        PROVE  CountNeverAbove'
    <2>1. u \in Members /\ Members' = Members \ {u}
      BY <1>2 DEF Table!Expel, Members, TypeOK
    <2>2. Cardinality(Members') = Cardinality(Members) - 1
      BY <2>1, <1>fin, FS_RemoveElement
    <2>3. QED
      BY <1>2, <1>fin, <2>2
      DEF Table!Expel, Table!Decremented, CountNeverAbove, TypeOK
  <1>3. ASSUME NEW u \in Users, NEW r \in Table!AssignableRoles, Table!Assign(u, r)
        PROVE  CountNeverAbove'
    <2>1. Members' = Members
      BY <1>3 DEF Table!Assign, Table!AssignableRoles, Members, TypeOK
    <2>2. QED
      BY <1>3, <2>1 DEF Table!Assign, CountNeverAbove
  <1>4. CASE Table!Drift
    <2>1. Members' = Members
      BY <1>4 DEF Table!Drift, Members
    <2>2. QED
      BY <1>4, <1>fin, <2>1 DEF Table!Drift, Table!Decremented, CountNeverAbove, TypeOK
  <1>5. CASE Table!Close
    BY <1>5 DEF Table!Close, CountNeverAbove, Members
  <1>6. QED
    BY <1>1, <1>2, <1>3, <1>4, <1>5 DEF Table!Next

\* member_count never exceeds the number of rows, whatever requests overlap:
\* it follows from the refinement alone.
THEOREM CountKept == Spec => []CountNeverAbove
  <1>1. Init => CountNeverAbove
    <2> SUFFICES ASSUME Init PROVE CountNeverAbove
      OBVIOUS
    <2>1. Owner \in Members
      BY ConstantsAssumption DEF Init, Members
    <2>2. Cardinality(Members) # 0
      BY <2>1, MembersFinite, FS_EmptySet DEF Members
    <2>3. QED
      BY <2>2, MembersFinite DEF Init, CountNeverAbove, Members
  <1>2. OwnerInv /\ OwnerInv' /\ CountNeverAbove
        /\ [Table!Next]_<<role, count, deleted>> => CountNeverAbove'
    BY TableCount DEF OwnerInv, CountNeverAbove, Members
  <1>3. QED
    BY InitTable, NextTable, <1>1, <1>2, PTL DEF Spec

-----------------------------------------------------------------------------
(* The capacity.                                                            *)

LEMMA WorkersFinite ==
    ASSUME NEW S, S \subseteq Workers
    PROVE  /\ IsFiniteSet(S) /\ Cardinality(S) \in Nat
           /\ Cardinality(S) <= Cardinality(Workers)
           /\ \A T : T \subseteq S => Cardinality(T) <= Cardinality(S)
  BY FS_Subset, FS_CardinalityType, ConstantsAssumption

\* A step that admits nobody new and does not raise the count.
LEMMA NoNewAdmission ==
    ASSUME TypeOK, TypeOK', OvershootBounded, count' <= count, Admitted' \subseteq Admitted
    PROVE  OvershootBounded'
  <1>1. /\ Cardinality(Admitted') <= Cardinality(Admitted)
        /\ Cardinality(Admitted) \in Nat /\ Cardinality(Admitted') \in Nat
    BY WorkersFinite DEF Admitted
  <1>2. Cardinality(Workers) \in Nat /\ MaxMembers \in Nat
    BY WorkersFinite, ConstantsAssumption
  <1>3. QED
    BY <1>1, <1>2 DEF OvershootBounded, TypeOK

LEMMA SlotAdmission ==
    ASSUME NEW w \in Workers, SlotStep(w), Admits(req'[w]) => Admits(req[w])
    PROVE  Admitted' \subseteq Admitted
  BY DEF SlotStep, Admitted, Admits

LEMMA StepCapacity ==
    ASSUME TypeOK, OvershootBounded, NEW w \in Workers, Step(w)
    PROVE  OvershootBounded'
  <1>ty. TypeOK' /\ SlotStep(w)
    BY StepType
  <1>go. ASSUME NEW s \in Steps, Goto(w, s)
         PROVE  req'[w].step = s /\ req'[w].op = req[w].op
    BY <1>go, GotoFields
  <1>re. ASSUME NEW st \in Statuses, Reply(w, st)
         PROVE  req'[w].step = "idle" /\ req'[w].op = "none"
    BY <1>re, ReplyType, IdleType
  <1>st. /\ {0, 200, 400, 403, 404, 409, 500} = Statuses
         /\ {"existing", "select", "commit", "sadd", "srem", "clear", "caller",
             "target"} \subseteq Steps
    BY DEF Statuses, Steps
  <1>num. Cardinality(Workers) \in Nat /\ MaxMembers \in Nat
    BY WorkersFinite, ConstantsAssumption
  <1>1. CASE JoinReadGroup(w)
    <2>1. CASE Full \/ AccessType # "private" \/ req'[w].op = "none"
      <3>1. CASE AccessType # "private"
        BY <3>1 DEF OvershootBounded
      <3>2. CASE req'[w].op = "none"
        BY <1>1, <1>ty, <3>2, SlotAdmission, NoNewAdmission
        DEF JoinReadGroup, Admits, dbVars, TypeOK
      <3>3. CASE Full
        <4>1. req'[w].op = "none"
          BY <1>1, <1>re, <1>st, <3>3 DEF JoinReadGroup
        <4>2. QED
          BY <3>2, <4>1
      <3>4. QED
        BY <2>1, <3>1, <3>2, <3>3
    <2>2. CASE AccessType = "private" /\ ~Full
      <3>1. count' = count /\ count < MaxMembers
        BY <1>1, <1>num, <2>2 DEF JoinReadGroup, Full, dbVars, TypeOK
      <3>2. /\ Cardinality(Admitted') <= Cardinality(Workers)
            /\ Cardinality(Admitted') \in Nat
        BY WorkersFinite DEF Admitted
      <3>3. QED
        BY <3>1, <3>2, <1>num DEF OvershootBounded, TypeOK
    <2>3. QED
      BY <2>1, <2>2
  <1>2. CASE InviteReadMembership(w)
    <2>1. Admits(req[w]) /\ count' = count
      BY <1>2 DEF InviteReadMembership, At, Admits, dbVars
    <2>2. QED
      BY <1>ty, <2>1, SlotAdmission, NoNewAdmission DEF TypeOK
  <1>3. CASE AddSelect(w)
    <2>1. Admits(req[w]) /\ count' = count
      BY <1>3 DEF AddSelect, At, Admits, dbVars
    <2>2. QED
      BY <1>ty, <2>1, SlotAdmission, NoNewAdmission DEF TypeOK
  <1>4. CASE AddCommit(w)
    <2>1. w \in Admitted
      BY <1>4 DEF AddCommit, At, Admits, Admitted
    <2>2. ~Admits(req'[w])
      BY <1>4, <1>go, <1>re, <1>st DEF AddCommit, Admits
    <2>3. Admitted' = Admitted \ {w}
      BY <1>ty, <2>1, <2>2 DEF SlotStep, Admitted, Admits
    <2>4. /\ Cardinality(Admitted') = Cardinality(Admitted) - 1
          /\ Cardinality(Admitted) \in Nat
      BY <2>1, <2>3, WorkersFinite, FS_RemoveElement DEF Admitted
    <2>5. count' \in {count, count + 1}
      BY <1>4 DEF AddCommit, dbVars
    <2>6. QED
      BY <2>4, <2>5, <1>num DEF OvershootBounded, TypeOK
  <1>5. CASE AddToMemberSet(w) \/ ClearUnread(w)
    <2>1. ~Admits(req'[w]) /\ count' = count
      BY <1>5, <1>re, <1>st DEF AddToMemberSet, ClearUnread, Admits, dbVars
    <2>2. QED
      BY <1>ty, <2>1, SlotAdmission, NoNewAdmission DEF TypeOK
  <1>6. CASE ReadGroup(w)
    <2>1. req'[w].step \in {"idle", "caller"} /\ count' = count
      BY <1>6, <1>go, <1>re, <1>st DEF ReadGroup, dbVars
    <2>2. QED
      BY <1>ty, <2>1, SlotAdmission, NoNewAdmission DEF TypeOK, Admits
  <1>7. CASE ReadCaller(w) \/ ReadTarget(w) \/ RemoveSelect(w)
    <2>1. /\ req[w] \in Request /\ req[w].op \notin {"join", "invite"}
          /\ role[req[w].user] \in Roles /\ role[req[w].target] \in Roles
          /\ rowId[req[w].target] \in Nat
      BY <1>7 DEF ReadCaller, ReadTarget, RemoveSelect, At, TypeOK, Request
    <2>2. /\ Keep(w, WithCaller(req[w], role[req[w].user])) => req'[w].op = req[w].op
          /\ Keep(w, WithTarget(req[w], role[req[w].target], rowId[req[w].target]))
              => req'[w].op = req[w].op
          /\ Keep(w, WithRow(req[w], rowId[req[w].target])) => req'[w].op = req[w].op
      <3>1. ASSUME Keep(w, WithCaller(req[w], role[req[w].user]))
            PROVE  req'[w].op = req[w].op
        <4>1. req'[w] = WithCaller(req[w], role[req[w].user])
          BY <3>1, <2>1, WithCallerType, KeepType
        <4>2. QED
          BY <4>1, <2>1, WithCallerFields
      <3>2. ASSUME Keep(w, WithTarget(req[w], role[req[w].target], rowId[req[w].target]))
            PROVE  req'[w].op = req[w].op
        <4>1. req'[w] = WithTarget(req[w], role[req[w].target], rowId[req[w].target])
          BY <3>2, <2>1, WithTargetType, KeepType
        <4>2. QED
          BY <4>1, <2>1, WithTargetFields
      <3>3. ASSUME Keep(w, WithRow(req[w], rowId[req[w].target]))
            PROVE  req'[w].op = req[w].op
        <4>1. req'[w] = WithRow(req[w], rowId[req[w].target])
          BY <3>3, <2>1, WithRowType, KeepType
        <4>2. QED
          BY <4>1, <2>1, WithRowFields
      <3>4. QED
        BY <3>1, <3>2, <3>3
    <2>3. req'[w].op \notin {"join", "invite"} /\ count' = count
      BY <1>7, <2>1, <2>2, <1>re, <1>st
      DEF ReadCaller, ReadTarget, RemoveSelect, dbVars
    <2>4. QED
      BY <1>ty, <2>3, SlotAdmission, NoNewAdmission DEF TypeOK, Admits
  <1>8. CASE SetRole(w) \/ DeleteGroup(w)
    <2>1. ~Admits(req'[w]) /\ count' = count
      BY <1>8, <1>re, <1>st DEF SetRole, DeleteGroup, Admits
    <2>2. QED
      BY <1>ty, <2>1, SlotAdmission, NoNewAdmission DEF TypeOK
  <1>9. CASE RemoveCommit(w)
    <2>1. ~Admits(req'[w])
      BY <1>9, <1>go, <1>st DEF RemoveCommit, Admits
    <2>2. count' <= count
      BY <1>9 DEF RemoveCommit, Decremented, TypeOK
    <2>3. QED
      BY <1>ty, <2>1, <2>2, SlotAdmission, NoNewAdmission
  <1>10. CASE RemoveFromMemberSet(w)
    <2>1. ~Admits(req'[w]) /\ count' = count
      BY <1>10, <1>go, <1>st DEF RemoveFromMemberSet, Admits, dbVars
    <2>2. QED
      BY <1>ty, <2>1, SlotAdmission, NoNewAdmission DEF TypeOK
  <1>11. QED
    BY <1>1, <1>2, <1>3, <1>4, <1>5, <1>6, <1>7, <1>8, <1>9, <1>10 DEF Step

LEMMA InitCapacity == Init => OvershootBounded
  <1> SUFFICES ASSUME Init PROVE OvershootBounded
    OBVIOUS
  <1>1. PICK w \in Workers :
            req = [v \in Workers |->
                      IF v = w
                      THEN NewRequest("create", "sadd", Owner, Owner, "member")
                      ELSE Idle(0)]
    BY DEF Init
  <1>2. Admitted = {}
    BY <1>1, IdleType DEF Admitted, Admits, NewRequest, Statuses
  <1>3. Cardinality(Admitted) = 0 /\ Cardinality(Workers) # 0
    BY <1>1, <1>2, FS_EmptySet, ConstantsAssumption
  <1>4. Cardinality(Workers) \in Nat /\ MaxMembers \in Nat \ {0}
    BY WorkersFinite, ConstantsAssumption
  <1>5. QED
    BY <1>3, <1>4 DEF Init, OvershootBounded

LEMMA NextCapacity == TypeOK /\ OvershootBounded /\ [Next]_vars => OvershootBounded'
  <1> SUFFICES ASSUME TypeOK, OvershootBounded, [Next]_vars PROVE OvershootBounded'
    OBVIOUS
  <1>1. ASSUME NEW w \in Workers, NEW op \in Ops, NEW u \in Users,
               NEW t \in Users, NEW a \in Grants \cup {"member"},
               Call(w, op, u, t, a)
        PROVE  OvershootBounded'
    <2>1. /\ SlotStep(w) /\ TypeOK' /\ count' = count
          /\ req'[w] = NewRequest(op, FirstStep(op), u, t, a)
      BY <1>1, CallType DEF dbVars
    <2>2. NewRequest(op, FirstStep(op), u, t, a).step = FirstStep(op)
          /\ NewRequest(op, FirstStep(op), u, t, a).op = op
      BY DEF NewRequest
    <2>3. ~Admits(req'[w])
      BY <2>1, <2>2 DEF FirstStep, Admits
    <2>4. QED
      BY <2>1, <2>3, SlotAdmission, NoNewAdmission DEF TypeOK
  <1>2. ASSUME NEW w \in Workers, Step(w)
        PROVE  OvershootBounded'
    BY <1>2, StepCapacity
  <1>3. ASSUME NEW w \in Workers, Abort(w)
        PROVE  OvershootBounded'
    <2>1. SlotStep(w) /\ ~Admits(req'[w])
      BY <1>3, ReplyType, IdleType DEF Abort, Statuses, Admits
    <2>2. TypeOK' /\ count' = count
      BY <1>3, <2>1, FrameType DEF Abort, SlotStep, dbVars
    <2>3. QED
      BY <2>1, <2>2, SlotAdmission, NoNewAdmission DEF TypeOK
  <1>4. CASE ExpireMemberSet \/ UNCHANGED vars
    BY <1>4 DEF ExpireMemberSet, vars, dbVars, OvershootBounded, Admitted, Admits
  <1>5. QED
    BY <1>1, <1>2, <1>3, <1>4 DEF Next

\* However many joins overlap, a private group's count and the requests that have
\* found room and not inserted yet overrun its capacity by less than the number of
\* requests that can be in flight.
THEOREM OvershootKept == Spec => []OvershootBounded
  BY TypeCorrect, InitCapacity, NextCapacity, PTL DEF Spec

-----------------------------------------------------------------------------
(* Messages: typing, and what they leave alone.                             *)

PostSteps == {"idle", "group", "caller", "insert", "reset", "smembers",
              "rebuild", "store", "incr"}

PostRecord ==
    [op : {"send", "read"}, step : PostSteps, user : Users,
     seen : SUBSET Users, owed : SUBSET (Users \X Nat)]

MsgTypeOK == TypeOK /\ post \in [Posts -> PostRecord]

\* Slot p may have moved; the types hold and the other slots are untouched.
PostSlotStep(p) ==
    /\ post' \in [Posts -> PostRecord]
    /\ \A v \in Posts \ {p} : post'[v] = post[v]

LEMMA NewPostType ==
    ASSUME NEW op \in {"send", "read"}, NEW s \in PostSteps, NEW u \in Users
    PROVE  NewPost(op, s, u) \in PostRecord
  BY DEF NewPost, PostRecord

LEMMA PostDoneType ==
    ASSUME MsgTypeOK, NEW p \in Posts, PostDone(p)
    PROVE  PostSlotStep(p) /\ post'[p] = NoPost /\ NoPost.step = "idle"
  <1>1. NoPost \in PostRecord /\ NoPost.step = "idle"
    BY NewPostType, ConstantsAssumption DEF NoPost, NewPost, PostSteps
  <1>2. post' = [post EXCEPT ![p] = NoPost]
    BY DEF PostDone
  <1>3. QED
    BY <1>1, <1>2 DEF MsgTypeOK, PostSlotStep

LEMMA PostGotoType ==
    ASSUME MsgTypeOK, NEW p \in Posts, NEW s \in PostSteps, PostGoto(p, s)
    PROVE  /\ PostSlotStep(p)
           /\ post'[p].step = s /\ post'[p].op = post[p].op
           /\ post'[p].user = post[p].user
           /\ post'[p].seen = post[p].seen /\ post'[p].owed = post[p].owed
  <1>1. post[p] \in PostRecord
    BY DEF MsgTypeOK
  <1>2. [post[p] EXCEPT !.step = s] \in PostRecord
    BY <1>1 DEF PostRecord
  <1>3. post' = [post EXCEPT ![p] = [post[p] EXCEPT !.step = s]]
    BY DEF PostGoto
  <1>4. post'[p] = [post[p] EXCEPT !.step = s]
    BY <1>3 DEF MsgTypeOK
  <1>5. PostSlotStep(p)
    BY <1>2, <1>3 DEF MsgTypeOK, PostSlotStep
  <1>6. QED
    BY <1>1, <1>4, <1>5 DEF PostRecord

LEMMA InsertType ==
    ASSUME MsgTypeOK, NEW p \in Posts, InsertMessage(p)
    PROVE  /\ PostSlotStep(p)
           /\ post'[p].step = "smembers" /\ post'[p].user = post[p].user
           /\ post'[p].owed = {<<u, rowId[u]>> : u \in Settled \ {post[p].user}}
  <1> DEFINE owed == {<<u, rowId[u]>> : u \in Settled \ {post[p].user}}
             rec == [post[p] EXCEPT !.step = "smembers", !.owed = owed]
  <1>1. post[p] \in PostRecord
    BY DEF MsgTypeOK
  <1>2. owed \in SUBSET (Users \X Nat)
    BY DEF MsgTypeOK, TypeOK, Settled, Members
  <1>3. post' = [post EXCEPT ![p] = rec]
    BY DEF InsertMessage
  <1> HIDE DEF owed
  <1>4. rec \in PostRecord
    BY <1>1, <1>2 DEF PostRecord, PostSteps
  <1>5. rec.step = "smembers" /\ rec.user = post[p].user /\ rec.owed = owed
    BY <1>1 DEF PostRecord
  <1> HIDE DEF rec
  <1>6. post'[p] = rec /\ PostSlotStep(p)
    BY <1>3, <1>4 DEF MsgTypeOK, PostSlotStep
  <1>7. QED
    BY <1>5, <1>6 DEF owed

\* The fan-out of slot p has read S.
Took(p, s, S) == post' = [post EXCEPT ![p].step = s, ![p].seen = S]

LEMMA SeenType ==
    ASSUME MsgTypeOK, NEW p \in Posts, NEW s \in PostSteps, NEW S \in SUBSET Users,
           Took(p, s, S)
    PROVE  /\ PostSlotStep(p)
           /\ post'[p].step = s /\ post'[p].user = post[p].user
           /\ post'[p].seen = S /\ post'[p].owed = post[p].owed
  <1> DEFINE rec == [post[p] EXCEPT !.step = s, !.seen = S]
  <1>1. post[p] \in PostRecord
    BY DEF MsgTypeOK
  <1>2. rec \in PostRecord
    BY <1>1 DEF PostRecord
  <1>3. /\ rec.step = s /\ rec.user = post[p].user
        /\ rec.seen = S /\ rec.owed = post[p].owed
    BY <1>1 DEF PostRecord
  <1>4. post' = [post EXCEPT ![p] = rec]
    BY DEF Took
  <1> HIDE DEF rec
  <1>5. post'[p] = rec /\ PostSlotStep(p)
    BY <1>2, <1>4 DEF MsgTypeOK, PostSlotStep
  <1>6. QED
    BY <1>3, <1>5

\* A step of a send or read request leaves the table and the membership
\* requests alone, and keeps the types.
LEMMA PostStepType ==
    ASSUME MsgTypeOK, NEW p \in Posts, PostStep(p)
    PROVE  /\ MsgTypeOK' /\ PostSlotStep(p)
           /\ UNCHANGED <<dbVars, req>>
  <1>st. /\ {"caller", "insert", "reset", "rebuild", "store", "incr"} \subseteq PostSteps
         /\ "smembers" \in PostSteps
    BY DEF PostSteps
  <1>ty. /\ post[p] \in PostRecord /\ post[p].seen \in SUBSET Users
         /\ post[p].user \in Users
         /\ cache \in SUBSET Users /\ Members \in SUBSET Users
         /\ \A u \in Users : unread[u] \in Nat
    BY DEF MsgTypeOK, TypeOK, PostRecord, Members
  <1>1. CASE PostReadGroup(p) \/ PostReadCaller(p)
    <2>1. PostSlotStep(p)
      BY <1>1, <1>st, PostDoneType, PostGotoType DEF PostReadGroup, PostReadCaller
    <2>2. UNCHANGED vars
      BY <1>1 DEF PostReadGroup, PostReadCaller
    <2>3. QED
      BY <2>1, <2>2 DEF vars, dbVars, MsgTypeOK, TypeOK, PostSlotStep
  <1>2. CASE InsertMessage(p)
    <2>1. PostSlotStep(p) /\ UNCHANGED vars
      BY <1>2, InsertType DEF InsertMessage
    <2>2. QED
      BY <2>1 DEF vars, dbVars, MsgTypeOK, TypeOK, PostSlotStep
  <1>3. CASE ReadMemberSet(p)
    <2>1. PostSlotStep(p)
      BY <1>3, <1>st, <1>ty, SeenType, PostGotoType DEF ReadMemberSet, Took
    <2>2. UNCHANGED vars
      BY <1>3 DEF ReadMemberSet
    <2>3. QED
      BY <2>1, <2>2 DEF vars, dbVars, MsgTypeOK, TypeOK, PostSlotStep
  <1>4. CASE SelectMembers(p)
    <2>1. PostSlotStep(p)
      BY <1>4, <1>st, <1>ty, SeenType DEF SelectMembers, Took
    <2>2. UNCHANGED vars
      BY <1>4 DEF SelectMembers
    <2>3. QED
      BY <2>1, <2>2 DEF vars, dbVars, MsgTypeOK, TypeOK, PostSlotStep
  <1>5. CASE StoreMembers(p)
    <2>1. PostSlotStep(p)
      BY <1>5, <1>st, PostGotoType DEF StoreMembers
    <2>2. UNCHANGED <<dbVars, unread, req>> /\ cache' \in SUBSET Users
      BY <1>5, <1>ty DEF StoreMembers
    <2>3. QED
      BY <2>1, <2>2 DEF dbVars, MsgTypeOK, TypeOK, PostSlotStep
  <1>6. CASE CountUnread(p)
    <2>1. PostSlotStep(p)
      BY <1>6, PostDoneType DEF CountUnread
    <2>2. UNCHANGED <<dbVars, cache, req>> /\ unread' \in [Users -> Nat]
      BY <1>6, <1>ty DEF CountUnread
    <2>3. QED
      BY <2>1, <2>2 DEF dbVars, MsgTypeOK, TypeOK, PostSlotStep
  <1>7. CASE ResetUnread(p)
    <2>1. PostSlotStep(p)
      BY <1>7, PostDoneType DEF ResetUnread
    <2>2. UNCHANGED <<dbVars, cache, req>> /\ unread' \in [Users -> Nat]
      BY <1>7, <1>ty DEF ResetUnread, MsgTypeOK, TypeOK
    <2>3. QED
      BY <2>1, <2>2 DEF dbVars, MsgTypeOK, TypeOK, PostSlotStep
  <1>8. QED
    BY <1>1, <1>2, <1>3, <1>4, <1>5, <1>6, <1>7 DEF PostStep

LEMMA PostCallType ==
    ASSUME MsgTypeOK, NEW p \in Posts, NEW op \in {"send", "read"}, NEW u \in Users,
           PostCall(p, op, u)
    PROVE  /\ MsgTypeOK' /\ PostSlotStep(p) /\ UNCHANGED vars
           /\ post'[p] = NewPost(op, "group", u)
  <1>1. NewPost(op, "group", u) \in PostRecord
    BY NewPostType DEF PostSteps
  <1>2. QED
    BY <1>1 DEF PostCall, MsgTypeOK, PostSlotStep, TypeOK, vars

LEMMA PostAbortType ==
    ASSUME MsgTypeOK, NEW p \in Posts, PostAbort(p)
    PROVE  /\ MsgTypeOK' /\ PostSlotStep(p) /\ UNCHANGED vars
           /\ post'[p] = NoPost /\ NoPost.step = "idle"
  BY PostDoneType DEF PostAbort, MsgTypeOK, PostSlotStep, TypeOK, vars

LEMMA ExpireUnreadType ==
    ASSUME MsgTypeOK, NEW u \in Users, ExpireUnread(u)
    PROVE  MsgTypeOK' /\ UNCHANGED <<dbVars, cache, req, post>>
  BY DEF ExpireUnread, MsgTypeOK, TypeOK, dbVars

\* Every step of the composition is a step of the membership endpoints, or
\* leaves the table and their requests alone.
LEMMA MsgStep ==
    ASSUME MsgTypeOK, [MsgNext]_msgVars
    PROVE  /\ MsgTypeOK'
           /\ \/ [Next]_vars /\ UNCHANGED post
              \/ UNCHANGED <<dbVars, req>>
  <1>1. CASE Next /\ UNCHANGED post
    BY <1>1, NextType DEF MsgTypeOK
  <1>2. ASSUME NEW p \in Posts, NEW op \in {"send", "read"}, NEW u \in Users,
               PostCall(p, op, u)
        PROVE  MsgTypeOK' /\ UNCHANGED <<dbVars, req>>
    BY <1>2, PostCallType DEF vars, dbVars
  <1>3. ASSUME NEW p \in Posts, PostStep(p)
        PROVE  MsgTypeOK' /\ UNCHANGED <<dbVars, req>>
    BY <1>3, PostStepType
  <1>4. ASSUME NEW p \in Posts, PostAbort(p)
        PROVE  MsgTypeOK' /\ UNCHANGED <<dbVars, req>>
    BY <1>4, PostAbortType DEF vars, dbVars
  <1>5. ASSUME NEW u \in Users, ExpireUnread(u)
        PROVE  MsgTypeOK' /\ UNCHANGED <<dbVars, req>>
    BY <1>5, ExpireUnreadType
  <1>6. CASE UNCHANGED msgVars
    BY <1>6 DEF msgVars, vars, dbVars, MsgTypeOK, TypeOK
  <1>7. QED
    BY <1>1, <1>2, <1>3, <1>4, <1>5, <1>6 DEF MsgNext

LEMMA MsgTypeInit == MsgInit => MsgTypeOK
  <1>1. NoPost \in PostRecord
    BY NewPostType, ConstantsAssumption DEF NoPost, PostSteps
  <1>2. QED
    BY <1>1, TypeInit DEF MsgInit, MsgTypeOK

\* Messages leave the membership table alone: the composition implements it, and
\* the capacity of a private group is overrun by no more with them.
THEOREM MessagesKeepTable == MsgSpec => TableSpec /\ []OvershootBounded
  <1> DEFINE Inv == MsgTypeOK /\ OwnerInv /\ OvershootBounded
  <1>1. MsgInit => Inv /\ Table!Init
    BY MsgTypeInit, InitTable, InitCapacity DEF MsgInit
  <1>2. Inv /\ [MsgNext]_msgVars => Inv' /\ [Table!Next]_<<role, count, deleted>>
    <2> SUFFICES ASSUME Inv, [MsgNext]_msgVars
                 PROVE  Inv' /\ [Table!Next]_<<role, count, deleted>>
      OBVIOUS
    <2>1. MsgTypeOK' /\ TypeOK /\ TypeOK'
      BY MsgStep DEF MsgTypeOK
    <2>2. CASE [Next]_vars
      BY <2>1, <2>2, NextTable, NextCapacity
    <2>3. CASE UNCHANGED <<dbVars, req>>
      BY <2>1, <2>3
      DEF dbVars, OwnerInv, OneOwner, CommitTarget, OvershootBounded, Admitted, Admits
    <2>4. QED
      BY <2>2, <2>3, MsgStep
  <1>3. Inv => OvershootBounded
    OBVIOUS
  <1> HIDE DEF Inv
  <1>4. QED
    BY <1>1, <1>2, <1>3, PTL DEF MsgSpec, TableSpec, Table!Spec, Table!tableVars

-----------------------------------------------------------------------------
(* Who is counted.                                                          *)

LEMMA GotoRest ==
    ASSUME TypeOK, NEW w \in Workers, NEW s \in Steps, Goto(w, s)
    PROVE  /\ req'[w].user = req[w].user /\ req'[w].arg = req[w].arg
           /\ req'[w].crole = req[w].crole /\ req'[w].trole = req[w].trole
           /\ req'[w].row = req[w].row
  <1>1. req'[w] = [req[w] EXCEPT !.step = s] /\ req[w] \in Request
    BY GotoType DEF TypeOK
  <1>2. QED
    BY <1>1 DEF Request

\* The three steps that load a row, in terms of what the request holds then.
LEMMA ReadCallerStep ==
    ASSUME TypeOK, NEW w \in Workers, ReadCaller(w)
    PROVE  \/ \E st \in Statuses : Reply(w, st)
           \/ req'[w] = WithCaller(req[w], role[req[w].user])
  <1>1. req[w] \in Request /\ role[req[w].user] \in Roles
    BY DEF TypeOK, Request
  <1>2. ASSUME Keep(w, WithCaller(req[w], role[req[w].user]))
        PROVE  req'[w] = WithCaller(req[w], role[req[w].user])
    BY <1>1, <1>2, WithCallerType, KeepType
  <1>3. QED
    BY <1>2 DEF ReadCaller, Statuses

LEMMA ReadTargetStep ==
    ASSUME TypeOK, NEW w \in Workers, ReadTarget(w)
    PROVE  \/ \E st \in Statuses : Reply(w, st)
           \/ /\ role[req[w].target] \notin {"none", "owner"}
              /\ role[req[w].target] = "admin" => req[w].crole = "owner"
              /\ req'[w] = WithTarget(req[w], role[req[w].target], rowId[req[w].target])
  <1>1. /\ req[w] \in Request /\ role[req[w].target] \in Roles
        /\ rowId[req[w].target] \in Nat
    BY DEF TypeOK, Request
  <1>2. ASSUME Keep(w, WithTarget(req[w], role[req[w].target], rowId[req[w].target]))
        PROVE  req'[w] = WithTarget(req[w], role[req[w].target], rowId[req[w].target])
    BY <1>1, <1>2, WithTargetType, KeepType
  <1>3. QED
    BY <1>2 DEF ReadTarget, Statuses

LEMMA RemoveSelectStep ==
    ASSUME TypeOK, NEW w \in Workers, RemoveSelect(w)
    PROVE  \/ \E st \in Statuses : Reply(w, st)
           \/ /\ role[req[w].target] \notin {"none", "owner"}
              /\ req'[w] = WithRow(req[w], rowId[req[w].target])
  <1>1. req[w] \in Request /\ rowId[req[w].target] \in Nat
    BY DEF TypeOK, Request
  <1>2. ASSUME Keep(w, WithRow(req[w], rowId[req[w].target]))
        PROVE  req'[w] = WithRow(req[w], rowId[req[w].target])
    BY <1>1, <1>2, WithRowType, KeepType
  <1>3. QED
    BY <1>2 DEF RemoveSelect, Statuses

\* The request in slot w inserts a row for its user.
Inserts(w) ==
    LET u == req[w].user IN
    /\ At(w, {"join", "invite"}, "commit")
    /\ role[u] = "none"
    /\ role' = [role EXCEPT ![u] = "member"]
    /\ rowId' = [rowId EXCEPT ![u] = @ + 1]
    /\ req'[w].step = "sadd" /\ req'[w].op = req[w].op
    /\ req'[w].user = u /\ req'[w].target = req[w].target
    /\ UNCHANGED <<cache, unread>>

\* Only an insert makes a row, or leads to a write of the member set; a row
\* may lose its role or go in the other steps.
LEMMA StepRows ==
    ASSUME TypeOK, NEW w \in Workers, Step(w)
    PROVE  \/ Inserts(w)
           \/ /\ rowId' = rowId
              /\ \A u \in Users : role'[u] # "none" => role[u] # "none"
              /\ req'[w].step # "sadd"
  <1>go. ASSUME NEW s \in Steps, Goto(w, s)
         PROVE  /\ req'[w].step = s /\ req'[w].op = req[w].op
                /\ req'[w].user = req[w].user /\ req'[w].target = req[w].target
    BY <1>go, GotoFields, GotoRest
  <1>re. ASSUME NEW st \in Statuses, Reply(w, st)
         PROVE  req'[w].step = "idle" /\ req'[w].op = "none"
    BY <1>re, ReplyType, IdleType
  <1>ty. req[w] \in Request /\ req[w].user \in Users /\ req[w].target \in Users
    BY DEF TypeOK, Request
  <1>st. /\ {0, 200, 400, 403, 404, 409, 500} = Statuses
         /\ {"existing", "select", "commit", "sadd", "srem", "clear", "caller",
             "target"} \subseteq Steps
    BY DEF Statuses, Steps
  <1>1. CASE AddCommit(w)
    <2>1. CASE UNCHANGED dbVars /\ Reply(w, 500)
      BY <2>1, <1>re, <1>st DEF dbVars
    <2>2. CASE /\ role[req[w].user] = "none"
               /\ role' = [role EXCEPT ![req[w].user] = "member"]
               /\ rowId' = [rowId EXCEPT ![req[w].user] = @ + 1]
               /\ Goto(w, "sadd")
      BY <1>1, <2>2, <1>go, <1>st DEF AddCommit, Inserts
    <2>3. QED
      BY <1>1, <2>1, <2>2 DEF AddCommit
  <1>2. CASE JoinReadGroup(w) \/ InviteReadMembership(w) \/ AddSelect(w)
    <2>1. req'[w].step # "sadd"
      BY <1>2, <1>go, <1>re, <1>st DEF JoinReadGroup, InviteReadMembership, AddSelect
    <2>2. UNCHANGED dbVars
      BY <1>2 DEF JoinReadGroup, InviteReadMembership, AddSelect
    <2>3. QED
      BY <2>1, <2>2 DEF dbVars
  <1>3. CASE AddToMemberSet(w) \/ ReadGroup(w) \/ RemoveFromMemberSet(w) \/ ClearUnread(w)
    <2>1. req'[w].step # "sadd"
      BY <1>3, <1>go, <1>re, <1>st
      DEF AddToMemberSet, ReadGroup, RemoveFromMemberSet, ClearUnread
    <2>2. UNCHANGED dbVars
      BY <1>3 DEF AddToMemberSet, ReadGroup, RemoveFromMemberSet, ClearUnread
    <2>3. QED
      BY <2>1, <2>2 DEF dbVars
  <1>4. CASE ReadCaller(w)
    <2>1. req'[w].step # "sadd"
      <3>1. role[req[w].user] \in Roles
        BY <1>ty DEF TypeOK
      <3>2. WithCaller(req[w], role[req[w].user]).step # "sadd"
        BY <1>ty, <3>1, WithCallerFields
      <3>3. QED
        BY <1>re, <1>4, <3>2, ReadCallerStep
    <2>2. QED
      BY <1>4, <2>1 DEF ReadCaller, dbVars
  <1>5. CASE ReadTarget(w)
    <2>1. WithTarget(req[w], role[req[w].target], rowId[req[w].target]).step # "sadd"
      BY <1>ty DEF WithTarget, Request
    <2>2. req'[w].step # "sadd"
      BY <1>re, <1>5, <2>1, ReadTargetStep
    <2>3. QED
      BY <1>5, <2>2 DEF ReadTarget, dbVars
  <1>6. CASE SetRole(w)
    <2>1. req'[w].step # "sadd"
      BY <1>6, <1>re, <1>st DEF SetRole
    <2>2. \A u \in Users : role'[u] # "none" => role[u] # "none"
      BY <1>6, <1>ty DEF SetRole, Live, TypeOK
    <2>3. QED
      BY <1>6, <2>1, <2>2 DEF SetRole
  <1>7. CASE DeleteGroup(w)
    BY <1>7, <1>re, <1>st DEF DeleteGroup
  <1>8. CASE RemoveSelect(w)
    <2>1. WithRow(req[w], rowId[req[w].target]).step # "sadd"
      BY <1>ty DEF WithRow, Request
    <2>2. req'[w].step # "sadd"
      BY <1>re, <1>8, <2>1, RemoveSelectStep
    <2>3. QED
      BY <1>8, <2>2 DEF RemoveSelect, dbVars
  <1>9. CASE RemoveCommit(w)
    <2>1. req'[w].step # "sadd"
      BY <1>9, <1>go, <1>st DEF RemoveCommit
    <2>2. \A u \in Users : role'[u] # "none" => role[u] # "none"
      BY <1>9, <1>ty DEF RemoveCommit, TypeOK
    <2>3. QED
      BY <1>9, <2>1, <2>2 DEF RemoveCommit
  <1>10. QED
    BY <1>1, <1>2, <1>3, <1>4, <1>5, <1>6, <1>7, <1>8, <1>9 DEF Step

\* What a membership request does to the member set and to the counters.
LEMMA StepRedis ==
    ASSUME TypeOK, NEW w \in Workers, Step(w)
    PROVE  /\ \/ cache' = cache /\ req[w].step # "sadd"
              \/ AddToMemberSet(w) /\ cache' = cache \cup {req[w].user}
              \/ RemoveFromMemberSet(w) /\ cache' = cache \ {req[w].target}
           /\ \A u \in Users : unread'[u] > 0 => unread[u] > 0
  <1>1. CASE AddToMemberSet(w)
    BY <1>1 DEF AddToMemberSet
  <1>2. CASE RemoveFromMemberSet(w)
    BY <1>2 DEF RemoveFromMemberSet
  <1>3. CASE ClearUnread(w)
    <2>1. req[w].step # "sadd" /\ cache' = cache
      BY <1>3 DEF ClearUnread, At
    <2>2. unread' = [unread EXCEPT ![req[w].target] = 0]
      BY <1>3 DEF ClearUnread
    <2>3. \A u \in Users : unread'[u] > 0 => unread[u] > 0
      BY <2>2 DEF TypeOK
    <2>4. QED
      BY <2>1, <2>3
  <1>4. CASE JoinReadGroup(w) \/ InviteReadMembership(w) \/ AddSelect(w) \/ AddCommit(w)
    BY <1>4 DEF JoinReadGroup, InviteReadMembership, AddSelect, AddCommit, At
  <1>5. CASE ReadGroup(w) \/ ReadCaller(w) \/ ReadTarget(w) \/ RemoveSelect(w)
    BY <1>5 DEF ReadGroup, ReadCaller, ReadTarget, RemoveSelect, At
  <1>6. CASE SetRole(w) \/ DeleteGroup(w) \/ RemoveCommit(w)
    BY <1>6 DEF SetRole, DeleteGroup, RemoveCommit, At
  <1>7. QED
    BY <1>1, <1>2, <1>3, <1>4, <1>5, <1>6 DEF Step

\* Those that have, or have had, a committed row (the owner's row has number 0).
PastUsers == {u \in Users : rowId[u] > 0 \/ u = Owner}

\* OnlyPastMembersCounted is inductive together with what is on its way into
\* the member set: the users of requests about to SADD, and the sets that a
\* fan-out has read.
CountedInv ==
    /\ MsgTypeOK
    /\ OnlyPastMembersCounted
    /\ \A u \in Users : role[u] # "none" => u \in PastUsers
    /\ \A w \in Workers : req[w].step = "sadd" => req[w].user \in PastUsers
    /\ \A p \in Posts : \A u \in post[p].seen : u \in PastUsers

\* Row numbers only grow.
LEMMA PastStays ==
    ASSUME TypeOK, [Next]_vars
    PROVE  \A u \in Users : u \in PastUsers => u \in PastUsers'
  <1>1. ASSUME NEW w \in Workers, Step(w)
        PROVE  \A u \in Users : u \in PastUsers => u \in PastUsers'
    <2>1. req[w].user \in Users
      BY DEF TypeOK, Request
    <2>2. rowId' = rowId \/ rowId' = [rowId EXCEPT ![req[w].user] = @ + 1]
      BY <1>1, StepRows DEF Inserts
    <2>3. \A u \in Users : /\ rowId[u] \in Nat /\ rowId'[u] \in Nat
                           /\ rowId'[u] >= rowId[u]
      BY <2>1, <2>2 DEF TypeOK
    <2>4. \A u \in Users : rowId[u] > 0 => rowId'[u] > 0
      BY <2>3
    <2>5. QED
      BY <2>4 DEF PastUsers
  <1>2. ASSUME NEW w \in Workers, NEW op \in Ops, NEW u \in Users,
               NEW t \in Users, NEW a \in Grants \cup {"member"}, Call(w, op, u, t, a)
        PROVE  rowId' = rowId
    BY <1>2 DEF Call, dbVars
  <1>3. ASSUME NEW w \in Workers, Abort(w)
        PROVE  rowId' = rowId
    BY <1>3 DEF Abort, dbVars
  <1>4. CASE ExpireMemberSet \/ UNCHANGED vars
    BY <1>4 DEF ExpireMemberSet, vars, dbVars, PastUsers
  <1>5. QED
    BY <1>1, <1>2, <1>3, <1>4 DEF Next, PastUsers

LEMMA NextCounted ==
    ASSUME CountedInv, [Next]_vars, UNCHANGED post
    PROVE  CountedInv'
  <1>ty. MsgTypeOK /\ TypeOK /\ MsgTypeOK' /\ TypeOK'
    BY NextType DEF CountedInv, MsgTypeOK
  <1>inv. /\ \A u \in Users : u \in cache \/ unread[u] > 0 => u \in PastUsers
          /\ \A u \in Users : role[u] # "none" => u \in PastUsers
          /\ \A w \in Workers : req[w].step = "sadd" => req[w].user \in PastUsers
          /\ \A p \in Posts : \A u \in post[p].seen : u \in Users /\ u \in PastUsers
    BY <1>ty DEF CountedInv, OnlyPastMembersCounted, PastUsers, MsgTypeOK, PostRecord
  <1>past. \A u \in Users : u \in PastUsers => u \in PastUsers'
    BY <1>ty, PastStays
  <1>seen. \A p \in Posts : \A u \in post'[p].seen : u \in PastUsers'
    BY <1>inv, <1>past
  <1>req. \A w \in Workers : req[w] \in Request /\ req[w].user \in Users
    BY <1>ty DEF TypeOK, Request
  <1>1. ASSUME NEW w \in Workers, Step(w)
        PROVE  CountedInv'
    <2>1. \A u \in Users : u \in cache' \/ unread'[u] > 0 => u \in PastUsers'
      BY <1>1, <1>ty, <1>inv, <1>past, <1>req, StepRedis DEF AddToMemberSet, At
    <2>2. Inserts(w) => req[w].user \in PastUsers'
      BY <1>ty, <1>req DEF Inserts, PastUsers, TypeOK
    <2>3. Inserts(w) => /\ req'[w].user = req[w].user
                        /\ \A u \in Users : role'[u] # "none" =>
                              role[u] # "none" \/ u = req[w].user
      BY <1>ty, <1>req DEF Inserts, TypeOK
    <2>4. \A u \in Users : role'[u] # "none" => u \in PastUsers'
      BY <1>1, <1>ty, <1>inv, <1>past, <2>2, <2>3, StepRows
    <2>5. req'[w].step = "sadd" => req'[w].user \in PastUsers'
      <3>1. req'[w].step = "sadd" => Inserts(w)
        BY <1>1, <1>ty, StepRows
      <3>2. QED
        BY <3>1, <2>2, <2>3 DEF PastUsers
    <2>6. \A v \in Workers : req'[v].step = "sadd" => req'[v].user \in PastUsers'
      <3>1. \A v \in Workers \ {w} : req'[v] = req[v]
        BY <1>1, <1>ty, StepType DEF SlotStep
      <3>2. ASSUME NEW v \in Workers, v # w, req'[v].step = "sadd"
            PROVE  req'[v].user \in PastUsers'
        <4>1. req'[v] = req[v] /\ req[v].user \in PastUsers'
          BY <3>1, <3>2, <1>inv, <1>past, <1>req
        <4>2. QED
          BY <4>1 DEF PastUsers
      <3>3. QED
        BY <2>5, <3>2
    <2>7. QED
      BY <1>ty, <1>seen, <2>1, <2>4, <2>6
      DEF CountedInv, OnlyPastMembersCounted, PastUsers
  <1>2. ASSUME NEW w \in Workers, UNCHANGED <<dbVars, cache, unread>>, SlotStep(w),
               req'[w].step # "sadd"
        PROVE  CountedInv'
    <2>1. \A v \in Workers : req'[v].step = "sadd" => req'[v] = req[v]
      BY <1>2 DEF SlotStep
    <2>2. \A v \in Workers : req'[v].step = "sadd" => req'[v].user \in PastUsers'
      BY <2>1, <1>2, <1>inv DEF PastUsers, dbVars
    <2>3. QED
      BY <1>2, <1>ty, <1>inv, <1>seen, <2>2
      DEF CountedInv, OnlyPastMembersCounted, PastUsers, dbVars
  <1>3. ASSUME NEW w \in Workers, NEW op \in Ops, NEW u \in Users,
               NEW t \in Users, NEW a \in Grants \cup {"member"}, Call(w, op, u, t, a)
        PROVE  CountedInv'
    <2>1. /\ UNCHANGED <<dbVars, cache, unread>> /\ SlotStep(w)
          /\ req'[w] = NewRequest(op, FirstStep(op), u, t, a)
      BY <1>3, <1>ty, CallType
    <2>2. req'[w].step # "sadd"
      BY <2>1 DEF NewRequest, FirstStep
    <2>3. QED
      BY <1>2, <2>1, <2>2
  <1>4. ASSUME NEW w \in Workers, Abort(w)
        PROVE  CountedInv'
    <2>1. SlotStep(w) /\ req'[w].step # "sadd"
      BY <1>ty, <1>4, ReplyType, IdleType DEF Abort, Statuses
    <2>2. QED
      BY <1>2, <1>4, <2>1 DEF Abort
  <1>5. CASE ExpireMemberSet
    BY <1>5, <1>ty, <1>inv DEF ExpireMemberSet, CountedInv, OnlyPastMembersCounted, PastUsers, dbVars
  <1>6. CASE UNCHANGED vars
    BY <1>6, <1>ty, <1>inv DEF vars, CountedInv, OnlyPastMembersCounted, PastUsers
  <1>7. QED
    BY <1>1, <1>3, <1>4, <1>5, <1>6 DEF Next

\* A request for messages brings nobody into the member set, the counters or
\* a set that was read but those already in one of them, and the members.
LEMMA PostStepRedis ==
    ASSUME MsgTypeOK, NEW p \in Posts, PostStep(p)
    PROVE  /\ \A u \in Users : u \in cache' => u \in cache \/ u \in post[p].seen
           /\ \A u \in Users : unread'[u] > 0 => unread[u] > 0 \/ u \in post[p].seen
           /\ \A u \in post'[p].seen :
                 u \in Users /\ (u \in post[p].seen \/ u \in cache \/ u \in Members)
  <1>st. /\ {"caller", "insert", "reset", "rebuild", "store", "incr"} \subseteq PostSteps
         /\ "smembers" \in PostSteps
    BY DEF PostSteps
  <1>ty. /\ post[p] \in PostRecord /\ post[p].seen \in SUBSET Users
         /\ cache \in SUBSET Users /\ Members \in SUBSET Users
         /\ NoPost.seen = {}
    BY DEF MsgTypeOK, TypeOK, PostRecord, Members, NoPost, NewPost
  <1>go. ASSUME NEW s \in PostSteps, PostGoto(p, s)
         PROVE  post'[p].seen = post[p].seen
    BY <1>go, PostGotoType
  <1>do. ASSUME PostDone(p) PROVE post'[p].seen = {}
    BY <1>do, <1>ty, PostDoneType
  <1>1. CASE PostReadGroup(p) \/ PostReadCaller(p)
    <2>1. UNCHANGED vars
      BY <1>1 DEF PostReadGroup, PostReadCaller
    <2>2. post'[p].seen \in {post[p].seen, {}}
      BY <1>1, <1>st, <1>go, <1>do DEF PostReadGroup, PostReadCaller
    <2>3. QED
      BY <1>ty, <2>1, <2>2 DEF vars
  <1>2. CASE InsertMessage(p)
    <2>1. post'[p].seen = post[p].seen
      <3>1. post'[p] = [post[p] EXCEPT !.step = "smembers",
                                       !.owed = {<<u, rowId[u]>> : u \in Settled \ {post[p].user}}]
        BY <1>2 DEF InsertMessage, MsgTypeOK
      <3>2. QED
        BY <3>1, <1>ty DEF PostRecord
    <2>2. UNCHANGED vars
      BY <1>2 DEF InsertMessage
    <2>3. QED
      BY <1>ty, <2>1, <2>2 DEF vars
  <1>3. CASE ReadMemberSet(p)
    <2>1. Took(p, "incr", cache) => post'[p].seen = cache
      BY <1>ty, <1>st, SeenType
    <2>2. post'[p].seen = cache \/ post'[p].seen = post[p].seen
      BY <1>3, <1>st, <1>go, <2>1 DEF ReadMemberSet, Took
    <2>3. UNCHANGED vars
      BY <1>3 DEF ReadMemberSet
    <2>4. QED
      BY <1>ty, <2>2, <2>3 DEF vars
  <1>4. CASE SelectMembers(p)
    <2>1. Took(p, "store", Members)
      BY <1>4 DEF SelectMembers, Took
    <2>3. post'[p].seen = Members
      BY <1>ty, <1>st, <2>1, SeenType
    <2>2. UNCHANGED vars
      BY <1>4 DEF SelectMembers
    <2>4. QED
      BY <1>ty, <2>2, <2>3 DEF vars
  <1>5. CASE StoreMembers(p)
    <2>1. post'[p].seen = post[p].seen
      BY <1>5, <1>st, <1>go DEF StoreMembers
    <2>2. QED
      BY <1>5, <1>ty, <2>1 DEF StoreMembers
  <1>6. CASE CountUnread(p)
    <2>1. post'[p].seen = {}
      BY <1>6, <1>do DEF CountUnread
    <2>2. \A u \in Users : unread'[u] > 0 => unread[u] > 0 \/ u \in post[p].seen
      BY <1>6 DEF CountUnread
    <2>3. QED
      BY <1>6, <2>1, <2>2 DEF CountUnread
  <1>7. CASE ResetUnread(p)
    <2>1. post'[p].seen = {}
      BY <1>7, <1>do DEF ResetUnread
    <2>2. \A u \in Users : unread'[u] > 0 => unread[u] > 0
      BY <1>7 DEF ResetUnread, MsgTypeOK, TypeOK
    <2>3. QED
      BY <1>7, <2>1, <2>2 DEF ResetUnread
  <1>8. QED
    BY <1>1, <1>2, <1>3, <1>4, <1>5, <1>6, <1>7 DEF PostStep

LEMMA MsgNextCounted == CountedInv /\ [MsgNext]_msgVars => CountedInv'
  <1> SUFFICES ASSUME CountedInv, [MsgNext]_msgVars PROVE CountedInv'
    OBVIOUS
  <1>ty. MsgTypeOK /\ TypeOK /\ MsgTypeOK' /\ TypeOK'
    BY MsgStep DEF CountedInv, MsgTypeOK
  <1>inv. /\ \A u \in Users : u \in cache \/ unread[u] > 0 => u \in PastUsers
          /\ \A u \in Users : role[u] # "none" => u \in PastUsers
          /\ \A w \in Workers : req[w].step = "sadd" => req[w].user \in PastUsers
          /\ \A p \in Posts : \A u \in post[p].seen : u \in Users /\ u \in PastUsers
    BY <1>ty DEF CountedInv, OnlyPastMembersCounted, PastUsers, MsgTypeOK, PostRecord
  <1>same. ASSUME UNCHANGED <<dbVars, req>>
           PROVE  /\ \A u \in Users : u \in PastUsers => u \in PastUsers'
                  /\ \A u \in Users : role'[u] # "none" => u \in PastUsers'
                  /\ \A w \in Workers : req'[w].step = "sadd" => req'[w].user \in PastUsers'
    BY <1>same, <1>inv DEF dbVars, PastUsers
  <1>1. CASE Next /\ UNCHANGED post
    BY <1>1, NextCounted
  <1>2. ASSUME NEW p \in Posts, PostStep(p)
        PROVE  CountedInv'
    <2>1. PostSlotStep(p) /\ UNCHANGED <<dbVars, req>>
      BY <1>2, <1>ty, PostStepType
    <2>2. OnlyPastMembersCounted'
      <3>1. \A u \in Users : u \in cache' \/ unread'[u] > 0 => u \in PastUsers'
        BY <1>2, <1>ty, <1>inv, <1>same, <2>1, PostStepRedis
      <3>2. QED
        BY <3>1 DEF OnlyPastMembersCounted, PastUsers
    <2>3. \A u \in post'[p].seen : u \in PastUsers'
      BY <1>2, <1>ty, <1>inv, <1>same, <2>1, PostStepRedis DEF Members
    <2>4. \A q \in Posts : \A u \in post'[q].seen : u \in PastUsers'
      BY <1>inv, <1>same, <2>1, <2>3 DEF PostSlotStep
    <2>5. QED
      BY <1>ty, <1>same, <2>1, <2>2, <2>4 DEF CountedInv, PastUsers
  <1>3. ASSUME NEW p \in Posts, PostSlotStep(p), post'[p].seen = {}, UNCHANGED vars
        PROVE  CountedInv'
    <2>1. \A q \in Posts : \A u \in post'[q].seen : u \in PastUsers'
      BY <1>3, <1>inv DEF PostSlotStep, vars, PastUsers
    <2>2. QED
      BY <1>3, <1>ty, <1>inv, <2>1 DEF vars, CountedInv, OnlyPastMembersCounted, PastUsers
  <1>4. ASSUME NEW p \in Posts, NEW op \in {"send", "read"}, NEW u \in Users,
               PostCall(p, op, u)
        PROVE  CountedInv'
    <2>1. PostSlotStep(p) /\ UNCHANGED vars /\ post'[p] = NewPost(op, "group", u)
      BY <1>4, <1>ty, PostCallType
    <2>2. post'[p].seen = {}
      BY <2>1 DEF NewPost
    <2>3. QED
      BY <1>3, <2>1, <2>2
  <1>5. ASSUME NEW p \in Posts, PostAbort(p)
        PROVE  CountedInv'
    BY <1>3, <1>5, <1>ty, PostAbortType DEF NoPost, NewPost
  <1>6. ASSUME NEW u \in Users, ExpireUnread(u)
        PROVE  CountedInv'
    <2>1. UNCHANGED <<dbVars, cache, req, post>>
      BY <1>6, <1>ty, ExpireUnreadType
    <2>2. \A v \in Users : unread'[v] > 0 => unread[v] > 0
      BY <1>6, <1>ty DEF ExpireUnread, TypeOK
    <2>3. QED
      BY <1>ty, <1>inv, <1>same, <2>1, <2>2 DEF CountedInv, OnlyPastMembersCounted, PastUsers, dbVars
  <1>7. CASE UNCHANGED msgVars
    BY <1>7, <1>ty, <1>inv DEF msgVars, vars, CountedInv, OnlyPastMembersCounted, PastUsers
  <1>8. QED
    BY <1>1, <1>2, <1>4, <1>5, <1>6, <1>7 DEF MsgNext

\* However requests die and keys expire, whoever is in the member set or has a
\* counter has had a row: Redis is written after the commit.
THEOREM OnlyPastMembers == MsgSpec => []OnlyPastMembersCounted
  <1>1. MsgInit => CountedInv
    <2> SUFFICES ASSUME MsgInit PROVE CountedInv
      OBVIOUS
    <2>1. PICK w \in Workers :
              req = [v \in Workers |->
                        IF v = w
                        THEN NewRequest("create", "sadd", Owner, Owner, "member")
                        ELSE Idle(0)]
      BY DEF MsgInit, Init
    <2>2. \A v \in Workers : req[v].step = "sadd" => req[v].user = Owner
      BY <2>1, IdleType DEF NewRequest, Statuses
    <2>3. \A p \in Posts : post[p].seen = {}
      BY DEF MsgInit, NoPost, NewPost
    <2>4. Owner \in PastUsers
      BY ConstantsAssumption DEF PastUsers
    <2>5. OnlyPastMembersCounted
      BY DEF MsgInit, Init, OnlyPastMembersCounted
    <2>6. \A u \in Users : role[u] # "none" => u = Owner
      BY DEF MsgInit, Init
    <2>7. QED
      BY <2>2, <2>3, <2>4, <2>5, <2>6, MsgTypeInit DEF CountedInv
  <1>2. CountedInv => OnlyPastMembersCounted
    BY DEF CountedInv
  <1>3. QED
    BY <1>1, <1>2, MsgNextCounted, PTL DEF MsgSpec

-----------------------------------------------------------------------------
(* Membership requests that do not overlap.                                 *)

OneAtATime == \A v, w \in Workers : v = w

LEMMA LoadFields ==
    ASSUME NEW q \in Request, NEW r \in Roles, NEW id \in Nat
    PROVE  /\ WithCaller(q, r).user = q.user /\ WithCaller(q, r).crole = r
           /\ WithTarget(q, r, id).user = q.user
           /\ WithTarget(q, r, id).crole = q.crole
           /\ WithTarget(q, r, id).trole = r
           /\ WithTarget(q, r, id).step = IF q.op = "kick" THEN "select" ELSE "commit"
           /\ WithRow(q, id).user = q.user /\ WithRow(q, id).crole = q.crole
           /\ WithRow(q, id).trole = q.trole /\ WithRow(q, id).row = id
           /\ WithRow(q, id).step = "commit"
  BY DEF WithCaller, WithTarget, WithRow, Request

\* While no other request runs, what the request in slot w has read of the two
\* roles is what the table holds, up to its commit.
SerialSlot(w) ==
    LET q == req[w] IN
    /\ q.crole = "owner" => q.user = Owner
    /\ q.op \in {"role", "kick"} /\ q.step \in {"select", "commit"} =>
          /\ role[q.target] = q.trole
          /\ q.trole = "admin" => q.crole = "owner"
    /\ q.op \in {"leave", "kick"} /\ q.step = "commit" => Live(w)
    /\ q.op \in {"leave", "kick"} /\ q.step \in {"srem", "clear"} =>
          role[q.target] = "none"
    /\ q.op \in {"create", "join", "invite"} => q.target = q.user

SerialInv == \A w \in Workers : SerialSlot(w)

LEMMA StepSerial ==
    ASSUME OwnerInv, SerialInv, NEW w \in Workers, Step(w)
    PROVE  SerialSlot(w)'
  <1>ty. /\ TypeOK /\ req[w] \in Request
         /\ req[w].user \in Users /\ req[w].target \in Users
         /\ role[req[w].user] \in Roles /\ role[req[w].target] \in Roles
         /\ rowId[req[w].target] \in Nat
    BY DEF OwnerInv, TypeOK, Request
  <1>own. role[req[w].user] = "owner" <=> req[w].user = Owner
    BY <1>ty DEF OwnerInv, OneOwner
  <1>ser. SerialSlot(w)
    BY DEF SerialInv
  <1>go. ASSUME NEW s \in Steps, Goto(w, s)
         PROVE  /\ req'[w].step = s /\ req'[w].op = req[w].op
                /\ req'[w].user = req[w].user /\ req'[w].target = req[w].target
                /\ req'[w].crole = req[w].crole /\ req'[w].trole = req[w].trole
                /\ req'[w].row = req[w].row
    BY <1>go, <1>ty, GotoFields, GotoRest
  <1>re. ASSUME NEW st \in Statuses, Reply(w, st)
         PROVE  SerialSlot(w)'
    <2>1. req'[w] = Idle(st)
      BY <1>re, <1>ty, ReplyType
    <2>2. Idle(st).op = "none" /\ Idle(st).crole = "none"
      BY DEF Idle, NewRequest
    <2>3. QED
      BY <2>1, <2>2 DEF SerialSlot
  <1>st. /\ {0, 200, 400, 403, 404, 409, 500} = Statuses
         /\ {"existing", "select", "commit", "sadd", "srem", "clear", "caller",
             "target"} \subseteq Steps
    BY DEF Statuses, Steps
  \* A request to join, or one that has yet to read a role.
  <1>mv. ASSUME NEW s \in Steps, Goto(w, s),
                req[w].op \in {"join", "invite", "create"} \/ s = "caller"
         PROVE  SerialSlot(w)'
    <2>1. /\ req'[w].step = s /\ req'[w].op = req[w].op
          /\ req'[w].user = req[w].user /\ req'[w].target = req[w].target
          /\ req'[w].crole = req[w].crole
      BY <1>mv, <1>go
    <2>2. QED
      BY <1>mv, <1>ser, <2>1 DEF SerialSlot
  <1>1. CASE JoinReadGroup(w) \/ InviteReadMembership(w) \/ AddSelect(w)
    BY <1>1, <1>mv, <1>re, <1>st
    DEF JoinReadGroup, InviteReadMembership, AddSelect, At
  <1>2. CASE AddCommit(w)
    BY <1>2, <1>mv, <1>re, <1>st DEF AddCommit, At
  <1>3. CASE ReadGroup(w)
    BY <1>3, <1>mv, <1>re, <1>st DEF ReadGroup
  <1>4. CASE AddToMemberSet(w) \/ SetRole(w) \/ DeleteGroup(w) \/ ClearUnread(w)
    BY <1>4, <1>re, <1>st DEF AddToMemberSet, SetRole, DeleteGroup, ClearUnread
  <1>5. CASE ReadCaller(w)
    <2>1. ASSUME req'[w] = WithCaller(req[w], role[req[w].user])
          PROVE  SerialSlot(w)'
      <3>1. /\ req[w].op \in {"kick", "role", "delete"}
            /\ req'[w].op = req[w].op /\ req'[w].user = req[w].user
            /\ req'[w].step = IF req[w].op = "delete" THEN "commit" ELSE "target"
            /\ req'[w].crole = role[req[w].user]
        BY <1>5, <1>ty, <2>1, WithCallerFields, LoadFields DEF ReadCaller, At
      <3>2. QED
        BY <1>own, <3>1 DEF SerialSlot
    <2>2. QED
      BY <1>5, <1>ty, <1>re, <2>1, ReadCallerStep
  <1>6. CASE ReadTarget(w)
    <2>1. ASSUME role[req[w].target] = "admin" => req[w].crole = "owner",
                 req'[w] = WithTarget(req[w], role[req[w].target], rowId[req[w].target])
          PROVE  SerialSlot(w)'
      <3>1. /\ req[w].op \in {"kick", "role"} /\ role' = role
            /\ req'[w].op = req[w].op /\ req'[w].user = req[w].user
            /\ req'[w].target = req[w].target
            /\ req'[w].step = IF req[w].op = "kick" THEN "select" ELSE "commit"
            /\ req'[w].crole = req[w].crole
            /\ req'[w].trole = role[req[w].target]
        BY <1>6, <1>ty, <2>1, WithTargetFields, LoadFields DEF ReadTarget, At, dbVars
      <3>2. QED
        BY <1>ser, <2>1, <3>1 DEF SerialSlot
    <2>2. QED
      BY <1>6, <1>ty, <1>re, <2>1, ReadTargetStep
  <1>7. CASE RemoveSelect(w)
    <2>1. ASSUME role[req[w].target] # "none",
                 req'[w] = WithRow(req[w], rowId[req[w].target])
          PROVE  SerialSlot(w)'
      <3>1. /\ req[w].op \in {"leave", "kick"} /\ req[w].step = "select"
            /\ UNCHANGED <<role, rowId>>
            /\ req'[w].op = req[w].op /\ req'[w].user = req[w].user
            /\ req'[w].target = req[w].target /\ req'[w].step = "commit"
            /\ req'[w].crole = req[w].crole /\ req'[w].trole = req[w].trole
            /\ req'[w].row = rowId[req[w].target]
        BY <1>7, <1>ty, <2>1, WithRowFields, LoadFields DEF RemoveSelect, At, dbVars
      <3>2. QED
        BY <1>ser, <2>1, <3>1 DEF SerialSlot, Live
    <2>2. QED
      BY <1>7, <1>ty, <1>re, <2>1, RemoveSelectStep
  <1>8. CASE RemoveCommit(w)
    <2>1. /\ req[w].op \in {"leave", "kick"} /\ Live(w)
          /\ role' = [role EXCEPT ![req[w].target] = "none"]
      BY <1>8, <1>ser DEF RemoveCommit, At, SerialSlot
    <2>2. /\ req'[w].step = "srem" /\ req'[w].op = req[w].op
          /\ req'[w].user = req[w].user /\ req'[w].target = req[w].target
          /\ req'[w].crole = req[w].crole
      BY <1>8, <1>go, <1>st DEF RemoveCommit
    <2>3. role'[req[w].target] = "none"
      BY <1>ty, <2>1 DEF TypeOK
    <2>4. QED
      BY <1>ser, <2>1, <2>2, <2>3 DEF SerialSlot
  <1>9. CASE RemoveFromMemberSet(w)
    <2>1. /\ req[w].op \in {"leave", "kick"} /\ req[w].step = "srem" /\ role' = role
      BY <1>9 DEF RemoveFromMemberSet, At, dbVars
    <2>2. /\ req'[w].step = "clear" /\ req'[w].op = req[w].op
          /\ req'[w].user = req[w].user /\ req'[w].target = req[w].target
          /\ req'[w].crole = req[w].crole
      BY <1>9, <1>go, <1>st DEF RemoveFromMemberSet
    <2>3. QED
      BY <1>ser, <2>1, <2>2 DEF SerialSlot
  <1>10. QED
    BY <1>1, <1>2, <1>3, <1>4, <1>5, <1>6, <1>7, <1>8, <1>9 DEF Step

LEMMA NextSerial ==
    ASSUME OneAtATime, OwnerInv, SerialInv, [Next]_vars
    PROVE  SerialInv'
  <1>ty. TypeOK
    BY DEF OwnerInv
  <1>one. ASSUME NEW w \in Workers, SerialSlot(w)'
          PROVE  SerialInv'
    BY <1>one DEF OneAtATime, SerialInv
  <1>1. ASSUME NEW w \in Workers, Step(w)
        PROVE  SerialInv'
    BY <1>1, <1>one, StepSerial
  <1>2. ASSUME NEW w \in Workers, NEW op \in Ops, NEW u \in Users,
               NEW t \in Users, NEW a \in Grants \cup {"member"}, Call(w, op, u, t, a)
        PROVE  SerialInv'
    <2>1. req'[w] = NewRequest(op, FirstStep(op), u, t, a)
      BY <1>2, <1>ty, CallType
    <2>2. /\ req'[w].op = op /\ req'[w].step = FirstStep(op)
          /\ req'[w].user = u /\ req'[w].target = t /\ req'[w].crole = "none"
      BY <2>1 DEF NewRequest
    <2>3. /\ op \in {"join", "invite"} => t = u
          /\ op # "create"
      BY <1>2, ConstantsAssumption DEF Call, Endpoints
    <2>4. SerialSlot(w)'
      BY <2>2, <2>3 DEF SerialSlot, FirstStep
    <2>5. QED
      BY <1>one, <2>4
  <1>3. ASSUME NEW w \in Workers, Abort(w)
        PROVE  SerialInv'
    <2>1. req'[w] = Idle(0)
      BY <1>3, <1>ty, ReplyType DEF Abort, Statuses
    <2>2. req'[w].op = "none" /\ req'[w].crole = "none"
      BY <2>1 DEF Idle, NewRequest
    <2>3. SerialSlot(w)'
      BY <2>2 DEF SerialSlot
    <2>4. QED
      BY <1>one, <2>3
  <1>4. CASE ExpireMemberSet \/ UNCHANGED vars
    BY <1>4 DEF ExpireMemberSet, vars, dbVars, SerialInv, SerialSlot, Live
  <1>5. QED
    BY <1>1, <1>2, <1>3, <1>4 DEF Next

LEMMA InitSerial ==
    ASSUME Init
    PROVE  SerialInv
  <1>1. PICK w \in Workers :
            req = [v \in Workers |->
                      IF v = w
                      THEN NewRequest("create", "sadd", Owner, Owner, "member")
                      ELSE Idle(0)]
    BY DEF Init
  <1>2. ASSUME NEW v \in Workers
        PROVE  /\ req[v].crole = "none"
               /\ \/ req[v].op = "none"
                  \/ req[v].op = "create" /\ req[v].target = req[v].user
    BY <1>1 DEF NewRequest, Idle
  <1>3. QED
    BY <1>2 DEF SerialInv, SerialSlot

\* An admin's row that is written or deleted is that of the request at commit.
LEMMA AdminWritten ==
    ASSUME OwnerInv, SerialInv, NEW w \in Workers, Step(w),
           NEW u \in Users, role[u] = "admin", role'[u] # "admin"
    PROVE  req[w].target = u /\ (req[w].op = "leave" \/ req[w].user = Owner)
  <1>ty. /\ TypeOK /\ req[w] \in Request
         /\ req[w].user \in Users /\ req[w].target \in Users
    BY DEF OwnerInv, TypeOK, Request
  <1>ser. SerialSlot(w)
    BY DEF SerialInv
  <1>1. CASE AddCommit(w)
    BY <1>1, <1>ty DEF AddCommit, dbVars, TypeOK
  <1>2. CASE SetRole(w)
    <2>1. req[w].target = u
      BY <1>2, <1>ty DEF SetRole, TypeOK
    <2>2. QED
      BY <1>2, <1>ser, <2>1 DEF SetRole, At, SerialSlot
  <1>3. CASE RemoveCommit(w)
    <2>1. req[w].target = u
      BY <1>3, <1>ty DEF RemoveCommit, TypeOK
    <2>2. QED
      BY <1>3, <1>ser, <2>1 DEF RemoveCommit, At, SerialSlot
  <1>4. CASE role' = role
    BY <1>4
  <1>5. QED
    BY <1>1, <1>2, <1>3, <1>4
    DEF Step, JoinReadGroup, InviteReadMembership, AddSelect, AddToMemberSet,
        ReadGroup, ReadCaller, ReadTarget, DeleteGroup, RemoveSelect,
        RemoveFromMemberSet, ClearUnread, dbVars

\* The membership invariants hold with messages going on, too.
LEMMA MsgNextSerial ==
    ASSUME OneAtATime, MsgTypeOK, OwnerInv, SerialInv, [MsgNext]_msgVars
    PROVE  MsgTypeOK' /\ OwnerInv' /\ SerialInv'
  <1>ty. MsgTypeOK' /\ TypeOK'
    BY MsgStep DEF MsgTypeOK
  <1>1. CASE [Next]_vars
    BY <1>1, <1>ty, NextTable, NextSerial
  <1>2. CASE UNCHANGED <<dbVars, req>>
    BY <1>2, <1>ty
    DEF dbVars, OwnerInv, OneOwner, CommitTarget, SerialInv, SerialSlot, Live
  <1>3. QED
    BY <1>1, <1>2, MsgStep

\* While membership requests do not overlap, an admin's row is changed or removed
\* only by the admin leaving or by the owner, whatever requests die or keys expire:
\* update_member_role and kick_member check both roles first.
THEOREM AdminKept ==
    ASSUME OneAtATime
    PROVE  MsgSpec => AdminOnlyByOwner
  <1> DEFINE Inv == MsgTypeOK /\ OwnerInv /\ SerialInv
  <1>1. MsgInit => Inv
    BY MsgTypeInit, InitTable, InitSerial DEF MsgInit
  <1>2. Inv /\ [MsgNext]_msgVars => Inv'
    BY MsgNextSerial
  <1>3. Inv /\ [MsgNext]_msgVars =>
            [\A u \in Users : role[u] = "admin" /\ role'[u] # "admin" =>
                \E w \in Workers :
                    /\ req[w].target = u
                    /\ req[w].op = "leave" \/ req[w].user = Owner]_vars
    <2> SUFFICES ASSUME Inv, [MsgNext]_msgVars,
                        NEW u \in Users, role[u] = "admin", role'[u] # "admin"
                 PROVE  \E w \in Workers :
                            /\ req[w].target = u
                            /\ req[w].op = "leave" \/ req[w].user = Owner
      OBVIOUS
    <2>1. [Next]_vars
      BY MsgStep DEF dbVars
    <2>2. PICK w \in Workers : Step(w)
      BY <2>1 DEF Next, Call, Abort, ExpireMemberSet, vars, dbVars
    <2>3. QED
      BY <2>2, AdminWritten
  <1> HIDE DEF Inv
  <1>4. QED
    BY <1>1, <1>2, <1>3, PTL DEF MsgSpec, AdminOnlyByOwner

-----------------------------------------------------------------------------
(* The member set, and the fan-out of a message.                            *)

NoLoss == "expire" \notin Faults /\ "abort" \notin Faults

LEMMA StepComplete ==
    ASSUME OneAtATime, OwnerInv, SerialInv, MemberSetComplete,
           NEW w \in Workers, Step(w)
    PROVE  MemberSetComplete'
  <1>ty. /\ TypeOK /\ req[w].user \in Users /\ req[w].target \in Users
    BY DEF OwnerInv, TypeOK, Request
  <1>ser. SerialSlot(w)
    BY DEF SerialInv
  <1>out. \A u \in Users : role[u] # "none" /\ u \notin cache =>
              req[w].target = u /\ req[w].step = "sadd"
    BY DEF MemberSetComplete, OneAtATime, Members
  <1> SUFFICES ASSUME NEW u \in Users, role'[u] # "none", u \notin cache'
               PROVE  req'[w].target = u /\ req'[w].step = "sadd"
    BY DEF MemberSetComplete, Members
  <1>1. CASE Inserts(w)
    <2>1. /\ req[w].step = "commit" /\ u \notin cache
          /\ req[w].target = req[w].user
          /\ req'[w].target = req[w].target /\ req'[w].step = "sadd"
      BY <1>1, <1>ser DEF Inserts, At, SerialSlot
    <2>2. role[u] = "none"
      BY <2>1, <1>out
    <2>3. role' = [role EXCEPT ![req[w].user] = "member"]
      BY <1>1 DEF Inserts
    <2>4. u = req[w].user
      BY <1>ty, <2>2, <2>3 DEF TypeOK
    <2>5. QED
      BY <2>1, <2>4
  <1>2. CASE ~Inserts(w)
    <2>1. role[u] # "none"
      BY <1>2, <1>ty, StepRows
    <2>2. CASE cache' = cache /\ req[w].step # "sadd"
      BY <1>out, <2>1, <2>2
    <2>3. CASE AddToMemberSet(w) /\ cache' = cache \cup {req[w].user}
      <3>1. req[w].target = req[w].user
        BY <1>ser, <2>3 DEF AddToMemberSet, At, SerialSlot
      <3>2. QED
        BY <1>out, <2>1, <2>3, <3>1
    <2>4. CASE RemoveFromMemberSet(w) /\ cache' = cache \ {req[w].target}
      <3>1. req[w].step # "sadd" /\ role[req[w].target] = "none"
        BY <1>ser, <2>4 DEF RemoveFromMemberSet, At, SerialSlot
      <3>2. QED
        BY <1>out, <2>1, <2>4, <3>1
    <2>5. QED
      BY <1>ty, <2>2, <2>3, <2>4, StepRedis
  <1>3. QED
    BY <1>1, <1>2

LEMMA NextComplete ==
    ASSUME OneAtATime, NoLoss, OwnerInv, SerialInv, MemberSetComplete, [Next]_vars
    PROVE  MemberSetComplete'
  <1>1. ASSUME NEW w \in Workers, Step(w)
        PROVE  MemberSetComplete'
    BY <1>1, StepComplete
  <1>2. ASSUME NEW w \in Workers, NEW op \in Ops, NEW u \in Users,
               NEW t \in Users, NEW a \in Grants \cup {"member"}, Call(w, op, u, t, a)
        PROVE  MemberSetComplete'
    <2>1. req[w].step = "idle" /\ role' = role /\ cache' = cache
      BY <1>2 DEF Call, dbVars
    <2>2. Members \subseteq cache
      BY <2>1 DEF MemberSetComplete, OneAtATime
    <2>3. QED
      BY <2>1, <2>2 DEF MemberSetComplete, Members
  <1>3. CASE UNCHANGED vars
    BY <1>3 DEF vars, MemberSetComplete, Members
  <1>4. QED
    BY <1>1, <1>2, <1>3 DEF Next, NoLoss, Abort, ExpireMemberSet

\* Nobody leaves the member set through a request for messages.
LEMMA PostStepKeepsSet ==
    ASSUME NEW p \in Posts, PostStep(p)
    PROVE  cache \subseteq cache'
  BY DEF PostStep, PostReadGroup, PostReadCaller, InsertMessage, ReadMemberSet,
         SelectMembers, StoreMembers, CountUnread, ResetUnread, vars

LEMMA MsgComplete ==
    ASSUME OneAtATime, NoLoss, MsgTypeOK, OwnerInv, SerialInv, MemberSetComplete,
           [MsgNext]_msgVars
    PROVE  MemberSetComplete'
  <1>1. CASE [Next]_vars
    BY <1>1, NextComplete
  <1>2. CASE UNCHANGED <<dbVars, req>> /\ cache \subseteq cache'
    BY <1>2 DEF dbVars, MemberSetComplete, Members
  <1>3. ASSUME NEW p \in Posts, PostStep(p)
        PROVE  MemberSetComplete'
    BY <1>2, <1>3, PostStepType, PostStepKeepsSet
  <1>4. ASSUME NEW p \in Posts, PostAbort(p)
        PROVE  MemberSetComplete'
    BY <1>1, <1>4 DEF PostAbort
  <1>5. ASSUME NEW p \in Posts, NEW op \in {"send", "read"}, NEW u \in Users,
               PostCall(p, op, u)
        PROVE  MemberSetComplete'
    BY <1>1, <1>5 DEF PostCall
  <1>6. ASSUME NEW u \in Users, ExpireUnread(u)
        PROVE  MemberSetComplete'
    BY <1>6 DEF ExpireUnread, NoLoss
  <1>7. CASE UNCHANGED msgVars
    BY <1>1, <1>7 DEF msgVars
  <1>8. QED
    BY <1>1, <1>3, <1>4, <1>5, <1>6, <1>7 DEF MsgNext

\* The rows the message of slot p is owed to that are still there.
Due(p) == {u \in Members : <<u, rowId[u]>> \in post[p].owed}

\* What has been read of the member set covers the rows that the message is
\* owed to and that still exist: a row that replaces one has a higher number.
FanSlot(p) ==
    /\ \A u \in Users, id \in Nat :
          <<u, id>> \in post[p].owed => id <= rowId[u] /\ u # post[p].user
    /\ post[p].step = "smembers" => Due(p) \subseteq cache
    /\ post[p].step \in {"store", "incr"} => Due(p) \subseteq post[p].seen

FanInv == \A p \in Posts : FanSlot(p)

\* A membership request makes nothing more due, and takes nobody out of the
\* member set to whom a message is due.
LEMMA StepDue ==
    ASSUME OwnerInv, SerialInv, NEW p \in Posts, FanSlot(p), post' = post,
           NEW w \in Workers, Step(w)
    PROVE  FanSlot(p)'
  <1>ty. /\ TypeOK /\ req[w].user \in Users /\ req[w].target \in Users
         /\ \A u \in Users : rowId[u] \in Nat
    BY DEF OwnerInv, TypeOK, Request
  <1>ser. SerialSlot(w)
    BY DEF SerialInv
  <1>1. \A u \in Users : rowId'[u] \in Nat /\ rowId[u] <= rowId'[u]
    BY <1>ty, StepRows DEF Inserts, TypeOK
  <1>2. \A u \in Users, id \in Nat :
            <<u, id>> \in post[p].owed => id <= rowId'[u] /\ u # post[p].user
    BY <1>ty, <1>1 DEF FanSlot
  <1>3. ASSUME NEW u \in Users, role'[u] # "none", <<u, rowId'[u]>> \in post[p].owed
        PROVE  u \in Due(p)
    <2>1. rowId'[u] <= rowId[u]
      BY <1>1, <1>3 DEF FanSlot
    <2>2. rowId'[u] = rowId[u]
      BY <1>1, <1>ty, <2>1
    <2>3. role[u] # "none"
      <3>1. CASE Inserts(w)
        <4>1. /\ role' = [role EXCEPT ![req[w].user] = "member"]
              /\ rowId' = [rowId EXCEPT ![req[w].user] = @ + 1]
          BY <3>1 DEF Inserts
        <4>2. u # req[w].user
          BY <1>ty, <2>2, <4>1 DEF TypeOK
        <4>3. QED
          BY <1>3, <1>ty, <4>1, <4>2 DEF TypeOK
      <3>2. QED
        BY <1>3, <1>ty, <3>1, StepRows
    <2>4. QED
      BY <1>3, <2>2, <2>3 DEF Due, Members
  <1>4. Due(p)' \subseteq Due(p)
    BY <1>3 DEF Due, Members
  <1>5. Due(p)' \cap cache \subseteq cache'
    <2>1. CASE RemoveFromMemberSet(w) /\ cache' = cache \ {req[w].target}
      <3>1. role'[req[w].target] = "none"
        BY <1>ser, <2>1 DEF RemoveFromMemberSet, At, SerialSlot, dbVars
      <3>2. QED
        BY <2>1, <3>1 DEF Due, Members
    <2>2. QED
      BY <1>ty, <2>1, StepRedis
  <1>6. QED
    BY <1>2, <1>4, <1>5 DEF FanSlot

\* The slot of a post that has moved.
LEMMA PostDue ==
    ASSUME MsgTypeOK, MemberSetComplete, NEW p \in Posts, FanSlot(p), PostStep(p)
    PROVE  FanSlot(p)'
  <1>st. /\ {"caller", "insert", "reset", "rebuild", "store", "incr"} \subseteq PostSteps
         /\ "smembers" \in PostSteps
    BY DEF PostSteps
  <1>ty. /\ cache \in SUBSET Users /\ Members \in SUBSET Users
         /\ \A u \in Users : rowId[u] \in Nat
         /\ NoPost.owed = {} /\ NoPost.step = "idle"
    BY DEF MsgTypeOK, TypeOK, Members, NoPost, NewPost
  <1>db. UNCHANGED dbVars /\ Members' = Members /\ rowId' = rowId
    BY PostStepType DEF dbVars, Members
  <1>do. ASSUME PostDone(p) PROVE FanSlot(p)'
    <2>1. post'[p].owed = {} /\ post'[p].step = "idle"
      BY <1>do, <1>ty, PostDoneType
    <2>2. QED
      BY <2>1 DEF FanSlot
  <1>go. ASSUME NEW s \in PostSteps, PostGoto(p, s), s \notin {"smembers", "store", "incr"}
         PROVE  FanSlot(p)'
    <2>1. /\ post'[p].step = s /\ post'[p].user = post[p].user
          /\ post'[p].owed = post[p].owed
      BY <1>go, PostGotoType
    <2>2. QED
      BY <1>db, <1>go, <2>1 DEF FanSlot
  <1>se. ASSUME NEW s \in {"store", "incr"}, NEW S \in SUBSET Users, Took(p, s, S),
                Due(p) \subseteq S
         PROVE  FanSlot(p)'
    <2>1. /\ post'[p].step = s /\ post'[p].user = post[p].user
          /\ post'[p].seen = S /\ post'[p].owed = post[p].owed
      BY <1>se, <1>st, SeenType
    <2>2. Due(p)' = Due(p)
      BY <1>db, <2>1 DEF Due
    <2>3. QED
      BY <1>db, <1>se, <2>1, <2>2 DEF FanSlot
  <1>1. CASE PostReadGroup(p) \/ PostReadCaller(p)
    BY <1>1, <1>st, <1>do, <1>go DEF PostReadGroup, PostReadCaller
  <1>2. CASE InsertMessage(p)
    <2>1. /\ post'[p].step = "smembers" /\ post'[p].user = post[p].user
          /\ post'[p].owed = {<<u, rowId[u]>> : u \in Settled \ {post[p].user}}
      BY <1>2, InsertType
    <2>2. Settled \subseteq Members /\ Settled \subseteq cache
      BY DEF Settled, MemberSetComplete
    <2>3. \A u \in Users, id \in Nat :
              <<u, id>> \in post'[p].owed =>
                  id = rowId[u] /\ u # post[p].user /\ u \in Settled
      BY <2>1
    <2>4. Due(p)' \subseteq cache
      BY <1>ty, <1>db, <2>2, <2>3 DEF Due
    <2>5. cache' = cache
      BY <1>2 DEF InsertMessage, vars
    <2>6. QED
      BY <1>ty, <1>db, <2>1, <2>3, <2>4, <2>5 DEF FanSlot
  <1>3. CASE ReadMemberSet(p)
    <2>1. Due(p) \subseteq cache
      BY <1>3 DEF ReadMemberSet, PostAt, FanSlot
    <2>2. Took(p, "incr", cache) \/ PostGoto(p, "rebuild")
      BY <1>3 DEF ReadMemberSet, Took
    <2>3. QED
      BY <1>ty, <1>st, <1>se, <1>go, <2>1, <2>2
  <1>4. CASE SelectMembers(p)
    <2>1. Due(p) \subseteq Members
      BY DEF Due
    <2>2. Took(p, "store", Members)
      BY <1>4 DEF SelectMembers, Took
    <2>3. QED
      BY <1>ty, <1>se, <2>1, <2>2
  <1>5. CASE StoreMembers(p)
    <2>1. /\ post'[p].step = "incr" /\ post'[p].user = post[p].user
          /\ post'[p].seen = post[p].seen /\ post'[p].owed = post[p].owed
      BY <1>5, <1>st, PostGotoType DEF StoreMembers
    <2>2. Due(p) \subseteq post[p].seen /\ Due(p)' = Due(p)
      BY <1>5, <1>db, <2>1 DEF StoreMembers, PostAt, FanSlot, Due
    <2>3. QED
      BY <1>db, <2>1, <2>2 DEF FanSlot
  <1>6. CASE CountUnread(p) \/ ResetUnread(p)
    BY <1>6, <1>do DEF CountUnread, ResetUnread
  <1>7. QED
    BY <1>1, <1>2, <1>3, <1>4, <1>5, <1>6 DEF PostStep

LEMMA MsgFan ==
    ASSUME OneAtATime, NoLoss, MsgTypeOK, OwnerInv, SerialInv, MemberSetComplete,
           FanInv, [MsgNext]_msgVars
    PROVE  FanInv'
  <1>fan. \A p \in Posts : FanSlot(p)
    BY DEF FanInv
  <1>same. ASSUME NEW p \in Posts, post'[p] = post[p], UNCHANGED dbVars,
                  cache \subseteq cache'
           PROVE  FanSlot(p)'
    BY <1>same, <1>fan DEF FanSlot, Due, Members, dbVars
  <1>new. ASSUME NEW p \in Posts, post'[p].owed = {},
                 post'[p].step \notin {"smembers", "store", "incr"}
          PROVE  FanSlot(p)'
    BY <1>new DEF FanSlot
  <1>1. CASE Next /\ UNCHANGED post
    <2>1. ASSUME NEW w \in Workers, Step(w)
          PROVE  FanInv'
      BY <1>1, <1>fan, <2>1, StepDue DEF FanInv
    <2>2. ASSUME NEW w \in Workers, NEW op \in Ops, NEW u \in Users,
                 NEW t \in Users, NEW a \in Grants \cup {"member"}, Call(w, op, u, t, a)
          PROVE  FanInv'
      BY <1>1, <1>same, <2>2 DEF Call, FanInv
    <2>3. QED
      BY <1>1, <2>1, <2>2 DEF Next, NoLoss, Abort, ExpireMemberSet
  <1>2. ASSUME NEW p \in Posts, PostStep(p)
        PROVE  FanInv'
    <2>1. FanSlot(p)'
      BY <1>2, <1>fan, PostDue
    <2>2. \A q \in Posts \ {p} : FanSlot(q)'
      BY <1>2, <1>same, PostStepType, PostStepKeepsSet DEF PostSlotStep
    <2>3. QED
      BY <2>1, <2>2 DEF FanInv
  <1>3. ASSUME NEW p \in Posts, PostSlotStep(p), UNCHANGED vars, post'[p].owed = {},
               post'[p].step \notin {"smembers", "store", "incr"}
        PROVE  FanInv'
    <2>1. \A q \in Posts \ {p} : FanSlot(q)'
      BY <1>3, <1>same DEF PostSlotStep, vars, dbVars
    <2>2. QED
      BY <1>3, <1>new, <2>1 DEF FanInv
  <1>4. ASSUME NEW p \in Posts, NEW op \in {"send", "read"}, NEW u \in Users,
               PostCall(p, op, u)
        PROVE  FanInv'
    <2>1. PostSlotStep(p) /\ UNCHANGED vars /\ post'[p] = NewPost(op, "group", u)
      BY <1>4, PostCallType
    <2>2. post'[p].owed = {} /\ post'[p].step = "group"
      BY <2>1 DEF NewPost
    <2>3. QED
      BY <1>3, <2>1, <2>2
  <1>5. ASSUME NEW p \in Posts, PostAbort(p)
        PROVE  FanInv'
    <2>1. PostSlotStep(p) /\ UNCHANGED vars /\ post'[p] = NoPost
      BY <1>5, PostAbortType
    <2>2. post'[p].owed = {} /\ post'[p].step = "idle"
      BY <2>1 DEF NoPost, NewPost
    <2>3. QED
      BY <1>3, <2>1, <2>2
  <1>6. ASSUME NEW u \in Users, ExpireUnread(u)
        PROVE  FanInv'
    BY <1>6 DEF ExpireUnread, NoLoss
  <1>7. CASE UNCHANGED msgVars
    BY <1>7, <1>same DEF FanInv, msgVars, vars, dbVars
  <1>8. QED
    BY <1>1, <1>2, <1>4, <1>5, <1>6, <1>7 DEF MsgNext

\* The inductive invariant of messages among membership requests that do not
\* overlap, without a request that dies and a key that expires.
DeliveryInv ==
    MsgTypeOK /\ OwnerInv /\ SerialInv /\ MemberSetComplete /\ FanInv

LEMMA DeliveryInit == MsgInit => DeliveryInv
  <1> SUFFICES ASSUME MsgInit PROVE DeliveryInv
    OBVIOUS
  <1>1. MsgTypeOK /\ OwnerInv /\ SerialInv
    BY MsgTypeInit, InitTable, InitSerial DEF MsgInit
  <1>2. MemberSetComplete
    <2>1. PICK w \in Workers :
              req = [v \in Workers |->
                        IF v = w
                        THEN NewRequest("create", "sadd", Owner, Owner, "member")
                        ELSE Idle(0)]
      BY DEF MsgInit, Init
    <2>2. req[w].target = Owner /\ req[w].step = "sadd"
      BY <2>1 DEF NewRequest
    <2>3. Members \subseteq {Owner}
      BY DEF MsgInit, Init, Members
    <2>4. QED
      BY <2>2, <2>3 DEF MemberSetComplete
  <1>3. FanInv
    BY DEF MsgInit, NoPost, NewPost, FanInv, FanSlot
  <1>4. QED
    BY <1>1, <1>2, <1>3 DEF DeliveryInv

LEMMA DeliveryNext ==
    ASSUME OneAtATime, NoLoss
    PROVE  DeliveryInv /\ [MsgNext]_msgVars => DeliveryInv'
  BY MsgNextSerial, MsgComplete, MsgFan DEF DeliveryInv

\* With one membership request at a time, none of which dies, and keys that do
\* not expire, every member is in the Redis member set but the one whose request
\* is about to add it, although fan-outs store member lists they read earlier.
THEOREM MemberSetKept ==
    ASSUME OneAtATime, NoLoss
    PROVE  MsgSpec => []MemberSetComplete
  <1>1. DeliveryInv => MemberSetComplete
    BY DEF DeliveryInv
  <1>2. QED
    BY DeliveryInit, DeliveryNext, <1>1, PTL DEF MsgSpec

\* Under the same hypotheses, a message that is fanned out is counted for every
\* settled member but its sender, however many sends, reads and membership
\* requests run in between.
THEOREM FanoutKept ==
    ASSUME OneAtATime, NoLoss
    PROVE  MsgSpec => FanoutReachesMembers
  <1>1. DeliveryInv /\ [MsgNext]_msgVars =>
            [\A p \in Posts : CountUnread(p) =>
                \A u \in Users : role[u] # "none" /\ <<u, rowId[u]>> \in post[p].owed =>
                    unread'[u] = unread[u] + 1]_msgVars
    <2> SUFFICES ASSUME DeliveryInv, NEW p \in Posts, CountUnread(p),
                        NEW u \in Users, role[u] # "none",
                        <<u, rowId[u]>> \in post[p].owed
                 PROVE  unread'[u] = unread[u] + 1
      OBVIOUS
    <2>1. FanSlot(p) /\ rowId[u] \in Nat
      BY DEF DeliveryInv, FanInv, MsgTypeOK, TypeOK
    <2>2. u # post[p].user /\ u \in post[p].seen
      BY <2>1 DEF FanSlot, Due, Members, CountUnread, PostAt
    <2>3. QED
      BY <2>2 DEF CountUnread
  <1>2. QED
    BY DeliveryInit, DeliveryNext, <1>1, PTL DEF MsgSpec, FanoutReachesMembers
=============================================================================
