--------------------------- MODULE GroupMembership ---------------------------
(***************************************************************************)
(* The membership of one group: the endpoints of                           *)
(* app/api/routes/v1/groups.py over the service functions of               *)
(* app/services/groups.py.  A request is a coroutine: between two awaits   *)
(* (SELECT, COMMIT, Redis command) any other request may run, so every     *)
(* database statement or Redis command is an action of its own, and what a *)
(* request has read is kept in its slot until it is used.  Sessions are    *)
(* READ COMMITTED with expire_on_commit=False: a SELECT sees the last      *)
(* commit, an attribute already loaded is never refreshed.                 *)
(*                                                                         *)
(* The behaviour starts when create_group has committed the group and its  *)
(* owner's row and has yet to write the Redis member set.                  *)
(***************************************************************************)
EXTENDS Naturals, FiniteSets

CONSTANTS
    Users,        \* user ids
    Owner,        \* the user that created the group
    Workers,      \* slots for requests in flight (each holds a pooled session)
    AccessType,   \* groups.access_type, "private" or "public"
    MaxMembers,   \* groups.max_members of a private group (NULL for a public one)
    Ops,          \* the endpoints that clients call
    Grants,       \* the roles that clients ask for in update_member_role
    Faults,       \* what may go wrong: "expire" (Redis TTL), "abort" (a request dies)
    MaxRows       \* bound: rows a user is given before joins are no longer started

Endpoints == {"join", "invite", "leave", "kick", "role", "delete"}

ASSUME ConstantsAssumption ==
    /\ Owner \in Users
    /\ IsFiniteSet(Users)
    /\ IsFiniteSet(Workers)
    /\ AccessType \in {"private", "public"}
    /\ MaxMembers \in Nat \ {0}
    /\ Ops \subseteq Endpoints
    /\ Grants \subseteq {"admin", "member", "follower"}
    /\ Faults \subseteq {"expire", "abort", "drop"}
    /\ MaxRows \in Nat

VARIABLES
    role,      \* role[u]: the role in u's group_memberships row, "none" without a row
    rowId,     \* rowId[u]: which of u's rows that is (ids are never reused)
    count,     \* groups.member_count
    deleted,   \* groups.is_deleted
    cache,     \* the Redis set group_members:{id}; an empty set is a missing key
    unread,    \* unread[u]: the Redis counter unread:{id}:{u}
    req        \* req[w]: the request in slot w

dbVars == <<role, rowId, count, deleted>>
vars == <<role, rowId, count, deleted, cache, unread, req>>

-----------------------------------------------------------------------------
Roles == {"owner", "admin", "member", "follower", "none"}

AssignableRoles == {"admin", "member", "follower"}

ROLE_ORDER ==
    [owner |-> 4, admin |-> 3, member |-> 2, follower |-> 1, none |-> 0]

\* 0 stands for no answer: the slot is unused, or its request died.
Statuses == {0, 200, 400, 403, 404, 409, 500}

Steps == {"idle", "group", "existing", "caller", "target", "select",
          "commit", "sadd", "srem", "clear"}

\* crole, trole and row are what the request has read of the caller's role,
\* of the target's role and of the id of the target's row.
Request ==
    [op : Endpoints \cup {"create", "none"}, step : Steps,
     user : Users, target : Users, arg : AssignableRoles,
     crole : Roles, trole : Roles, row : Nat, status : Statuses]

NewRequest(op, step, u, t, a) ==
    [op |-> op, step |-> step, user |-> u, target |-> t, arg |-> a,
     crole |-> "none", trole |-> "none", row |-> 0, status |-> 0]

Idle(status) ==
    [NewRequest("none", "idle", Owner, Owner, "member") EXCEPT !.status = status]

TypeOK ==
    /\ role \in [Users -> Roles]
    /\ rowId \in [Users -> Nat]
    /\ count \in Nat
    /\ deleted \in BOOLEAN
    /\ cache \in SUBSET Users
    /\ unread \in [Users -> Nat]
    /\ req \in [Workers -> Request]

-----------------------------------------------------------------------------
Members == {u \in Users : role[u] # "none"}

\* GREATEST(member_count - 1, 0).
Decremented(n) == IF n = 0 THEN 0 ELSE n - 1

\* max_members is 50 for private groups and NULL for public ones.
Full_OffByOne == AccessType = "private" /\ count > MaxMembers
Full == AccessType = "private" /\ count >= MaxMembers

\* The row a request has loaded is still in the table.
Live(w) ==
    /\ role[req[w].target] # "none"
    /\ rowId[req[w].target] = req[w].row

At(w, ops, step) == req[w].op \in ops /\ req[w].step = step

\* What a request remembers of the rows it has loaded, and where it goes then.
WithCaller(q, r) ==
    [q EXCEPT !.crole = r,
              !.step = IF q.op = "delete" THEN "commit" ELSE "target"]

WithTarget(q, r, id) ==
    [q EXCEPT !.trole = r, !.row = id,
              !.step = IF q.op = "kick" THEN "select" ELSE "commit"]

WithRow(q, id) == [q EXCEPT !.row = id, !.step = "commit"]

\* A request keeps what it read, goes to its next step, or answers.
Keep(w, r) == req' = [req EXCEPT ![w] = r]

Goto(w, step) == Keep(w, [req[w] EXCEPT !.step = step])

Reply(w, status) == Keep(w, Idle(status))

Init ==
    /\ role = [u \in Users |-> IF u = Owner THEN "owner" ELSE "none"]
    /\ rowId = [u \in Users |-> 0]
    /\ count = 1
    /\ deleted = FALSE
    /\ cache = {}
    /\ unread = [u \in Users |-> 0]
    /\ \E w \in Workers :
          req = [v \in Workers |->
                    IF v = w
                    THEN NewRequest("create", "sadd", Owner, Owner, "member")
                    ELSE Idle(0)]

-----------------------------------------------------------------------------
(* A client calls an endpoint. *)
FirstStep(op) == IF op = "leave" THEN "select" ELSE "group"

Call(w, op, u, t, a) ==
    /\ req[w].step = "idle"
    /\ op \in Ops
    /\ op \in {"kick", "role"} \/ t = u
    /\ IF op = "role" THEN a \in Grants ELSE a = "member"
    /\ op \in {"join", "invite"} => rowId[u] < MaxRows
    /\ Keep(w, NewRequest(op, FirstStep(op), u, t, a))
    /\ UNCHANGED <<dbVars, cache, unread>>

-----------------------------------------------------------------------------
(* join_public_group, join_via_invite and add_member. *)

\* The group's row is read and its capacity checked, before anything else.
JoinReadGroup(w) ==
    /\ At(w, {"join", "invite"}, "group")
    /\ \/ deleted /\ Reply(w, 404)
       \/ /\ ~deleted
          /\ req[w].op = "join" /\ AccessType # "public"
          /\ Reply(w, 403)
       \/ /\ ~deleted
          /\ req[w].op = "invite" \/ AccessType = "public"
          /\ IF Full
             THEN Reply(w, 409)
             ELSE Goto(w, IF req[w].op = "invite" THEN "existing" ELSE "select")
    /\ UNCHANGED <<dbVars, cache, unread>>

\* An invite link followed by a member answers with the group.
InviteReadMembership(w) ==
    /\ At(w, {"invite"}, "existing")
    /\ IF role[req[w].user] # "none" THEN Reply(w, 200) ELSE Goto(w, "select")
    /\ UNCHANGED <<dbVars, cache, unread>>

AddSelect_CacheFirst(w) ==
    LET u == req[w].user IN
    /\ At(w, {"join", "invite"}, "select")
    /\ IF role[u] # "none" THEN Reply(w, 409) ELSE Goto(w, "commit")
    /\ cache' = cache \cup {u}
    /\ UNCHANGED <<dbVars, unread>>

AddSelect(w) ==
    /\ At(w, {"join", "invite"}, "select")
    /\ IF role[req[w].user] # "none" THEN Reply(w, 409) ELSE Goto(w, "commit")
    /\ UNCHANGED <<dbVars, cache, unread>>

AddCommit_CountFirst(w) ==
    LET u == req[w].user IN
    /\ At(w, {"join", "invite"}, "commit")
    /\ count' = count + 1
    /\ \/ /\ role[u] # "none"
          /\ Reply(w, 409)
          /\ UNCHANGED <<role, rowId>>
       \/ /\ role[u] = "none"
          /\ role' = [role EXCEPT ![u] = "member"]
          /\ rowId' = [rowId EXCEPT ![u] = @ + 1]
          /\ Goto(w, "sadd")
    /\ UNCHANGED <<deleted, cache, unread>>

\* INSERT, UPDATE member_count + 1 and COMMIT, in one transaction.  The INSERT
\* is flushed by the UPDATE's autoflush, before the try block: a duplicate row
\* (uq_group_memberships_pair) leaves the handler as an IntegrityError.
AddCommit(w) ==
    LET u == req[w].user IN
    /\ At(w, {"join", "invite"}, "commit")
    /\ \/ /\ role[u] # "none"
          /\ Reply(w, 500)
          /\ UNCHANGED dbVars
       \/ /\ role[u] = "none"
          /\ role' = [role EXCEPT ![u] = "member"]
          /\ rowId' = [rowId EXCEPT ![u] = @ + 1]
          /\ count' = count + 1
          /\ UNCHANGED deleted
          /\ Goto(w, "sadd")
    /\ UNCHANGED <<cache, unread>>

AddToMemberSet_OnlyOwner(w) ==
    /\ At(w, {"create", "join", "invite"}, "sadd")
    /\ cache' = IF req[w].op = "create" THEN cache \cup {req[w].user} ELSE cache
    /\ Reply(w, 200)
    /\ UNCHANGED <<dbVars, unread>>

\* SADD and EXPIRE, also the last step of create_group.
AddToMemberSet(w) ==
    /\ At(w, {"create", "join", "invite"}, "sadd")
    /\ cache' = cache \cup {req[w].user}
    /\ Reply(w, 200)
    /\ UNCHANGED <<dbVars, unread>>

-----------------------------------------------------------------------------
(* get_group_or_404_authorized and assert_min_role, for the endpoints that  *)
(* need a role.                                                             *)
MinRole(op) == IF op = "delete" THEN "owner" ELSE "admin"

ReadGroup(w) ==
    /\ At(w, {"kick", "role", "delete"}, "group")
    /\ IF deleted THEN Reply(w, 404) ELSE Goto(w, "caller")
    /\ UNCHANGED <<dbVars, cache, unread>>

ReadCaller(w) ==
    LET r == role[req[w].user] IN
    /\ At(w, {"kick", "role", "delete"}, "caller")
    /\ \/ /\ r = "none"
          /\ Reply(w, IF AccessType = "private" THEN 404 ELSE 403)
       \/ /\ r # "none"
          /\ ROLE_ORDER[r] < ROLE_ORDER[MinRole(req[w].op)]
          /\ Reply(w, 403)
       \/ /\ ROLE_ORDER[r] >= ROLE_ORDER[MinRole(req[w].op)]
          /\ Keep(w, WithCaller(req[w], r))
    /\ UNCHANGED <<dbVars, cache, unread>>

ReadTarget_NoRoleCheck(w) ==
    LET t == req[w].target IN
    /\ At(w, {"kick", "role"}, "target")
    /\ IF role[t] \in {"none", "owner"}
       THEN Reply(w, 404)
       ELSE Keep(w, WithTarget(req[w], role[t], rowId[t]))
    /\ UNCHANGED <<dbVars, cache, unread>>

\* The role checks of update_member_role and kick_member.
ReadTarget(w) ==
    LET t == req[w].target
        r == role[t]
        adminByAdmin == r = "admin" /\ req[w].crole # "owner"
        self == req[w].op = "kick" /\ t = req[w].user
    IN
    /\ At(w, {"kick", "role"}, "target")
    /\ \/ r = "none" /\ Reply(w, 404)
       \/ r = "owner" /\ Reply(w, 400)
       \/ adminByAdmin /\ Reply(w, 403)
       \/ r \notin {"none", "owner"} /\ ~adminByAdmin /\ self /\ Reply(w, 400)
       \/ /\ r \notin {"none", "owner"} /\ ~adminByAdmin /\ ~self
          /\ Keep(w, WithTarget(req[w], r, rowId[t]))
    /\ UNCHANGED <<dbVars, cache, unread>>

SetRole_Upsert(w) ==
    /\ At(w, {"role"}, "commit")
    /\ role' = [role EXCEPT ![req[w].target] = req[w].arg]
    /\ Reply(w, 200)
    /\ UNCHANGED <<rowId, count, deleted, cache, unread>>

\* update_member_role: the ORM writes the row only if the new role differs
\* from the loaded one, and fails (StaleDataError) if the row is gone.
SetRole(w) ==
    /\ At(w, {"role"}, "commit")
    /\ \/ /\ req[w].arg = req[w].trole
          /\ Reply(w, 200)
          /\ UNCHANGED role
       \/ /\ req[w].arg # req[w].trole /\ ~Live(w)
          /\ Reply(w, 500)
          /\ UNCHANGED role
       \/ /\ req[w].arg # req[w].trole /\ Live(w)
          /\ role' = [role EXCEPT ![req[w].target] = req[w].arg]
          /\ Reply(w, 200)
    /\ UNCHANGED <<rowId, count, deleted, cache, unread>>

DeleteGroup(w) ==
    /\ At(w, {"delete"}, "commit")
    /\ deleted' = TRUE
    /\ Reply(w, 200)
    /\ UNCHANGED <<role, rowId, count, cache, unread>>

-----------------------------------------------------------------------------
(* leave_group, kick_member and remove_member. *)
RemoveSelect_OwnerToo(w) ==
    LET t == req[w].target IN
    /\ At(w, {"leave", "kick"}, "select")
    /\ IF role[t] = "none"
       THEN Reply(w, 404)
       ELSE Keep(w, WithRow(req[w], rowId[t]))
    /\ UNCHANGED <<dbVars, cache, unread>>

RemoveSelect(w) ==
    LET t == req[w].target IN
    /\ At(w, {"leave", "kick"}, "select")
    /\ \/ role[t] = "none" /\ Reply(w, 404)
       \/ role[t] = "owner" /\ Reply(w, 400)
       \/ /\ role[t] \notin {"none", "owner"}
          /\ Keep(w, WithRow(req[w], rowId[t]))
    /\ UNCHANGED <<dbVars, cache, unread>>

\* DELETE by row id, UPDATE GREATEST(member_count - 1, 0) and COMMIT.  A row
\* that another request deleted first makes the DELETE match nothing, which is
\* a warning: the count is decremented all the same.
RemoveCommit(w) ==
    /\ At(w, {"leave", "kick"}, "commit")
    /\ role' = IF Live(w) THEN [role EXCEPT ![req[w].target] = "none"] ELSE role
    /\ count' = Decremented(count)
    /\ Goto(w, "srem")
    /\ UNCHANGED <<rowId, deleted, cache, unread>>

RemoveFromMemberSet_DropKey(w) ==
    /\ At(w, {"leave", "kick"}, "srem")
    /\ cache' = {}
    /\ Goto(w, "clear")
    /\ UNCHANGED <<dbVars, unread>>

RemoveFromMemberSet(w) ==
    /\ At(w, {"leave", "kick"}, "srem")
    /\ cache' = cache \ {req[w].target}
    /\ Goto(w, "clear")
    /\ UNCHANGED <<dbVars, unread>>

ClearUnread(w) ==
    /\ At(w, {"leave", "kick"}, "clear")
    /\ unread' = [unread EXCEPT ![req[w].target] = 0]
    /\ Reply(w, 200)
    /\ UNCHANGED <<dbVars, cache>>

-----------------------------------------------------------------------------
\* A request ends early: a lost connection, a Redis error after the commit, a
\* restart.  What it had not committed is rolled back (get_db).
Abort(w) ==
    /\ "abort" \in Faults
    /\ req[w].step # "idle"
    /\ Reply(w, 0)
    /\ UNCHANGED <<dbVars, cache, unread>>

ExpireMemberSet_NoTTL == FALSE /\ UNCHANGED vars

\* The member set reaches its TTL (24h after the last SADD).
ExpireMemberSet ==
    /\ "expire" \in Faults
    /\ cache # {}
    /\ cache' = {}
    /\ UNCHANGED <<dbVars, unread, req>>

Step(w) ==
    \/ JoinReadGroup(w) \/ InviteReadMembership(w)
    \/ AddSelect(w) \/ AddCommit(w) \/ AddToMemberSet(w)
    \/ ReadGroup(w) \/ ReadCaller(w) \/ ReadTarget(w)
    \/ SetRole(w) \/ DeleteGroup(w)
    \/ RemoveSelect(w) \/ RemoveCommit(w)
    \/ RemoveFromMemberSet(w) \/ ClearUnread(w)

Next ==
    \/ \E w \in Workers :
          \/ \E op \in Ops, u, t \in Users, a \in Grants \cup {"member"} :
                Call(w, op, u, t, a)
          \/ Step(w)
          \/ Abort(w)
    \/ ExpireMemberSet

Spec == Init /\ [][Next]_vars

-----------------------------------------------------------------------------
(* What holds however requests interleave and die. *)

\* Whatever leave, kick and role requests overlap, the creator keeps the
\* owner's row and nobody else gets one (remove_member and both role endpoints
\* refuse the owner, no endpoint hands the role out).
OneOwner == \A u \in Users : role[u] = "owner" <=> u = Owner

\* member_count is never larger than the number of rows: races only lose
\* increments (a row deleted by two requests is counted out twice).
CountNeverAbove == count <= Cardinality(Members)

\* Requests that have found room in the group and have not inserted yet.
Admits(q) ==
    q.op \in {"join", "invite"} /\ q.step \in {"existing", "select", "commit"}

Admitted == {w \in Workers : Admits(req[w])}

\* The capacity check reads member_count before the joining transaction, so that
\* overlapping joins overrun it: never by more than the other requests in
\* flight, and those that have found room and will still insert count already.
OvershootBounded ==
    AccessType = "private" =>
        count + Cardinality(Admitted) <= MaxMembers + Cardinality(Workers) - 1

\* The rows follow the abstract table: one row per user, entering as "member",
\* an immutable owner, no return from deletion, count steps of one.
Table == INSTANCE MembershipTable WITH role <- role, count <- count, deleted <- deleted
TableSpec == Table!Spec

-----------------------------------------------------------------------------
(* What holds when requests do not overlap (one worker).                    *)

\* An admin's row is changed or removed only by the admin leaving or by the
\* owner (update_member_role and kick_member check both roles first).
AdminOnlyByOwner ==
    [][\A u \in Users : role[u] = "admin" /\ role'[u] # "admin" =>
          \E w \in Workers :
              /\ req[w].target = u
              /\ req[w].op = "leave" \/ req[w].user = Owner]_vars

\* Without faults, every member is in the Redis member set but the one whose
\* request has committed and not yet written to Redis, although a fan-out may be
\* rebuilding the set from an older SELECT.  (Others may be in it: see
\* StaleSetHeals of GroupMessaging.)
MemberSetComplete ==
    \A u \in Members \ cache :
        \E w \in Workers : req[w].target = u /\ req[w].step = "sadd"

=============================================================================
