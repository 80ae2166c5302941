---------------------------- MODULE GroupMessaging ----------------------------
(***************************************************************************)
(* Messages of the group of GroupMembership: send_message                  *)
(* (app/api/routes/v1/messages.py over create_message of                   *)
(* app/services/groups.py) with its fan-out of unread counters, and        *)
(* mark_group_read.  They share with the membership endpoints the rows,    *)
(* the Redis member set and the unread counters.  Of a message only its    *)
(* sender matters: the content is validated before anything is written.    *)
(* last_read_at, which no code reads, is left out.                         *)
(***************************************************************************)
EXTENDS GroupMembership

CONSTANTS
    Posts,        \* slots for send and read requests in flight
    MaxUnread     \* bound: no message is sent while a counter is that high

ASSUME MessagingAssumption ==
    /\ IsFiniteSet(Posts)
    /\ MaxUnread \in Nat

VARIABLE
    post          \* post[p]: the request in slot p

msgVars == <<vars, post>>

-----------------------------------------------------------------------------
\* seen is the member set that the fan-out has read.  owed is no state of the
\* code: the rows whose users the committed message has to be counted for.
NewPost(op, step, u) ==
    [op |-> op, step |-> step, user |-> u, seen |-> {}, owed |-> {}]

NoPost == NewPost("read", "idle", Owner)

MsgInit ==
    /\ Init
    /\ post = [p \in Posts |-> NoPost]

PostGoto(p, step) == post' = [post EXCEPT ![p].step = step]

PostDone(p) == post' = [post EXCEPT ![p] = NoPost]

PostAt(p, op, step) == post[p].op = op /\ post[p].step = step

-----------------------------------------------------------------------------
PostCall(p, op, u) ==
    /\ post[p].step = "idle"
    /\ op = "send" => \A v \in Users : unread[v] < MaxUnread
    /\ post' = [post EXCEPT ![p] = NewPost(op, "group", u)]
    /\ UNCHANGED vars

\* get_group_or_404_authorized: the group, then the caller's membership.
PostReadGroup(p) ==
    /\ post[p].step = "group"
    /\ IF deleted THEN PostDone(p) ELSE PostGoto(p, "caller")
    /\ UNCHANGED vars

\* A stranger may not send; in a public group a stranger may mark as read.
PostReadCaller(p) ==
    LET stranger == role[post[p].user] = "none" IN
    /\ post[p].step = "caller"
    /\ \/ /\ stranger /\ (post[p].op = "send" \/ AccessType = "private")
          /\ PostDone(p)
       \/ /\ ~stranger /\ post[p].op = "send"
          /\ PostGoto(p, "insert")
       \/ /\ post[p].op = "read" /\ (~stranger \/ AccessType = "public")
          /\ PostGoto(p, "reset")
    /\ UNCHANGED vars

\* The members that no request in flight is adding or removing.
Settled ==
    {u \in Members : \A w \in Workers :
        req[w].step \in {"sadd", "srem", "clear"} => req[w].target # u}

InsertMessage(p) ==
    /\ PostAt(p, "send", "insert")
    /\ post' = [post EXCEPT ![p].step = "smembers",
                            ![p].owed = {<<u, rowId[u]>> :
                                            u \in Settled \ {post[p].user}}]
    /\ UNCHANGED vars

\* _get_or_refresh_member_set: SMEMBERS, and on a miss SELECT and SADD.
ReadMemberSet(p) ==
    /\ PostAt(p, "send", "smembers")
    /\ IF cache # {}
       THEN post' = [post EXCEPT ![p].step = "incr", ![p].seen = cache]
       ELSE PostGoto(p, "rebuild")
    /\ UNCHANGED vars

SelectMembers(p) ==
    /\ PostAt(p, "send", "rebuild")
    /\ post' = [post EXCEPT ![p].step = "store", ![p].seen = Members]
    /\ UNCHANGED vars

StoreMembers(p) ==
    /\ PostAt(p, "send", "store")
    /\ cache' = cache \cup post[p].seen
    /\ PostGoto(p, "incr")
    /\ UNCHANGED <<dbVars, unread, req>>

\* One MULTI: INCR for everyone in the set but the sender.
CountUnread(p) ==
    /\ PostAt(p, "send", "incr")
    /\ unread' = [u \in Users |-> IF u \in post[p].seen \ {post[p].user}
                                  THEN unread[u] + 1 ELSE unread[u]]
    /\ PostDone(p)
    /\ UNCHANGED <<dbVars, cache, req>>

ResetUnread(p) ==
    /\ PostAt(p, "read", "reset")
    /\ unread' = [unread EXCEPT ![post[p].user] = 0]
    /\ PostDone(p)
    /\ UNCHANGED <<dbVars, cache, req>>

\* The request dies, or Redis fails and create_message swallows the error: a
\* message that is committed stays, its fan-out is given up.
PostAbort(p) ==
    /\ "drop" \in Faults
    /\ post[p].step # "idle"
    /\ PostDone(p)
    /\ UNCHANGED vars

\* A counter reaches its TTL (30 days after the last INCR).
ExpireUnread(u) ==
    /\ "expire" \in Faults
    /\ unread[u] > 0
    /\ unread' = [unread EXCEPT ![u] = 0]
    /\ UNCHANGED <<dbVars, cache, req, post>>

PostStep(p) ==
    \/ PostReadGroup(p) \/ PostReadCaller(p)
    \/ InsertMessage(p)
    \/ ReadMemberSet(p) \/ SelectMembers(p) \/ StoreMembers(p)
    \/ CountUnread(p) \/ ResetUnread(p)

MsgNext ==
    \/ Next /\ UNCHANGED post
    \/ \E p \in Posts :
          \/ \E op \in {"send", "read"}, u \in Users : PostCall(p, op, u)
          \/ PostStep(p)
          \/ PostAbort(p)
    \/ \E u \in Users : ExpireUnread(u)

MsgSpec == MsgInit /\ [][MsgNext]_msgVars

\* The event loop runs every coroutine that can run, PostgreSQL and Redis
\* answer, and a key that is not written again reaches its TTL.
Fairness ==
    /\ \A w \in Workers : WF_msgVars(Step(w) /\ UNCHANGED post)
    /\ \A p \in Posts : WF_msgVars(PostStep(p))
    /\ WF_msgVars(ExpireMemberSet /\ UNCHANGED post)

FairMsgSpec == MsgSpec /\ Fairness

-----------------------------------------------------------------------------
\* A message that is fanned out is counted for every settled member but the
\* sender, whoever reads, leaves or joins meanwhile.  It needs membership requests
\* that do not overlap and a member set that never expires: the first SADD after
\* an expiry makes a set of one that the next fan-out takes for the whole.
FanoutReachesMembers ==
    [][\A p \in Posts : CountUnread(p) =>
          \A u \in Users : role[u] # "none" /\ <<u, rowId[u]>> \in post[p].owed =>
              unread'[u] = unread[u] + 1]_msgVars

\* However requests die and keys expire, only somebody whose row was committed at
\* some time gets into the member set or has a counter: Redis is written after
\* the commit, never before.
OnlyPastMembersCounted ==
    \A u \in Users : u \in cache \/ unread[u] > 0 => rowId[u] > 0 \/ u = Owner

\* Someone who has left for good is out of the Redis member set for good in the
\* end, although a fan-out may store an old SELECT after the SREM.
StaleSetHeals ==
    \A u \in Users : <>[](u \notin Members) => <>[](u \notin cache)
=============================================================================
