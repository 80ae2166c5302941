----------------------------- MODULE TradingProofs -----------------------------
(***************************************************************************)
(* Proofs about Trading, for any number of users, wallets, orders and of   *)
(* requests in flight, any mix of endpoints and any choice of faults.      *)
(***************************************************************************)
EXTENDS Trading, TLAPS

-----------------------------------------------------------------------------
(* The inductive invariant, part by part.                                    *)

Rows == [did : Dids \cup {None}, email : Dids \cup {None}, name : Names \cup {None}]

\* The three tables: types, unique columns, one account per user.
TablesInv ==
    /\ offered \in Offers
    /\ users \in [Wallets -> Rows]
    /\ accounts \in [Wallets -> {0, 1}]
    /\ follows \in SUBSET (Wallets \X Wallets)
    /\ \A a, b \in Wallets : a # b =>
        \A field \in {"did", "email", "name"} :
            users[a][field] = users[b][field] => users[a][field] = None
    /\ \A a \in Wallets : accounts[a] = 1 <=> Exists(a)

Ops == {"login", "follow", "unfollow", "rename", "store", "prepare", "submit",
        "cancel", "approve", "deploy", "status"}
Steps == {"idle", "find", "insert", "backfill", "commit", "create", "select",
          "request", "poll", "done"}
Answers == {"none", "unregistered", "forbidden", "error", "new", "old", "self",
            "unknown", "already", "following", "unfollowed", "absent", "taken",
            "renamed", "stored", "noaccount", "badtick", "misfit", "prepared",
            "rejected", "placed", "cancelled", "done", "failed", "missing"}
Args == Wallets \cup Names \cup Orders \cup {None}

Request == [op : Ops \cup {"none"}, did : Dids \cup {None}, by : Wallets \cup {None},
            arg : Args, row : BOOLEAN, step : Steps, answer : Answers, hurt : BOOLEAN]

\* What a call knows about its wallet: a request that does more than answer has
\* one, and what its reads have found is still there when it commits.
CallOK(w) ==
    /\ call[w].step = "done" <=> call[w].answer # "none"
    /\ call[w].step = "idle" => call[w].op = "none"
    /\ call[w].step \notin {"idle", "done"} => call[w].by \in Wallets
    /\ call[w].op = "login" => call[w].did \in Dids /\ call[w].by \in Wallets
    /\ call[w].op = "login" /\ (call[w].step = "backfill" \/ call[w].answer = "new")
         => Exists(call[w].by)
    /\ call[w].op = "rename" /\ call[w].by \in Wallets
         => Exists(call[w].by) /\ call[w].arg \in Names
    /\ call[w].op \in {"follow", "unfollow"} /\ call[w].by \in Wallets
         => call[w].arg \in Wallets
    /\ call[w].op \in {"submit", "cancel"} /\ call[w].by \in Wallets
         => call[w].arg \in Orders
    /\ call[w].op = "store" /\ call[w].step = "commit" => accounts[call[w].by] = 1

CallInv ==
    /\ call \in [Workers -> Request]
    /\ \A w \in Workers : CallOK(w)

-----------------------------------------------------------------------------
(* What happens to the record of a call.                                     *)

Typed == call' \in [Workers -> Request]
OthersKept(w) == \A v \in Workers \ {w} : call'[v] = call[v]

\* The call of w goes on.
Continues(w) ==
    /\ Typed /\ OthersKept(w)
    /\ call'[w].op = call[w].op /\ call'[w].did = call[w].did
    /\ call'[w].by = call[w].by /\ call'[w].arg = call[w].arg

\* A call begins, or is answered at once for want of a user.
Begins(w) ==
    /\ Typed /\ OthersKept(w)
    /\ call[w].step = "idle"
    /\ call'[w].row = FALSE /\ call'[w].op # "none"
    /\ \/ /\ call'[w].step = "find" /\ call'[w].answer = "none"
          /\ call'[w].by \in Wallets
       \/ /\ call'[w].step = "done" /\ call'[w].answer \in {"unregistered", "forbidden"}
          /\ call'[w].by = None

LEMMA MoveFacts ==
    ASSUME call \in [Workers -> Request], NEW w \in Workers,
           NEW step \in Steps, NEW row \in BOOLEAN, Move(w, step, row)
    PROVE  /\ Continues(w)
           /\ call'[w].step = step /\ call'[w].row = row
           /\ call'[w].answer = call[w].answer /\ call'[w].hurt = call[w].hurt
  <1>1. /\ call' = [v \in Workers |-> call'[v]]
        /\ \A v \in Workers \ {w} : call'[v] = call[v]
        /\ call'[w] = [call[w] EXCEPT !.step = step, !.row = row]
    BY DEF Move
  <1>2. [call[w] EXCEPT !.step = step, !.row = row] \in Request
    BY DEF Request
  <1>3. /\ call'[w].op = call[w].op /\ call'[w].did = call[w].did
        /\ call'[w].by = call[w].by /\ call'[w].arg = call[w].arg
        /\ call'[w].step = step /\ call'[w].row = row
        /\ call'[w].answer = call[w].answer /\ call'[w].hurt = call[w].hurt
    BY DEF Move, Request
  <1>4. Typed /\ OthersKept(w)
    BY <1>1, <1>2 DEF Typed, OthersKept
  <1>5. QED
    BY <1>3, <1>4 DEF Continues

LEMMA ReplyFacts ==
    ASSUME call \in [Workers -> Request], NEW w \in Workers,
           NEW answer \in Answers, NEW hurt \in BOOLEAN, Reply(w, answer, hurt)
    PROVE  /\ Continues(w)
           /\ call'[w].step = "done" /\ call'[w].row = call[w].row
           /\ call'[w].answer = answer /\ call'[w].hurt = hurt
  <1>1. /\ call' = [v \in Workers |-> call'[v]]
        /\ \A v \in Workers \ {w} : call'[v] = call[v]
        /\ call'[w] = [call[w] EXCEPT !.step = "done", !.answer = answer, !.hurt = hurt]
    BY DEF Reply
  <1>2. [call[w] EXCEPT !.step = "done", !.answer = answer, !.hurt = hurt] \in Request
    BY DEF Request, Steps
  <1>3. /\ call'[w].op = call[w].op /\ call'[w].did = call[w].did
        /\ call'[w].by = call[w].by /\ call'[w].arg = call[w].arg
        /\ call'[w].step = "done" /\ call'[w].row = call[w].row
        /\ call'[w].answer = answer /\ call'[w].hurt = hurt
    BY DEF Reply, Request
  <1>4. Typed /\ OthersKept(w)
    BY <1>1, <1>2 DEF Typed, OthersKept
  <1>5. QED
    BY <1>3, <1>4 DEF Continues

LEMMA CallFacts ==
    ASSUME call \in [Workers -> Request], TablesInv, NEW w \in Workers,
           NEW op \in Ops, NEW d \in Dids \cup {None}, NEW a, NEW arg \in Args,
           Call(w, op, d, a, arg)
    PROVE  /\ Begins(w) /\ a \in Wallets
           /\ call'[w].op = op /\ call'[w].did = d /\ call'[w].by = a
           /\ call'[w].arg = arg /\ call'[w].step = "find"
  <1>1. a \in Wallets
    BY OffersAssumption DEF Call, TablesInv
  <1>2. /\ call' = [v \in Workers |-> call'[v]]
        /\ \A v \in Workers \ {w} : call'[v] = call[v]
        /\ call'[w] = [Idle EXCEPT !.op = op, !.did = d, !.by = a, !.arg = arg,
                                   !.step = "find"]
    BY DEF Call
  <1>3. [Idle EXCEPT !.op = op, !.did = d, !.by = a, !.arg = arg, !.step = "find"] \in Request
    BY <1>1 DEF Idle, Request, Steps, Answers, Ops
  <1>4. /\ call'[w].op = op /\ call'[w].did = d /\ call'[w].by = a /\ call'[w].arg = arg
        /\ call'[w].step = "find" /\ call'[w].answer = "none" /\ call'[w].row = FALSE
    BY <1>2 DEF Idle
  <1>5. Typed /\ OthersKept(w)
    BY <1>2, <1>3 DEF Typed, OthersKept
  <1>6. call[w].step = "idle" /\ op # "none"
    BY DEF Call, Idle, Ops
  <1>7. QED
    BY <1>1, <1>4, <1>5, <1>6 DEF Begins

\* A call answered at once.
LEMMA RefusedFacts ==
    ASSUME call \in [Workers -> Request], NEW w \in Workers,
           NEW op \in Ops, NEW d \in Dids \cup {None},
           NEW answer \in {"unregistered", "forbidden"}, RefusedCall(w, op, d, answer)
    PROVE  /\ Begins(w)
           /\ call'[w].op = op /\ call'[w].did = d /\ call'[w].by = None
           /\ call'[w].step = "done" /\ call'[w].answer = answer
  <1>1. /\ call' = [v \in Workers |-> call'[v]]
        /\ \A v \in Workers \ {w} : call'[v] = call[v]
        /\ call'[w] = [Idle EXCEPT !.op = op, !.did = d, !.step = "done", !.answer = answer]
    BY DEF RefusedCall
  <1>2. [Idle EXCEPT !.op = op, !.did = d, !.step = "done", !.answer = answer] \in Request
    BY DEF Idle, Request, Steps, Answers, Ops, Args
  <1>3. /\ call'[w].op = op /\ call'[w].did = d /\ call'[w].by = None
        /\ call'[w].step = "done" /\ call'[w].answer = answer /\ call'[w].row = FALSE
    BY <1>1 DEF Idle
  <1>4. Typed /\ OthersKept(w)
    BY <1>1, <1>2 DEF Typed, OthersKept
  <1>5. call[w].step = "idle" /\ op # "none"
    BY DEF RefusedCall, Idle, Ops
  <1>6. QED
    BY <1>3, <1>4, <1>5 DEF Begins

LEMMA AuthenticatedFacts ==
    ASSUME call \in [Workers -> Request], TablesInv, NEW w \in Workers,
           NEW op \in Ops, NEW d \in Dids,
           NEW arg \in Args,
           AuthenticatedCall(w, op, d, arg)
    PROVE  /\ Begins(w)
           /\ call'[w].op = op /\ call'[w].did = d
           /\ call'[w].by \in Wallets => /\ call'[w].arg = arg
                                         /\ call'[w].by \in Registered(d)
  <1>1. CASE \E a \in Registered(d) : Call(w, op, d, a, arg)
    <2>1. PICK a \in Registered(d) : Call(w, op, d, a, arg)
      BY <1>1
    <2>2. QED
      BY <2>1, CallFacts
  <1>2. CASE RefusedCall(w, op, d, "unregistered")
    <2>1. None \notin Wallets
      BY AccountConstantsAssumption
    <2>2. Begins(w) /\ call'[w].op = op /\ call'[w].did = d /\ call'[w].by = None
      BY <1>2, RefusedFacts
    <2>3. QED
      BY <2>1, <2>2
  <1>3. QED
    BY <1>1, <1>2 DEF AuthenticatedCall

\* What every arrival has in common, and what a new call has been given.
Arrival(w) ==
    /\ Begins(w)
    /\ UNCHANGED <<users, accounts, follows, clobKey, creds, key, paramState,
                   orderState, relayVars>>
    /\ call'[w].op = "login" => call'[w].did \in Dids /\ call'[w].by \in Wallets
    /\ call'[w].by \in Wallets =>
        /\ call'[w].op = "rename" => Exists(call'[w].by) /\ call'[w].arg \in Names
        /\ call'[w].op \in {"follow", "unfollow"} => call'[w].arg \in Wallets
        /\ call'[w].op \in {"submit", "cancel"} => call'[w].arg \in Orders
    /\ astray' = IF call'[w].op = "store" /\ Storing(call'[w].by) # {}
                 THEN astray \cup {call'[w].by} ELSE astray

LEMMA ArrivalFacts ==
    ASSUME CallInv, TablesInv, NEW w \in Workers, Arrives(w)
    PROVE  Arrival(w)
  <1> call \in [Workers -> Request]
    BY DEF CallInv
  <1>1. ASSUME NEW t \in Tokens, LoginCall(w, t), UNCHANGED <<orderVars, relayVars>>
        PROVE  Arrival(w)
    <2>1. t[1] \in Dids
      BY AccountConstantsAssumption
    <2>2. "login" \in Ops /\ None \in Args
      BY DEF Ops, Args
    <2>3. Begins(w) /\ t[2] \in Wallets /\ call'[w].op = "login" /\ call'[w].did = t[1]
          /\ call'[w].by = t[2]
      BY <1>1, <2>1, <2>2, CallFacts DEF LoginCall
    <2>4. UNCHANGED <<tables, orderVars, relayVars>>
      BY <1>1 DEF LoginCall
    <2>5. QED
      BY <2>1, <2>3, <2>4 DEF Arrival, tables, orderVars, keyState
  <1>2. ASSUME NEW d \in Dids, NEW b \in Wallets, FollowCall(w, d, b), UNCHANGED <<orderVars, relayVars>>
        PROVE  Arrival(w)
    <2>1. "follow" \in Ops /\ b \in Args
      BY DEF Ops, Args
    <2>2. AuthenticatedCall(w, "follow", d, b) /\ UNCHANGED <<tables, orderVars, relayVars>>
      BY <1>2 DEF FollowCall
    <2>3. /\ Begins(w) /\ call'[w].op = "follow"
          /\ call'[w].by \in Wallets => call'[w].arg = b /\ call'[w].by \in Registered(d)
      BY <2>1, <2>2, AuthenticatedFacts
    <2>4. QED
      BY <2>2, <2>3 DEF Arrival, tables, orderVars, keyState, Registered
  <1>3. ASSUME NEW d \in Dids, NEW b \in Wallets, UnfollowCall(w, d, b), UNCHANGED <<orderVars, relayVars>>
        PROVE  Arrival(w)
    <2>1. "unfollow" \in Ops /\ b \in Args
      BY DEF Ops, Args
    <2>2. AuthenticatedCall(w, "unfollow", d, b) /\ UNCHANGED <<tables, orderVars, relayVars>>
      BY <1>3 DEF UnfollowCall
    <2>3. /\ Begins(w) /\ call'[w].op = "unfollow"
          /\ call'[w].by \in Wallets => call'[w].arg = b /\ call'[w].by \in Registered(d)
      BY <2>1, <2>2, AuthenticatedFacts
    <2>4. QED
      BY <2>2, <2>3 DEF Arrival, tables, orderVars, keyState, Registered
  <1>4. ASSUME NEW d \in Dids, NEW n \in Names, RenameCall(w, d, n), UNCHANGED <<orderVars, relayVars>>
        PROVE  Arrival(w)
    <2>1. "rename" \in Ops /\ n \in Args
      BY DEF Ops, Args
    <2>2. AuthenticatedCall(w, "rename", d, n) /\ UNCHANGED <<tables, orderVars, relayVars>>
      BY <1>4 DEF RenameCall
    <2>3. /\ Begins(w) /\ call'[w].op = "rename"
          /\ call'[w].by \in Wallets => call'[w].arg = n /\ call'[w].by \in Registered(d)
      BY <2>1, <2>2, AuthenticatedFacts
    <2>4. QED
      BY <2>2, <2>3 DEF Arrival, tables, orderVars, keyState, Registered
  <1>5. ASSUME NEW a \in Wallets, StoreCall(w, a), UNCHANGED relayVars
        PROVE  Arrival(w)
    <2>1. "store" \in Ops /\ None \in Args
      BY DEF Ops, Args
    <2>2. Begins(w) /\ call'[w].op = "store" /\ call'[w].by = a
      BY <1>5, <2>1, CallFacts DEF StoreCall
    <2>3. /\ UNCHANGED <<tables, clobKey, creds, key, paramState, orderState, relayVars>>
          /\ astray' = IF Storing(a) # {} THEN astray \cup {a} ELSE astray
      BY <1>5 DEF StoreCall
    <2>4. QED
      BY <2>2, <2>3 DEF Arrival, tables
  <1>6. ASSUME NEW d \in Dids, PrepareCall(w, d), UNCHANGED relayVars
        PROVE  Arrival(w)
    <2>1. "prepare" \in Ops /\ None \in Args
      BY DEF Ops, Args
    <2>2. AuthenticatedCall(w, "prepare", d, None) /\ UNCHANGED <<tables, orderVars, relayVars>>
      BY <1>6 DEF PrepareCall
    <2>3. /\ Begins(w) /\ call'[w].op = "prepare"
          /\ call'[w].by \in Wallets => call'[w].arg = None /\ call'[w].by \in Registered(d)
      BY <2>1, <2>2, AuthenticatedFacts
    <2>4. QED
      BY <2>2, <2>3 DEF Arrival, tables, orderVars, keyState, Registered
  <1>7. ASSUME NEW d \in Dids, NEW o \in Orders, SubmitCall(w, d, o), UNCHANGED relayVars
        PROVE  Arrival(w)
    <2>1. "submit" \in Ops /\ o \in Args
      BY DEF Ops, Args
    <2>2. AuthenticatedCall(w, "submit", d, o) /\ UNCHANGED <<tables, orderVars, relayVars>>
      BY <1>7 DEF SubmitCall
    <2>3. /\ Begins(w) /\ call'[w].op = "submit"
          /\ call'[w].by \in Wallets => call'[w].arg = o /\ call'[w].by \in Registered(d)
      BY <2>1, <2>2, AuthenticatedFacts
    <2>4. QED
      BY <2>2, <2>3 DEF Arrival, tables, orderVars, keyState, Registered
  <1>8. ASSUME NEW d \in Dids, NEW o \in Orders, CancelCall(w, d, o), UNCHANGED relayVars
        PROVE  Arrival(w)
    <2>1. "cancel" \in Ops /\ o \in Args
      BY DEF Ops, Args
    <2>2. AuthenticatedCall(w, "cancel", d, o) /\ UNCHANGED <<tables, orderVars, relayVars>>
      BY <1>8 DEF CancelCall
    <2>3. /\ Begins(w) /\ call'[w].op = "cancel"
          /\ call'[w].by \in Wallets => call'[w].arg = o /\ call'[w].by \in Registered(d)
      BY <2>1, <2>2, AuthenticatedFacts
    <2>4. QED
      BY <2>2, <2>3 DEF Arrival, tables, orderVars, keyState, Registered
  <1>9. ASSUME NEW a \in Wallets, DeployCall(w, a), UNCHANGED orderVars
        PROVE  Arrival(w)
    <2>1. "deploy" \in Ops /\ None \in Args
      BY DEF Ops, Args
    <2>2. Begins(w) /\ call'[w].op = "deploy"
      BY <1>9, <2>1, CallFacts DEF DeployCall
    <2>3. UNCHANGED <<tables, orderVars, relayVars>>
      BY <1>9 DEF DeployCall
    <2>4. QED
      BY <2>2, <2>3 DEF Arrival, tables, orderVars, keyState
  <1>10. ASSUME NEW d \in Dids, NEW a \in Wallets, ApproveCall(w, d, a), UNCHANGED orderVars
        PROVE  Arrival(w)
    <2>1. "approve" \in Ops /\ a \in Args
      BY DEF Ops, Args
    <2>2. UNCHANGED <<tables, orderVars, relayVars>>
      BY <1>10 DEF ApproveCall
    <2>3. Begins(w) /\ call'[w].op = "approve"
      <3>1. CASE AuthenticatedCall(w, "approve", d, a)
        BY <2>1, <3>1, AuthenticatedFacts
      <3>2. CASE RefusedCall(w, "approve", d, "forbidden")
        BY <2>1, <3>2, RefusedFacts
      <3>3. QED
        BY <1>10, <3>1, <3>2 DEF ApproveCall
    <2>4. QED
      BY <2>2, <2>3 DEF Arrival, tables, orderVars, keyState
  <1>11. ASSUME NEW d \in Dids, StatusCall(w, d), UNCHANGED orderVars
        PROVE  Arrival(w)
    <2>1. "status" \in Ops /\ None \in Args
      BY DEF Ops, Args
    <2>2. AuthenticatedCall(w, "status", d, None) /\ UNCHANGED <<tables, orderVars, relayVars>>
      BY <1>11 DEF StatusCall
    <2>3. /\ Begins(w) /\ call'[w].op = "status"
          /\ call'[w].by \in Wallets => call'[w].arg = None /\ call'[w].by \in Registered(d)
      BY <2>1, <2>2, AuthenticatedFacts
    <2>4. QED
      BY <2>2, <2>3 DEF Arrival, tables, orderVars, keyState, Registered
  <1>12. QED
    BY <1>1, <1>2, <1>3, <1>4, <1>5, <1>6, <1>7, <1>8, <1>9, <1>10, <1>11 DEF Arrives

-----------------------------------------------------------------------------
(* The tables.                                                               *)

\* Rows of users are never deleted.
Grows == \A a \in Wallets : Exists(a) => Exists(a)'

LEMMA TablesKept ==
    ASSUME TablesInv, UNCHANGED <<users, accounts, follows, offered>>
    PROVE  TablesInv' /\ Grows
  BY DEF TablesInv, Grows, Exists

LEMMA FollowsWritten ==
    ASSUME TablesInv, follows' \subseteq Wallets \X Wallets,
           UNCHANGED <<users, accounts, offered>>
    PROVE  TablesInv' /\ Grows
  BY DEF TablesInv, Grows, Exists

LEMMA DidWritten ==
    ASSUME TablesInv, NEW a \in Wallets, NEW d \in Dids, Exists(a),
           \A b \in Wallets \ {a} : users[b].did # d,
           users' = [users EXCEPT ![a].did = d], UNCHANGED <<accounts, follows, offered>>
    PROVE  TablesInv' /\ Grows
  <1>1. users' \in [Wallets -> Rows]
    BY DEF TablesInv, Rows
  <1>2. /\ users'[a].did = d /\ users'[a].email = users[a].email
        /\ users'[a].name = users[a].name
        /\ \A b \in Wallets \ {a} : users'[b] = users[b]
    BY DEF TablesInv, Rows
  <1>3. users'[a] # NoUser
    BY <1>2, AccountConstantsAssumption DEF NoUser
  <1>4. Grows /\ \A b \in Wallets : Exists(b)' <=> Exists(b)
    BY <1>2, <1>3 DEF Grows, Exists
  <1>5. \A b, c \in Wallets : b # c =>
            /\ users'[b].did = users'[c].did => users'[b].did = None
            /\ users'[b].email = users'[c].email => users'[b].email = None
            /\ users'[b].name = users'[c].name => users'[b].name = None
    BY <1>2 DEF TablesInv
  <1>6. QED
    BY <1>1, <1>4, <1>5 DEF TablesInv

LEMMA NameWritten ==
    ASSUME TablesInv, NEW a \in Wallets, NEW n \in Names, Exists(a),
           \A b \in Wallets \ {a} : users[b].name # n,
           users' = [users EXCEPT ![a].name = n], UNCHANGED <<accounts, follows, offered>>
    PROVE  TablesInv' /\ Grows
  <1>1. users' \in [Wallets -> Rows]
    BY DEF TablesInv, Rows
  <1>2. /\ users'[a].name = n /\ users'[a].email = users[a].email
        /\ users'[a].did = users[a].did
        /\ \A b \in Wallets \ {a} : users'[b] = users[b]
    BY DEF TablesInv, Rows
  <1>3. users'[a] # NoUser
    BY <1>2, AccountConstantsAssumption DEF NoUser
  <1>4. Grows /\ \A b \in Wallets : Exists(b)' <=> Exists(b)
    BY <1>2, <1>3 DEF Grows, Exists
  <1>5. \A b, c \in Wallets : b # c =>
            /\ users'[b].did = users'[c].did => users'[b].did = None
            /\ users'[b].email = users'[c].email => users'[b].email = None
            /\ users'[b].name = users'[c].name => users'[b].name = None
    BY <1>2 DEF TablesInv
  <1>6. QED
    BY <1>1, <1>4, <1>5 DEF TablesInv

LEMMA RowInserted ==
    ASSUME TablesInv, NEW a \in Wallets, NEW d \in Dids, ~Exists(a),
           \A b \in Wallets : d \notin {users[b].did, users[b].email},
           users' = [users EXCEPT ![a] = User(d)],
           accounts' = [accounts EXCEPT ![a] = @ + 1], UNCHANGED <<follows, offered>>
    PROVE  TablesInv' /\ Grows /\ Exists(a)'
  <1>1. users' \in [Wallets -> Rows]
    BY DEF TablesInv, Rows, User
  <1>2. /\ users'[a].did = d /\ users'[a].email = d /\ users'[a].name = None
        /\ \A b \in Wallets \ {a} : users'[b] = users[b]
    BY DEF TablesInv, User
  <1>3. users'[a] # NoUser
    BY <1>2, AccountConstantsAssumption DEF NoUser
  <1>4. Grows /\ Exists(a)' /\ \A b \in Wallets \ {a} : Exists(b)' <=> Exists(b)
    BY <1>2, <1>3 DEF Grows, Exists
  <1>5. \A b, c \in Wallets : b # c =>
            /\ users'[b].did = users'[c].did => users'[b].did = None
            /\ users'[b].email = users'[c].email => users'[b].email = None
            /\ users'[b].name = users'[c].name => users'[b].name = None
    BY <1>2 DEF TablesInv
  <1>6. /\ accounts' \in [Wallets -> {0, 1}] /\ accounts'[a] = 1
        /\ \A b \in Wallets \ {a} : accounts'[b] = accounts[b]
    BY DEF TablesInv
  <1>7. QED
    BY <1>1, <1>4, <1>5, <1>6 DEF TablesInv

-----------------------------------------------------------------------------
(* The calls.                                                                *)

\* The calls of the others differ at most in their row, which somebody deleted.
OthersAlike(w) ==
    \A v \in Workers \ {w} :
        /\ call'[v].op = call[v].op /\ call'[v].did = call[v].did
        /\ call'[v].by = call[v].by /\ call'[v].arg = call[v].arg
        /\ call'[v].step = call[v].step /\ call'[v].answer = call[v].answer

LEMMA OthersOK ==
    ASSUME CallInv, TablesInv, TablesInv', Grows, NEW w \in Workers, OthersAlike(w),
           NEW v \in Workers \ {w}
    PROVE  CallOK(v)'
  <1>1. CallOK(v)
    BY DEF CallInv
  <1>2. \A a \in Wallets : accounts[a] = 1 => accounts'[a] = 1
    BY DEF TablesInv, Grows
  <1>3. /\ call'[v].op = call[v].op /\ call'[v].did = call[v].did
        /\ call'[v].by = call[v].by /\ call'[v].arg = call[v].arg
        /\ call'[v].step = call[v].step /\ call'[v].answer = call[v].answer
    BY DEF OthersAlike
  <1>4. call[v].answer = "new" => call[v].step = "done"
    BY <1>1 DEF CallOK
  <1>5. QED
    BY <1>1, <1>2, <1>3, <1>4 DEF CallOK, Grows

LEMMA ReplyOK ==
    ASSUME CallInv, TablesInv, TablesInv', Grows, NEW w \in Workers,
           NEW answer \in Answers \ {"none"}, NEW hurt \in BOOLEAN, Reply(w, answer, hurt),
           call[w].op = "login" /\ answer = "new" => users'[call[w].by] # NoUser
    PROVE  CallInv'
  <1>1. /\ Continues(w)
        /\ call'[w].step = "done" /\ call'[w].answer = answer
    BY ReplyFacts DEF CallInv
  <1>2. CallOK(w)'
    <2>1. CallOK(w)
      BY DEF CallInv
    <2>2. QED
      BY <1>1, <2>1 DEF CallOK, Continues, Grows, Exists
  <1>3. \A v \in Workers \ {w} : CallOK(v)'
    BY <1>1, OthersOK DEF Continues, OthersKept, OthersAlike
  <1>4. QED
    BY <1>1, <1>2, <1>3 DEF CallInv, Continues, Typed

LEMMA MoveOK ==
    ASSUME CallInv, TablesInv, TablesInv', Grows, NEW w \in Workers,
           NEW step \in Steps \ {"idle", "done"}, NEW row \in BOOLEAN, Move(w, step, row),
           call[w].step \notin {"idle", "done"},
           call[w].op = "login" /\ step = "backfill" => users'[call[w].by] # NoUser,
           call[w].op = "store" /\ step = "commit" => accounts'[call[w].by] = 1
    PROVE  CallInv'
  <1>1. /\ Continues(w)
        /\ call'[w].step = step /\ call'[w].answer = call[w].answer
    BY MoveFacts DEF CallInv
  <1>2. CallOK(w)'
    <2>1. CallOK(w)
      BY DEF CallInv
    <2>2. QED
      BY <1>1, <2>1 DEF CallOK, Continues, Grows, Exists
  <1>3. \A v \in Workers \ {w} : CallOK(v)'
    BY <1>1, OthersOK DEF Continues, OthersKept, OthersAlike
  <1>4. QED
    BY <1>1, <1>2, <1>3 DEF CallInv, Continues, Typed

\* A call that answers, or moves on, and leaves the tables alone.
LEMMA ReadOnlyReply ==
    ASSUME CallInv, TablesInv, UNCHANGED <<users, accounts, follows, offered>>,
           NEW w \in Workers, NEW answer \in Answers \ {"none", "new"},
           NEW hurt \in BOOLEAN, Reply(w, answer, hurt)
    PROVE  TablesInv' /\ Grows /\ CallInv'
  BY TablesKept, ReplyOK

LEMMA ReadOnlyMove ==
    ASSUME CallInv, TablesInv, UNCHANGED <<users, accounts, follows, offered>>,
           NEW w \in Workers, NEW step \in Steps \ {"idle", "done"}, NEW row \in BOOLEAN,
           Move(w, step, row), call[w].step \notin {"idle", "done"},
           call[w].op = "login" /\ step = "backfill" => Exists(call[w].by),
           call[w].op = "store" /\ step = "commit" => accounts[call[w].by] = 1
    PROVE  TablesInv' /\ Grows /\ CallInv'
  <1>1. call[w].by \in Wallets
    BY DEF CallInv, CallOK
  <1>2. TablesInv' /\ Grows /\ accounts' = accounts
    BY TablesKept
  <1>3. call[w].op = "login" /\ step = "backfill" => users'[call[w].by] # NoUser
    BY <1>1 DEF Exists
  <1>4. QED
    BY <1>1, <1>2, <1>3, MoveOK

LEMMA LoginFindInv ==
    ASSUME TablesInv, CallInv, UNCHANGED offered, NEW w \in Workers, LoginFind(w)
    PROVE  TablesInv' /\ Grows /\ CallInv'
  <1>1. /\ call[w].op = "login" /\ call[w].step = "find"
        /\ UNCHANGED <<users, accounts, follows, offered>>
    BY DEF LoginFind, Is, tables
  <1>2. CASE Move(w, "insert", FALSE)
    BY <1>1, <1>2, ReadOnlyMove DEF Steps
  <1>3. CASE Exists(call[w].by) /\ Move(w, "backfill", FALSE)
    BY <1>1, <1>3, ReadOnlyMove DEF Steps
  <1>4. CASE Reply(w, "old", FALSE)
    BY <1>1, <1>4, ReadOnlyReply DEF Answers
  <1>5. QED
    BY <1>2, <1>3, <1>4 DEF LoginFind

LEMMA LoginBackfillInv ==
    ASSUME TablesInv, CallInv, UNCHANGED offered, NEW w \in Workers, NEW o,
           LoginBackfill(w, o)
    PROVE  TablesInv' /\ Grows /\ CallInv'
  <1>1. /\ call[w].op = "login" /\ call[w].step = "backfill"
        /\ UNCHANGED <<accounts, follows, offered>>
    BY DEF LoginBackfill, Is
  <1>2. call[w].by \in Wallets /\ call[w].did \in Dids /\ Exists(call[w].by)
    BY <1>1 DEF CallInv, CallOK
  <1>3. TablesInv' /\ Grows
    <2>1. CASE users' = users
      BY <1>1, <2>1, TablesKept
    <2>2. CASE /\ \A b \in Wallets \ {call[w].by} : users[b].did # call[w].did
               /\ users' = [users EXCEPT ![call[w].by].did = call[w].did]
      BY <1>1, <1>2, <2>2, DidWritten
    <2>3. QED
      BY <2>1, <2>2 DEF LoginBackfill
  <1>4. PICK answer \in {"old", "error"}, hurt \in BOOLEAN : Reply(w, answer, hurt)
    BY DEF LoginBackfill
  <1>5. QED
    BY <1>3, <1>4, ReplyOK DEF Answers

LEMMA LoginInsertInv ==
    ASSUME TablesInv, CallInv, UNCHANGED offered, NEW w \in Workers, NEW o,
           LoginInsert(w, o)
    PROVE  TablesInv' /\ Grows /\ CallInv'
  <1>1. /\ call[w].op = "login" /\ call[w].step = "insert"
        /\ UNCHANGED <<follows, offered>>
    BY DEF LoginInsert, Is
  <1>2. call[w].by \in Wallets /\ call[w].did \in Dids
    BY <1>1 DEF CallInv, CallOK
  <1> DEFINE conflict == \/ Exists(call[w].by)
                         \/ \E b \in Wallets : call[w].did \in {users[b].did, users[b].email}
             written == Took(o) /\ ~conflict
  <1>3. TablesInv' /\ Grows /\ (written => users'[call[w].by] # NoUser)
    <2>1. CASE ~written
      BY <1>1, <2>1, TablesKept DEF LoginInsert
    <2>2. CASE written
      <3>1. /\ ~Exists(call[w].by)
            /\ \A b \in Wallets : call[w].did \notin {users[b].did, users[b].email}
        BY <2>2
      <3>2. /\ users' = [users EXCEPT ![call[w].by] = User(call[w].did)]
            /\ accounts' = [accounts EXCEPT ![call[w].by] = @ + 1]
        BY <2>2 DEF LoginInsert
      <3>3. QED
        BY <1>1, <1>2, <3>1, <3>2, RowInserted DEF Exists
    <2>3. QED
      BY <2>1, <2>2
  <1>4. PICK answer \in {"new", "error"}, hurt \in BOOLEAN :
            Reply(w, answer, hurt) /\ (answer = "new" => written)
    <2>1. Reply(w, IF written /\ o = "ok" THEN "new" ELSE "error", o # "ok")
      BY DEF LoginInsert
    <2>2. QED
      BY <2>1
  <1>5. QED
    BY <1>3, <1>4, ReplyOK DEF Answers

LEMMA FollowFindInv ==
    ASSUME TablesInv, CallInv, UNCHANGED offered, NEW w \in Workers, FollowFind(w)
    PROVE  TablesInv' /\ Grows /\ CallInv'
  <1>1. /\ call[w].op = "follow" /\ call[w].step = "find"
        /\ UNCHANGED <<users, accounts, follows, offered>>
    BY DEF FollowFind, Is, tables
  <1>2. CASE Move(w, "commit", FALSE)
    BY <1>1, <1>2, ReadOnlyMove DEF Steps
  <1>3. CASE \E answer \in {"self", "unknown", "already"} : Reply(w, answer, FALSE)
    BY <1>1, <1>3, ReadOnlyReply DEF Answers
  <1>4. QED
    BY <1>2, <1>3 DEF FollowFind

LEMMA FollowCommitInv ==
    ASSUME TablesInv, CallInv, UNCHANGED offered, NEW w \in Workers, NEW o,
           FollowCommit(w, o)
    PROVE  TablesInv' /\ Grows /\ CallInv'
  <1>1. /\ call[w].op = "follow" /\ call[w].step = "commit"
        /\ UNCHANGED <<users, accounts, offered>>
    BY DEF FollowCommit, Is
  <1>2. call[w].by \in Wallets /\ call[w].arg \in Wallets
    BY <1>1 DEF CallInv, CallOK
  <1>3. TablesInv' /\ Grows
    <2>1. follows' \subseteq Wallets \X Wallets
      BY <1>2 DEF FollowCommit, Edge, TablesInv
    <2>2. QED
      BY <1>1, <2>1, FollowsWritten
  <1>4. PICK answer \in {"following", "already"}, hurt \in BOOLEAN : Reply(w, answer, hurt)
    BY DEF FollowCommit
  <1>5. QED
    BY <1>3, <1>4, ReplyOK DEF Answers

LEMMA UnfollowFindInv ==
    ASSUME TablesInv, CallInv, UNCHANGED offered, NEW w \in Workers, UnfollowFind(w)
    PROVE  TablesInv' /\ Grows /\ CallInv'
  <1>1. /\ call[w].op = "unfollow" /\ call[w].step = "find"
        /\ UNCHANGED <<users, accounts, follows, offered>>
    BY DEF UnfollowFind, Is, tables
  <1>2. CASE Move(w, "commit", TRUE)
    BY <1>1, <1>2, ReadOnlyMove DEF Steps
  <1>3. CASE Reply(w, "absent", FALSE)
    BY <1>1, <1>3, ReadOnlyReply DEF Answers
  <1>4. QED
    BY <1>2, <1>3 DEF UnfollowFind

LEMMA RenameFindInv ==
    ASSUME TablesInv, CallInv, UNCHANGED offered, NEW w \in Workers, RenameFind(w)
    PROVE  TablesInv' /\ Grows /\ CallInv'
  <1>1. /\ call[w].op = "rename" /\ call[w].step = "find"
        /\ UNCHANGED <<users, accounts, follows, offered>>
    BY DEF RenameFind, Is, tables
  <1>2. CASE Move(w, "commit", users[call[w].by].name = call[w].arg)
    <2>1. (users[call[w].by].name = call[w].arg) \in BOOLEAN
      OBVIOUS
    <2>2. QED
      BY <1>1, <1>2, <2>1, ReadOnlyMove DEF Steps
  <1>3. CASE Reply(w, "taken", FALSE)
    BY <1>1, <1>3, ReadOnlyReply DEF Answers
  <1>4. QED
    BY <1>2, <1>3 DEF RenameFind

LEMMA RenameCommitInv ==
    ASSUME TablesInv, CallInv, UNCHANGED offered, NEW w \in Workers, NEW o,
           RenameCommit(w, o)
    PROVE  TablesInv' /\ Grows /\ CallInv'
  <1>1. /\ call[w].op = "rename" /\ call[w].step = "commit"
        /\ UNCHANGED <<accounts, follows, offered>>
    BY DEF RenameCommit, Is
  <1>2. call[w].by \in Wallets /\ call[w].arg \in Names /\ Exists(call[w].by)
    BY <1>1 DEF CallInv, CallOK
  <1>3. TablesInv' /\ Grows
    <2>1. CASE users' = users
      BY <1>1, <2>1, TablesKept
    <2>2. CASE /\ ~call[w].row
               /\ ~(~call[w].row /\ Holders(call[w].arg) \ {call[w].by} # {})
               /\ users' = [users EXCEPT ![call[w].by].name = call[w].arg]
      <3>1. \A b \in Wallets \ {call[w].by} : users[b].name # call[w].arg
        BY <2>2 DEF Holders
      <3>2. QED
        BY <1>1, <1>2, <2>2, <3>1, NameWritten
    <2>3. QED
      BY <2>1, <2>2 DEF RenameCommit
  <1>4. PICK answer \in {"renamed", "error"}, hurt \in BOOLEAN : Reply(w, answer, hurt)
    BY DEF RenameCommit
  <1>5. QED
    BY <1>3, <1>4, ReplyOK DEF Answers

\* What a deletion does to the calls: the one that commits is answered, the
\* overlapping ones lose their row.
LEMMA UnfollowFacts ==
    ASSUME call \in [Workers -> Request], NEW w \in Workers, NEW o, UnfollowCommit(w, o)
    PROVE  /\ Typed /\ OthersAlike(w)
           /\ call'[w].op = call[w].op /\ call'[w].did = call[w].did
           /\ call'[w].by = call[w].by /\ call'[w].arg = call[w].arg
           /\ call'[w].step = "done"
           /\ call'[w].answer = IF o = "ok" THEN "unfollowed" ELSE "error"
           /\ \A v \in Workers \ {w} :
                \/ call'[v] = call[v]
                \/ /\ Took(o) /\ call[w].row
                   /\ Is(v, "unfollow", "commit") /\ Edge(v) = Edge(w)
                   /\ call'[v].row = FALSE
  <1> DEFINE answered == [call[w] EXCEPT !.step = "done", !.hurt = (o # "ok"),
                              !.answer = IF o = "ok" THEN "unfollowed" ELSE "error"]
             robbed(v) == [call[v] EXCEPT !.row = FALSE]
             hit(v) == /\ Took(o) /\ call[w].row
                       /\ Is(v, "unfollow", "commit") /\ Edge(v) = Edge(w)
  <1>1. call' = [v \in Workers |-> IF v = w THEN answered
                                   ELSE IF hit(v) THEN robbed(v) ELSE call[v]]
    BY DEF UnfollowCommit
  <1>2. /\ answered \in Request
        /\ answered.op = call[w].op /\ answered.did = call[w].did
        /\ answered.by = call[w].by /\ answered.arg = call[w].arg
        /\ answered.step = "done"
        /\ answered.answer = IF o = "ok" THEN "unfollowed" ELSE "error"
    <2>1. call[w] \in Request /\ (o # "ok") \in BOOLEAN
          /\ (IF o = "ok" THEN "unfollowed" ELSE "error") \in Answers
      BY DEF Answers
    <2>2. answered \in Request
      BY <2>1 DEF Request, Steps
    <2>3. QED
      BY <2>1, <2>2 DEF Request
  <1>3. \A v \in Workers :
            /\ robbed(v) \in Request
            /\ robbed(v).op = call[v].op /\ robbed(v).did = call[v].did
            /\ robbed(v).by = call[v].by /\ robbed(v).arg = call[v].arg
            /\ robbed(v).step = call[v].step /\ robbed(v).answer = call[v].answer
            /\ robbed(v).row = FALSE
    <2> SUFFICES ASSUME NEW v \in Workers
                 PROVE  /\ robbed(v) \in Request
                        /\ robbed(v).op = call[v].op /\ robbed(v).did = call[v].did
                        /\ robbed(v).by = call[v].by /\ robbed(v).arg = call[v].arg
                        /\ robbed(v).step = call[v].step
                        /\ robbed(v).answer = call[v].answer
                        /\ robbed(v).row = FALSE
      OBVIOUS
    <2>1. call[v] \in Request
      OBVIOUS
    <2>2. QED
      BY <2>1 DEF Request
  <1> HIDE DEF answered, robbed, hit
  <1>4. Typed
    BY <1>1, <1>2, <1>3 DEF Typed
  <1>5. OthersAlike(w)
    BY <1>1, <1>3 DEF OthersAlike
  <1>6. call'[w] = answered
    BY <1>1
  <1>7. ASSUME NEW v \in Workers \ {w}
        PROVE  call'[v] = call[v] \/ (hit(v) /\ call'[v].row = FALSE)
    <2>1. CASE hit(v)
      BY <1>1, <1>3, <2>1
    <2>2. CASE ~hit(v)
      BY <1>1, <2>2
    <2>3. QED
      BY <2>1, <2>2
  <1>8. QED
    BY <1>2, <1>4, <1>5, <1>6, <1>7 DEF hit

LEMMA UnfollowCommitInv ==
    ASSUME TablesInv, CallInv, UNCHANGED offered, NEW w \in Workers, NEW o,
           UnfollowCommit(w, o)
    PROVE  TablesInv' /\ Grows /\ CallInv'
  <1>1. /\ call[w].op = "unfollow" /\ call[w].step = "commit"
        /\ UNCHANGED <<users, accounts, offered>>
    BY DEF UnfollowCommit, Is
  <1>2. TablesInv' /\ Grows
    <2>1. follows' \subseteq Wallets \X Wallets
      BY DEF UnfollowCommit, TablesInv
    <2>2. QED
      BY <1>1, <2>1, FollowsWritten
  <1>3. /\ Typed /\ OthersAlike(w)
        /\ call'[w].op = call[w].op /\ call'[w].did = call[w].did
        /\ call'[w].by = call[w].by /\ call'[w].arg = call[w].arg
        /\ call'[w].step = "done" /\ call'[w].answer \in {"unfollowed", "error"}
    BY UnfollowFacts DEF CallInv
  <1>4. CallOK(w)'
    <2>1. CallOK(w)
      BY DEF CallInv
    <2>2. QED
      BY <1>1, <1>3, <2>1 DEF CallOK
  <1>5. \A v \in Workers \ {w} : CallOK(v)'
    BY <1>2, <1>3, OthersOK
  <1>6. QED
    BY <1>2, <1>3, <1>4, <1>5 DEF CallInv, Typed

LEMMA AccountStepsInv ==
    ASSUME TablesInv, CallInv, UNCHANGED offered, NEW w \in Workers, AccountSteps(w)
    PROVE  TablesInv' /\ Grows /\ CallInv'
  BY LoginFindInv, FollowFindInv, UnfollowFindInv, RenameFindInv, LoginBackfillInv,
     LoginInsertInv, FollowCommitInv, UnfollowCommitInv, RenameCommitInv DEF AccountSteps

LEMMA ArrivalInv ==
    ASSUME TablesInv, CallInv, UNCHANGED offered, NEW w \in Workers, Arrival(w)
    PROVE  TablesInv' /\ Grows /\ CallInv'
  <1>1. TablesInv' /\ Grows
    BY TablesKept DEF Arrival
  <1>2. /\ Typed /\ OthersKept(w)
        /\ \/ /\ call'[w].step = "find" /\ call'[w].answer = "none"
              /\ call'[w].by \in Wallets
           \/ /\ call'[w].step = "done" /\ call'[w].answer \in {"unregistered", "forbidden"}
              /\ call'[w].by = None
    BY DEF Arrival, Begins
  <1>3. CallOK(w)'
    <2>1. /\ call'[w].op = "login" => call'[w].did \in Dids /\ call'[w].by \in Wallets
          /\ call'[w].by \in Wallets =>
                /\ call'[w].op = "rename" => /\ users'[call'[w].by] # NoUser
                                             /\ call'[w].arg \in Names
                /\ call'[w].op \in {"follow", "unfollow"} => call'[w].arg \in Wallets
                /\ call'[w].op \in {"submit", "cancel"} => call'[w].arg \in Orders
      BY DEF Arrival, Exists
    <2>2. None \notin Wallets
      BY AccountConstantsAssumption
    <2>3. QED
      BY <1>2, <2>1, <2>2 DEF CallOK, Exists
  <1>4. \A v \in Workers \ {w} : CallOK(v)'
    BY <1>1, <1>2, OthersOK DEF OthersKept, OthersAlike
  <1>5. QED
    BY <1>1, <1>2, <1>3, <1>4 DEF CallInv, Typed

LEMMA ReturnInv ==
    ASSUME TablesInv, CallInv, UNCHANGED offered, NEW w \in Workers, Return(w)
    PROVE  TablesInv' /\ Grows /\ CallInv' /\ OthersKept(w) /\ call'[w] = Idle
  <1>1. TablesInv' /\ Grows
    BY TablesKept DEF Return, tables
  <1>2. /\ call' = [v \in Workers |-> call'[v]]
        /\ OthersKept(w) /\ call'[w] = Idle
    BY DEF Return, CallInv, OthersKept
  <1>3. Idle \in Request
    BY DEF Idle, Request, Steps, Answers, Args
  <1>4. Typed
    BY <1>2, <1>3 DEF Typed, OthersKept, CallInv
  <1>5. CallOK(w)'
    BY <1>2 DEF CallOK, Idle
  <1>6. \A v \in Workers \ {w} : CallOK(v)'
    BY <1>1, <1>2, OthersOK DEF OthersKept, OthersAlike
  <1>7. QED
    BY <1>1, <1>2, <1>4, <1>5, <1>6 DEF CallInv, Typed

\* The steps of a call that leave the tables alone: it asks others, and answers.
OrderOps == {"store", "prepare", "submit", "cancel"}
RelayOps == {"approve", "deploy", "status"}

Handles(w, ops) ==
    /\ call[w].op \in ops
    /\ UNCHANGED <<users, accounts, follows>>
    /\ \/ UNCHANGED call
       \/ \E answer \in Answers \ {"none", "new"}, hurt \in BOOLEAN : Reply(w, answer, hurt)
       \/ /\ call[w].step \notin {"idle", "done"}
          /\ \E step \in IF call[w].op = "store" THEN {"select", "create"}
                       ELSE {"request", "poll"} : Move(w, step, FALSE)
       \/ /\ call[w].op = "store" /\ call[w].step = "select"
          /\ accounts[call[w].by] = 1
          /\ Move(w, "commit", FALSE)

LEMMA OrderStepsHandle ==
    ASSUME NEW w \in Workers, OrderSteps(w)
    PROVE  Handles(w, OrderOps)
  <1>1. CASE StoreDerive(w)
    <2>1. call[w].op = "store" /\ call[w].step = "find" /\ UNCHANGED <<users, accounts, follows>>
      BY <1>1 DEF StoreDerive, Is, tables
    <2>2. \/ \E step \in {"select", "create"} : Move(w, step, FALSE)
          \/ Reply(w, "error", TRUE)
      BY <1>1 DEF StoreDerive
    <2>3. QED
      BY <2>1, <2>2 DEF Handles, OrderOps, Answers
  <1>2. CASE StoreCreate(w)
    <2>1. call[w].op = "store" /\ call[w].step = "create" /\ UNCHANGED <<users, accounts, follows>>
      BY <1>2 DEF StoreCreate, Is, tables
    <2>2. \/ Move(w, "select", FALSE)
          \/ \E hurt \in BOOLEAN : Reply(w, "error", hurt)
      BY <1>2 DEF StoreCreate
    <2>3. QED
      BY <2>1, <2>2 DEF Handles, OrderOps, Answers
  <1>3. CASE StoreSelect(w)
    <2>1. call[w].op = "store" /\ call[w].step = "select" /\ UNCHANGED <<users, accounts, follows>>
      BY <1>3 DEF StoreSelect, Is, tables
    <2>2. \/ accounts[call[w].by] = 1 /\ Move(w, "commit", FALSE)
          \/ Reply(w, "noaccount", FALSE)
      BY <1>3 DEF StoreSelect
    <2>3. QED
      BY <2>1, <2>2 DEF Handles, OrderOps, Answers
  <1>4. ASSUME NEW o \in Outcomes, StoreCommit(w, o)
        PROVE  Handles(w, OrderOps)
    <2>1. call[w].op = "store" /\ UNCHANGED <<users, accounts, follows>>
      BY <1>4 DEF StoreCommit, Is, tables
    <2>2. \E answer \in {"stored", "error"}, hurt \in BOOLEAN : Reply(w, answer, hurt)
      BY <1>4 DEF StoreCommit
    <2>3. QED
      BY <2>1, <2>2 DEF Handles, OrderOps, Answers
  <1>5. ASSUME NEW p \in Params, FetchHit(w, p) \/ FetchAsk(w, p) \/ FetchStore(w, p)
        PROVE  Handles(w, OrderOps)
    BY <1>5 DEF FetchHit, FetchAsk, FetchStore, Running, Gathering, Is, Handles, OrderOps, tables
  <1>6. ASSUME NEW p \in Params, FetchFails(w, p)
        PROVE  Handles(w, OrderOps)
    <2>1. call[w].op = "prepare" /\ UNCHANGED <<users, accounts, follows>>
      BY <1>6 DEF FetchFails, Running, Gathering, Is, tables
    <2>2. Reply(w, "error", TRUE)
      BY <1>6 DEF FetchFails
    <2>3. QED
      BY <2>1, <2>2 DEF Handles, OrderOps, Answers
  <1>7. ASSUME NEW price \in Prices, NEW size \in Sizes, PrepareBuild(w, price, size)
        PROVE  Handles(w, OrderOps)
    <2>1. call[w].op = "prepare" /\ UNCHANGED <<users, accounts, follows>>
      BY <1>7 DEF PrepareBuild, Gathering, Is, tables
    <2>2. \E answer \in {"badtick", "misfit", "prepared"} : Reply(w, answer, FALSE)
      BY <1>7 DEF PrepareBuild
    <2>3. QED
      BY <2>1, <2>2 DEF Handles, OrderOps, Answers
  <1>8. CASE LoadKey(w)
    <2>1. /\ call[w].op \in {"submit", "cancel"} /\ call[w].step = "find"
          /\ UNCHANGED <<users, accounts, follows>>
      BY <1>8 DEF LoadKey, Is, tables
    <2>2. \/ Move(w, "request", FALSE)
          \/ \E answer \in {"rejected", "noaccount"} : Reply(w, answer, FALSE)
      BY <1>8 DEF LoadKey
    <2>3. QED
      BY <2>1, <2>2 DEF Handles, OrderOps, Answers
  <1>9. ASSUME NEW r, SubmitRequest(w, r)
        PROVE  Handles(w, OrderOps)
    <2>1. call[w].op = "submit" /\ UNCHANGED <<users, accounts, follows>>
      BY <1>9 DEF SubmitRequest, Is, tables
    <2>2. \E answer \in {"placed", "error", "rejected"}, hurt \in BOOLEAN : Reply(w, answer, hurt)
      BY <1>9 DEF SubmitRequest, SubmitReply
    <2>3. QED
      BY <2>1, <2>2 DEF Handles, OrderOps, Answers
  <1>10. CASE CancelRequest(w)
    <2>1. call[w].op = "cancel" /\ UNCHANGED <<users, accounts, follows>>
      BY <1>10 DEF CancelRequest, Is, tables
    <2>2. \E answer \in {"cancelled", "error"}, hurt \in BOOLEAN : Reply(w, answer, hurt)
      BY <1>10 DEF CancelRequest
    <2>3. QED
      BY <2>1, <2>2 DEF Handles, OrderOps, Answers
  <1>11. QED
    BY <1>1, <1>2, <1>3, <1>4, <1>5, <1>6, <1>7, <1>8, <1>9, <1>10 DEF OrderSteps

LEMMA RelayStepsHandle ==
    ASSUME NEW w \in Workers, RelaySteps(w)
    PROVE  Handles(w, RelayOps)
  <1>1. CASE RelaySubmit(w)
    <2>1. call[w].op \in RelayOps /\ call[w].step = "find" /\ UNCHANGED <<users, accounts, follows>>
      BY <1>1 DEF RelaySubmit, Kinds, RelayOps, tables
    <2>2. \/ Move(w, "poll", FALSE)
          \/ \E answer \in {"unknown", "failed"}, hurt \in BOOLEAN : Reply(w, answer, hurt)
      BY <1>1 DEF RelaySubmit
    <2>3. QED
      BY <2>1, <2>2 DEF Handles, Answers, RelayOps
  <1>2. CASE RelayPoll(w)
    <2>1. call[w].op \in RelayOps /\ UNCHANGED <<users, accounts, follows>>
      BY <1>2 DEF RelayPoll, Kinds, RelayOps, tables
    <2>2. \/ UNCHANGED call
          \/ \E answer \in {"done", "unknown", "failed"} : Reply(w, answer, FALSE)
      BY <1>2 DEF RelayPoll
    <2>3. QED
      BY <2>1, <2>2 DEF Handles, Answers
  <1>3. CASE RelayPollFails(w)
    <2>1. call[w].op \in RelayOps /\ UNCHANGED <<users, accounts, follows>>
      BY <1>3 DEF RelayPollFails, Kinds, RelayOps, tables
    <2>2. \E answer \in {"unknown", "failed"} : Reply(w, answer, TRUE)
      BY <1>3 DEF RelayPollFails
    <2>3. QED
      BY <2>1, <2>2 DEF Handles, Answers
  <1>4. CASE StatusRead(w)
    <2>1. call[w].op \in RelayOps /\ UNCHANGED <<users, accounts, follows>>
      BY <1>4 DEF StatusRead, Is, RelayOps, tables
    <2>2. \E answer \in {"done", "missing"}, hurt \in BOOLEAN : Reply(w, answer, hurt)
      BY <1>4 DEF StatusRead
    <2>3. QED
      BY <2>1, <2>2 DEF Handles, Answers
  <1>5. QED
    BY <1>1, <1>2, <1>3, <1>4 DEF RelaySteps

LEMMA HandlesInv ==
    ASSUME TablesInv, CallInv, UNCHANGED offered, NEW w \in Workers, NEW ops,
           Handles(w, ops), "login" \notin ops
    PROVE  TablesInv' /\ Grows /\ CallInv'
  <1>1. UNCHANGED <<users, accounts, follows, offered>> /\ call[w].op # "login"
    BY DEF Handles
  <1>2. CASE UNCHANGED call
    BY <1>1, <1>2, TablesKept DEF CallInv, CallOK, Exists
  <1>3. CASE \E answer \in Answers \ {"none", "new"}, hurt \in BOOLEAN : Reply(w, answer, hurt)
    BY <1>1, <1>3, ReadOnlyReply
  <1>4. ASSUME NEW step \in {"select", "create", "request", "poll"}, Move(w, step, FALSE),
               call[w].step \notin {"idle", "done"}
        PROVE  TablesInv' /\ Grows /\ CallInv'
    BY <1>1, <1>4, ReadOnlyMove DEF Steps
  <1>5. CASE /\ call[w].op = "store" /\ call[w].step = "select"
             /\ accounts[call[w].by] = 1
             /\ Move(w, "commit", FALSE)
    BY <1>1, <1>5, ReadOnlyMove DEF Steps
  <1>6. QED
    BY <1>2, <1>3, <1>4, <1>5 DEF Handles

\* Every step leaves the tables and the calls in order.
LEMMA TablesCallsNext ==
    ASSUME TablesInv, CallInv, [Next]_vars
    PROVE  TablesInv' /\ Grows /\ CallInv'
  <1>1. CASE UNCHANGED vars
    BY <1>1, TablesKept DEF vars, tables, CallInv, CallOK, Exists
  <1>2. ASSUME NEW w \in Workers, Arrives(w), UNCHANGED offered
        PROVE  TablesInv' /\ Grows /\ CallInv'
    BY <1>2, ArrivalFacts, ArrivalInv
  <1>3. ASSUME NEW w \in Workers, AccountSteps(w), UNCHANGED offered
        PROVE  TablesInv' /\ Grows /\ CallInv'
    BY <1>3, AccountStepsInv
  <1>4. ASSUME NEW w \in Workers, OrderSteps(w), UNCHANGED offered
        PROVE  TablesInv' /\ Grows /\ CallInv'
    BY <1>4, OrderStepsHandle, HandlesInv DEF OrderOps
  <1>5. ASSUME NEW w \in Workers, RelaySteps(w), UNCHANGED offered
        PROVE  TablesInv' /\ Grows /\ CallInv'
    BY <1>5, RelayStepsHandle, HandlesInv DEF RelayOps
  <1>6. ASSUME NEW w \in Workers, Ends(w), UNCHANGED offered
        PROVE  TablesInv' /\ Grows /\ CallInv'
    BY <1>6, ReturnInv DEF Ends
  <1>7. ASSUME Outside, UNCHANGED offered
        PROVE  TablesInv' /\ Grows /\ CallInv'
    <2>1. UNCHANGED <<users, accounts, follows, call, offered>>
      BY <1>7 DEF Outside, ParamMoves, ExpireParam, JobMoves, LateJobMined, tables
    <2>2. QED
      BY <2>1, TablesKept DEF CallInv, CallOK, Exists
  <1>8. QED
    BY <1>1, <1>2, <1>3, <1>4, <1>5, <1>6, <1>7 DEF Next, Works

LEMMA TablesCallsInit ==
    ASSUME Init
    PROVE  TablesInv /\ CallInv
  <1>1. /\ offered \in Offers /\ users = offered.start /\ follows = {}
        /\ accounts = [a \in Wallets |-> IF users[a] = NoUser THEN 0 ELSE 1]
        /\ call = [w \in Workers |-> Idle]
    BY DEF Init, AccountInit
  <1>2. /\ users \in [Wallets -> Rows]
        /\ \A a, b \in Wallets : a # b =>
            \A field \in {"did", "email", "name"} :
                users[a][field] = users[b][field] => users[a][field] = None
    BY <1>1, OffersAssumption DEF Rows
  <1>3. Idle \in Request
    BY DEF Idle, Request, Steps, Answers, Args
  <1>4. TablesInv
    BY <1>1, <1>2 DEF TablesInv, Exists
  <1>5. CallInv
    BY <1>1, <1>3 DEF CallInv, CallOK, Idle
  <1>6. QED
    BY <1>4, <1>5

-----------------------------------------------------------------------------
(* The parameters of a market, in Redis and in the hands of prepare_order.   *)

FetchInv ==
    /\ param \in [Params -> Nat] /\ cache \in [Params -> Nat]
    /\ \A p \in Params : param[p] \in 1..MaxParam[p] /\ cache[p] \in 0..MaxParam[p]
    /\ quote \in [Workers -> [Params -> [at : {"none", "asked", "have", "failed"},
                                         val : Nat]]]
    /\ \A w \in Workers, p \in Params : quote[w][p].val <= MaxParam[p]

LEMMA FetchType ==
    ASSUME FetchInv, NEW w \in Workers, NEW p \in Params,
           NEW at \in {"none", "asked", "have", "failed"}, NEW val \in 0..MaxParam[p],
           Fetch(w, p, at, val)
    PROVE  /\ quote' \in [Workers -> [Params -> [at : {"none", "asked", "have", "failed"},
                                                val : Nat]]]
           /\ \A v \in Workers, q \in Params : quote'[v][q].val <= MaxParam[q]
  <1>1. MaxParam[p] \in Nat
    BY OrderConstantsAssumption
  <1>2. val \in Nat /\ val <= MaxParam[p]
    BY <1>1
  <1>3. quote' \in [Workers -> [Params -> [at : {"none", "asked", "have", "failed"},
                                          val : Nat]]]
    BY <1>2 DEF Fetch, FetchInv
  <1>4. /\ quote'[w][p] = [at |-> at, val |-> val]
        /\ \A v \in Workers, q \in Params :
            v # w \/ q # p => quote'[v][q] = quote[v][q]
    BY DEF Fetch, FetchInv
  <1>5. ASSUME NEW v \in Workers, NEW q \in Params
        PROVE  quote'[v][q].val <= MaxParam[q]
    <2>1. CASE v = w /\ q = p
      BY <1>2, <1>4, <2>1
    <2>2. CASE v # w \/ q # p
      <3>1. quote'[v][q] = quote[v][q]
        BY <1>4, <2>2
      <3>2. QED
        BY <3>1 DEF FetchInv
    <2>3. QED
      BY <2>1, <2>2
  <1>6. QED
    BY <1>3, <1>5

LEMMA FetchKept ==
    ASSUME FetchInv, UNCHANGED <<param, cache, quote>>
    PROVE  FetchInv'
  BY DEF FetchInv

LEMMA FetchNext ==
    ASSUME FetchInv, CallInv, TablesInv, [Next]_vars
    PROVE  FetchInv'
  <1>1. CASE UNCHANGED vars
    BY <1>1, FetchKept DEF vars, orderVars, paramState
  <1>2. ASSUME NEW w \in Workers, Arrives(w)
        PROVE  FetchInv'
    BY <1>2, ArrivalFacts, FetchKept DEF Arrival, paramState
  <1>3. ASSUME UNCHANGED orderVars
        PROVE  FetchInv'
    BY <1>3, FetchKept DEF orderVars, paramState
  <1>4. ASSUME NEW w \in Workers, OrderSteps(w)
        PROVE  FetchInv'
    <2>1. CASE UNCHANGED paramState
      BY <2>1, FetchKept DEF paramState
    <2>2. ASSUME NEW p \in Params, FetchHit(w, p)
          PROVE  FetchInv'
      <3>1. /\ Fetch(w, p, "have", cache[p]) /\ cache[p] \in 0..MaxParam[p]
            /\ UNCHANGED <<param, cache>>
        BY <2>2 DEF FetchHit, FetchInv
      <3>2. QED
        BY <3>1, FetchType DEF FetchInv
    <2>3. ASSUME NEW p \in Params, FetchAsk(w, p)
          PROVE  FetchInv'
      <3>1. /\ Fetch(w, p, "asked", param[p]) /\ param[p] \in 0..MaxParam[p]
            /\ UNCHANGED <<param, cache>>
        BY <2>3 DEF FetchAsk, FetchInv
      <3>2. QED
        BY <3>1, FetchType DEF FetchInv
    <2>4. ASSUME NEW p \in Params, FetchStore(w, p)
          PROVE  FetchInv'
      <3>1. /\ Fetch(w, p, "have", quote[w][p].val)
            /\ UNCHANGED param
            /\ cache' = [cache EXCEPT ![p] = quote[w][p].val]
        BY <2>4 DEF FetchStore
      <3>2. MaxParam[p] \in Nat /\ quote[w][p].val \in Nat /\ quote[w][p].val <= MaxParam[p]
        BY OrderConstantsAssumption DEF FetchInv
      <3>3. quote[w][p].val \in 0..MaxParam[p]
        BY <3>2
      <3>4. /\ quote' \in [Workers -> [Params -> [at : {"none", "asked", "have", "failed"},
                                                 val : Nat]]]
            /\ \A v \in Workers, q \in Params : quote'[v][q].val <= MaxParam[q]
        BY <3>1, <3>3, FetchType
      <3>5. cache' \in [Params -> Nat] /\ \A q \in Params : cache'[q] \in 0..MaxParam[q]
        BY <3>1, <3>2, <3>3 DEF FetchInv
      <3>6. QED
        BY <3>1, <3>4, <3>5 DEF FetchInv
    <2>5. ASSUME NEW p \in Params, FetchFails(w, p)
          PROVE  FetchInv'
      <3>1. Fetch(w, p, "failed", 0) /\ UNCHANGED <<param, cache>>
        BY <2>5 DEF FetchFails
      <3>2. 0 \in 0..MaxParam[p]
        BY OrderConstantsAssumption
      <3>3. QED
        BY <3>1, <3>2, FetchType DEF FetchInv
    <2>6. ASSUME NEW price \in Prices, NEW size \in Sizes, PrepareBuild(w, price, size)
          PROVE  FetchInv'
      BY <2>6, FetchKept DEF PrepareBuild
    <2>7. QED
      BY <1>4, <2>1, <2>2, <2>3, <2>4, <2>5, <2>6
      DEF OrderSteps, StoreDerive, StoreCreate, StoreSelect, StoreCommit, LoadKey,
          SubmitRequest, CancelRequest, orderVars
  <1>5. ASSUME NEW w \in Workers, Ends(w)
        PROVE  FetchInv'
    <2>1. UNCHANGED <<param, cache>> /\ quote' = [quote EXCEPT ![w] = NoFetch]
      BY <1>5 DEF Ends, OrderForget
    <2>2. \A p \in Params : 0 <= MaxParam[p]
      BY OrderConstantsAssumption
    <2>3. QED
      BY <2>1, <2>2 DEF FetchInv, NoFetch
  <1>6. ASSUME NEW p \in Params, ParamMoves(p)
        PROVE  FetchInv'
    <2>1. /\ UNCHANGED <<cache, quote>>
          /\ param[p] < MaxParam[p] /\ param' = [param EXCEPT ![p] = @ + 1]
      BY <1>6 DEF ParamMoves
    <2>2. MaxParam[p] \in Nat
      BY OrderConstantsAssumption
    <2>3. QED
      BY <2>1, <2>2 DEF FetchInv
  <1>7. ASSUME NEW p \in Params, ExpireParam(p)
        PROVE  FetchInv'
    <2>1. UNCHANGED <<param, quote>> /\ cache' = [cache EXCEPT ![p] = 0]
      BY <1>7 DEF ExpireParam
    <2>2. MaxParam[p] \in Nat
      BY OrderConstantsAssumption
    <2>3. QED
      BY <2>1, <2>2 DEF FetchInv
  <1>8. QED
    BY <1>1, <1>2, <1>3, <1>4, <1>5, <1>6, <1>7 DEF Next, Works, Outside

LEMMA FetchInit ==
    ASSUME Init
    PROVE  FetchInv
  <1>1. /\ param = [p \in Params |-> 1] /\ cache = [p \in Params |-> 0]
        /\ quote = [w \in Workers |-> NoFetch]
    BY DEF Init, OrderInit
  <1>2. \A p \in Params : MaxParam[p] \in Nat /\ MaxParam[p] >= 1
    BY OrderConstantsAssumption
  <1>3. QED
    BY <1>1, <1>2 DEF FetchInv, NoFetch

-----------------------------------------------------------------------------
(* The amounts of an order.                                                  *)

LEMMA Powers ==
    /\ Pow10(0) = 1 /\ Pow10(1) = 10 /\ Pow10(2) = 100
    /\ Pow10(3) = 1000 /\ Pow10(4) = 10000
  BY DEF Pow10

\* The rounding in two steps returns the product itself, whatever the noise, or one
\* unit less when the product is too large for the noise to be absorbed.
LEMMA RoundProductNear ==
    ASSUME NEW n \in Int, NEW e \in {-1, 0, 1}, NEW k \in {0, 1}
    PROVE  \/ RoundProduct(n, e, k) = n
           \/ RoundProduct(n, e, k) = n - 1 /\ n >= Absorbed
  <1>1. CASE ~Stays(n, e)
    BY <1>1 DEF RoundProduct
  <1>2. CASE Stays(n, e) /\ e = 1
    <2>1. (n * 10000 + 1 * k) \div 10000 = n
      OBVIOUS
    <2>2. QED
      BY <1>2, <2>1, Powers DEF RoundProduct
  <1>3. CASE e = -1 /\ n >= Absorbed
    <2>1. \/ (n * 10000 + (-1) * k) \div 10000 = n
          \/ (n * 10000 + (-1) * k) \div 10000 = n - 1
      <3>1. k = 0 \/ k = 1
        OBVIOUS
      <3>2. (n * 10000 + (-1) * 0) \div 10000 = n
        OBVIOUS
      <3>3. (n * 10000 + (-1) * 1) \div 10000 = n - 1
        OBVIOUS
      <3>4. QED
        BY <3>1, <3>2, <3>3
    <2>2. Stays(n, e)
      BY <1>3 DEF Stays
    <2>3. RoundProduct(n, e, k) = (n * Pow10(4) + e * k) \div Pow10(4)
      BY <2>2 DEF RoundProduct
    <2>4. QED
      BY <1>3, <2>1, <2>3, Powers
  <1>4. QED
    BY <1>1, <1>2, <1>3 DEF Stays

\* The rounding in one step loses a hundredth of a share at most.
LEMMA RoundSizeBounds ==
    ASSUME NEW s \in Nat, NEW e \in {-1, 0, 1}
    PROVE  /\ RoundSize(s, e) \in Int
           /\ RoundSize(s, e) * 10 <= s
           /\ s <= RoundSize(s, e) * 10 + 10
  BY DEF RoundSize

AmountsType == [dollars : Int, shares : Int, price : Int, decimals : 1..4, size : Nat]

Paid(q) == q.dollars * Pow10(q.decimals)

Exact(q) ==
    /\ \/ Paid(q) = q.shares * q.price
       \/ q.shares * q.price >= Absorbed * Pow10(4) /\ Paid(q) = q.shares * q.price - Pow10(4)
    /\ q.shares <= q.size * Pow10(3)
    /\ q.size * Pow10(3) <= q.shares + Pow10(4)

AmountsInv ==
    /\ amounts \in [Workers -> AmountsType]
    /\ \A w \in Workers : Exact(amounts[w])

LEMMA ProductShift ==
    ASSUME NEW a \in Int, NEW b \in Int
    PROVE  (a * 10000) * b = (a * b) * 10000
  OBVIOUS

LEMMA AmountsOfExact ==
    ASSUME NEW d \in 1..4, NEW price \in Int, NEW size \in Nat,
           NEW e1 \in {-1, 0, 1}, NEW e2 \in {-1, 0, 1}, NEW k \in {0, 1}
    PROVE  /\ AmountsOf(d, price, size, e1, e2, k) \in AmountsType
           /\ Exact(AmountsOf(d, price, size, e1, e2, k))
  <1> DEFINE shares == RoundSize(size, e1)
             q == AmountsOf(d, price, size, e1, e2, k)
  <1>1. shares \in Int /\ shares * 10 <= size /\ size <= shares * 10 + 10
    BY RoundSizeBounds
  <1>2. shares * price \in Int
    BY <1>1
  <1>3. PICK n \in Int : /\ n = RoundProduct(shares * price, e2, k)
                         /\ \/ n = shares * price
                            \/ n = shares * price - 1 /\ shares * price >= Absorbed
    BY <1>2, RoundProductNear
  <1>4. q = [dollars |-> n * Pow10(4 - d), shares |-> shares * Pow10(4),
             price |-> price, decimals |-> d, size |-> size]
    BY <1>3 DEF AmountsOf
  <1>5. /\ q.dollars = n * Pow10(4 - d) /\ q.shares = shares * 10000
        /\ q.price = price /\ q.decimals = d /\ q.size = size
    BY <1>4, Powers
  <1>6. Pow10(4 - d) * Pow10(d) = 10000 /\ Pow10(4 - d) \in Int /\ Pow10(d) \in Int
    <2>1. d = 1 \/ d = 2 \/ d = 3 \/ d = 4
      OBVIOUS
    <2>2. /\ 4 - 1 = 3 /\ 4 - 2 = 2 /\ 4 - 3 = 1 /\ 4 - 4 = 0
      OBVIOUS
    <2>3. QED
      BY <2>1, <2>2, Powers
  <1> HIDE DEF q, shares
  <1>7. \/ Paid(q) = q.shares * q.price
        \/ q.shares * q.price >= Absorbed * Pow10(4) /\ Paid(q) = q.shares * q.price - Pow10(4)
    <2>1. n * Pow10(4 - d) * Pow10(d) = n * (Pow10(4 - d) * Pow10(d))
      BY <1>3, <1>6
    <2>2. Paid(q) = n * 10000
      BY <1>5, <1>6, <2>1 DEF Paid
    <2>3. q.shares * q.price = (shares * price) * 10000
      BY <1>1, <1>5, ProductShift
    <2>4. \A m \in Int : (m - 1) * 10000 = m * 10000 - 10000
      OBVIOUS
    <2>5. \A m \in Int : m >= Absorbed => m * 10000 >= Absorbed * 10000
      BY OrderConstantsAssumption
    <2>6. QED
      BY <1>2, <1>3, <2>2, <2>3, <2>4, <2>5, Powers
  <1>8. q.shares <= q.size * Pow10(3) /\ q.size * Pow10(3) <= q.shares + Pow10(4)
    BY <1>1, <1>5, Powers
  <1>9. q \in AmountsType
    BY <1>1, <1>3, <1>4, <1>6, Powers DEF AmountsType
  <1>10. QED
    BY <1>7, <1>8, <1>9 DEF Exact, q

LEMMA AmountsKept ==
    ASSUME AmountsInv, UNCHANGED amounts
    PROVE  AmountsInv'
  BY DEF AmountsInv, Exact, Paid

LEMMA NoAmountsExact == NoAmounts \in AmountsType /\ Exact(NoAmounts)
  BY Powers DEF NoAmounts, AmountsType, Exact, Paid

LEMMA AmountsWritten ==
    ASSUME AmountsInv, NEW w \in Workers, NEW q \in AmountsType, Exact(q),
           amounts' = [amounts EXCEPT ![w] = q]
    PROVE  AmountsInv'
  <1>1. amounts' \in [Workers -> AmountsType]
    BY DEF AmountsInv
  <1>2. ASSUME NEW v \in Workers
        PROVE  Exact(amounts[v])'
    <2>1. amounts'[v] = IF v = w THEN q ELSE amounts[v]
      BY DEF AmountsInv
    <2>2. Exact(amounts'[v])
      BY <2>1 DEF AmountsInv
    <2>3. QED
      BY <2>2 DEF Exact, Paid
  <1>3. QED
    BY <1>1, <1>2 DEF AmountsInv

LEMMA AmountsNext ==
    ASSUME AmountsInv, FetchInv, CallInv, TablesInv, [Next]_vars
    PROVE  AmountsInv'
  <1>1. CASE UNCHANGED vars
    BY <1>1, AmountsKept DEF vars, orderVars, paramState
  <1>2. ASSUME NEW w \in Workers, Arrives(w)
        PROVE  AmountsInv'
    BY <1>2, ArrivalFacts, AmountsKept DEF Arrival, paramState
  <1>3. ASSUME UNCHANGED orderVars
        PROVE  AmountsInv'
    BY <1>3, AmountsKept DEF orderVars, paramState
  <1>4. ASSUME NEW w \in Workers, OrderSteps(w)
        PROVE  AmountsInv'
    <2>1. CASE UNCHANGED amounts
      BY <2>1, AmountsKept
    <2>2. ASSUME NEW price \in Prices, NEW size \in Sizes, PrepareBuild(w, price, size)
          PROVE  AmountsInv'
      <3> DEFINE d == quote[w]["tick"].val
                 unit == Pow10(MaxDecimals - d)
      <3>1. CASE UNCHANGED amounts
        BY <3>1, AmountsKept
      <3>2. ASSUME d \in KnownTicks, NEW e1 \in {-1, 0, 1}, NEW e2 \in {-1, 0, 1},
                   NEW k \in {0, 1},
                   amounts' = [amounts EXCEPT ![w] =
                                AmountsOf(d, price \div unit, size, e1, e2, k)]
            PROVE  AmountsInv'
        <4>1. /\ MaxDecimals \in 1..4 /\ d \in 1..MaxDecimals
              /\ price \in Nat /\ size \in Nat
          <5>1. size \in 0..MaxSize /\ MaxSize \in Nat /\ price \in Nat
            BY OrderConstantsAssumption
          <5>2. MaxDecimals \in 1..4 /\ d \in 1..MaxDecimals
            BY <3>2, OrderConstantsAssumption
          <5>3. QED
            BY <5>1, <5>2
        <4>2. d \in 1..4 /\ MaxDecimals - d \in 0..3
          BY <4>1
        <4> HIDE DEF d
        <4>3. unit \in Int /\ unit > 0
          <5>1. MaxDecimals - d \in {0, 1, 2, 3}
            BY <4>2
          <5>2. QED
            BY <5>1, Powers
        <4> HIDE DEF unit
        <4>4. price \div unit \in Int
          BY <4>1, <4>3
        <4>5. QED
          BY <3>2, <4>1, <4>2, <4>4, AmountsOfExact, AmountsWritten
      <3>3. QED
        BY <2>2, <3>1, <3>2 DEF PrepareBuild
    <2>3. QED
      BY <1>4, <2>1, <2>2
      DEF OrderSteps, StoreDerive, StoreCreate, StoreSelect, StoreCommit, LoadKey,
          SubmitRequest, CancelRequest, FetchHit, FetchAsk, FetchStore, FetchFails,
          orderVars, paramState
  <1>5. ASSUME NEW w \in Workers, Ends(w)
        PROVE  AmountsInv'
    <2>1. amounts' = [amounts EXCEPT ![w] = NoAmounts]
      BY <1>5 DEF Ends, OrderForget
    <2>2. QED
      BY <2>1, NoAmountsExact, AmountsWritten
  <1>6. ASSUME NEW p \in Params, ParamMoves(p) \/ ExpireParam(p)
        PROVE  AmountsInv'
    BY <1>6, AmountsKept DEF ParamMoves, ExpireParam
  <1>7. QED
    BY <1>1, <1>2, <1>3, <1>4, <1>5, <1>6 DEF Next, Works, Outside

LEMMA AmountsInit ==
    ASSUME Init
    PROVE  AmountsInv
  <1>1. amounts = [w \in Workers |-> NoAmounts]
    BY DEF Init, OrderInit
  <1>2. QED
    BY <1>1, NoAmountsExact DEF AmountsInv

-----------------------------------------------------------------------------
(* API keys.                                                                 *)

Stores(w) == call[w].op = "store" /\ call[w].step \notin {"idle", "done"}

\* The key in hand of a call that stores keys is the CLOB's, or the wallet has
\* gone astray; calls of one wallet overlap only then; a stored key that is not
\* the CLOB's is about to be replaced by a call that holds the CLOB's.
KeyTypes ==
    /\ clobKey \in [Wallets -> 0..MaxKeys] /\ creds \in [Wallets -> 0..MaxKeys]
    /\ key \in [Workers -> 0..MaxKeys] /\ astray \in SUBSET Wallets

KeyInv ==
    /\ KeyTypes
    /\ \A a \in Wallets : creds[a] # 0 => accounts[a] = 1 /\ clobKey[a] # 0
    /\ \A w \in Workers : call[w].step \in {"idle", "find", "create"} => key[w] = 0
    /\ \A v, w \in Workers : Stores(v) /\ Stores(w) /\ call[v].by = call[w].by /\ v # w
                             => call[v].by \in astray
    /\ \A w \in Workers : call[w].op = "store" /\ call[w].step \in {"select", "commit"}
                          => /\ key[w] # 0 /\ clobKey[call[w].by] # 0
                             /\ call[w].by \in astray \/ key[w] = clobKey[call[w].by]
    /\ \A a \in Wallets : creds[a] \notin {0, clobKey[a]} =>
            \/ a \in astray
            \/ \E w \in Workers : Stores(w) /\ call[w].by = a /\ key[w] = clobKey[a]

LEMMA KeyInvFollows ==
    ASSUME KeyInv
    PROVE  KeyFollows
  BY DEF KeyInv, KeyFollows, Storing, Stores

\* Steps that have nothing to do with keys.
LEMMA KeyKept ==
    ASSUME KeyInv, TablesInv, TablesInv', Grows, UNCHANGED keyState,
           \A v \in Workers :
                /\ call'[v].op = call[v].op /\ call'[v].by = call[v].by
                /\ \/ call'[v].step = call[v].step
                   \/ call[v].op # "store" /\ call'[v].step \notin {"idle", "find", "create"}
    PROVE  KeyInv'
  <1>1. \A a \in Wallets : accounts[a] = 1 => accounts'[a] = 1
    BY DEF TablesInv, Grows
  <1>2. \A v \in Workers : Stores(v)' <=> Stores(v)
    BY DEF Stores
  <1>3. KeyTypes' /\ clobKey' = clobKey /\ creds' = creds /\ key' = key /\ astray' = astray
    BY DEF KeyInv, KeyTypes, keyState
  <1>4. QED
    BY <1>1, <1>2, <1>3 DEF KeyInv

\* What a step of a call does to the steps of all calls.
NowAt(w, step) ==
    /\ call'[w].op = call[w].op /\ call'[w].by = call[w].by /\ call'[w].step = step
    /\ \A v \in Workers \ {w} : call'[v] = call[v]

LEMMA MoveNowAt ==
    ASSUME CallInv, NEW w \in Workers, NEW step \in Steps, NEW row \in BOOLEAN,
           Move(w, step, row)
    PROVE  NowAt(w, step)
  BY MoveFacts DEF CallInv, NowAt, Continues, OthersKept

LEMMA ReplyNowAt ==
    ASSUME CallInv, NEW w \in Workers, NEW answer \in Answers, NEW hurt \in BOOLEAN,
           Reply(w, answer, hurt)
    PROVE  NowAt(w, "done")
  BY ReplyFacts DEF CallInv, NowAt, Continues, OthersKept

LEMMA KeyArrival ==
    ASSUME KeyInv, TablesInv, CallInv, NEW w \in Workers, Arrival(w)
    PROVE  KeyInv'
  <1>1. /\ UNCHANGED <<accounts, clobKey, creds, key>>
        /\ astray' = IF call'[w].op = "store" /\ Storing(call'[w].by) # {}
                     THEN astray \cup {call'[w].by} ELSE astray
        /\ \A v \in Workers \ {w} : call'[v] = call[v]
        /\ call[w].step = "idle" /\ call'[w].step \in {"find", "done"}
        /\ call'[w].step = "find" => call'[w].by \in Wallets
    BY DEF Arrival, Begins, OthersKept
  <1>2. KeyTypes'
    <2>1. call'[w].op = "store" /\ Storing(call'[w].by) # {} => call'[w].by \in Wallets
      <3>1. \A v \in Storing(call'[w].by) : call'[w].by \in Wallets
        BY DEF Storing, CallInv, CallOK
      <3>2. QED
        BY <3>1
    <2>2. QED
      BY <1>1, <2>1 DEF KeyInv, KeyTypes
  <1>3. \A v \in Workers \ {w} : Stores(v)' <=> Stores(v)
    BY <1>1 DEF Stores
  <1>4. \A v \in Workers \ {w} :
            Stores(v) /\ call'[w].op = "store" /\ call[v].by = call'[w].by
               => call'[w].by \in astray'
    BY <1>1 DEF Storing, Stores
  <1>5. ~Stores(w)
    BY <1>1 DEF Stores
  <1>6. \A v \in Workers : call'[v].step \in {"idle", "find", "create"} => key'[v] = 0
    BY <1>1 DEF KeyInv
  <1>7. ASSUME NEW v \in Workers, NEW u \in Workers, Stores(v)', Stores(u)',
               call'[v].by = call'[u].by, v # u
        PROVE  call'[v].by \in astray'
    BY <1>1, <1>3, <1>4, <1>7 DEF KeyInv, Stores
  <1>8. \A v \in Workers : call'[v].op = "store" /\ call'[v].step \in {"select", "commit"}
            => /\ key'[v] # 0 /\ clobKey'[call'[v].by] # 0
               /\ call'[v].by \in astray' \/ key'[v] = clobKey'[call'[v].by]
    BY <1>1 DEF KeyInv
  <1>9. ASSUME NEW a \in Wallets, creds'[a] \notin {0, clobKey'[a]}
        PROVE  \/ a \in astray'
               \/ \E v \in Workers : Stores(v)' /\ call'[v].by = a /\ key'[v] = clobKey'[a]
    BY <1>1, <1>3, <1>5, <1>9 DEF KeyInv
  <1>10. QED
    BY <1>1, <1>2, <1>6, <1>7, <1>8, <1>9 DEF KeyInv

LEMMA KeyStoreDerive ==
    ASSUME KeyInv, TablesInv, CallInv, NEW w \in Workers, StoreDerive(w)
    PROVE  KeyInv'
  <1> DEFINE a == call[w].by
  <1>1. /\ call[w].op = "store" /\ call[w].step = "find" /\ a \in Wallets
        /\ UNCHANGED <<accounts, clobKey, creds, astray>>
    BY DEF StoreDerive, Is, tables, CallInv, CallOK
  <1>2. key[w] = 0
    BY <1>1 DEF KeyInv
  <1>3. CASE clobKey[a] # 0 /\ key' = [key EXCEPT ![w] = clobKey[a]] /\ Move(w, "select", FALSE)
    <2>1. NowAt(w, "select")
      BY <1>3, MoveNowAt DEF Steps
    <2>2. /\ KeyTypes' /\ key'[w] = clobKey[a]
          /\ \A v \in Workers \ {w} : key'[v] = key[v]
      BY <1>1, <1>3 DEF KeyInv, KeyTypes
    <2>3. \A v \in Workers : Stores(v)' <=> Stores(v)
      BY <1>1, <2>1 DEF NowAt, Stores
    <2>4. \A v \in Workers : call'[v].by = call[v].by
      BY <2>1 DEF NowAt
    <2>5. QED
      BY <1>1, <1>3, <2>1, <2>2, <2>3, <2>4 DEF KeyInv, NowAt
  <1>4. CASE UNCHANGED key /\ Move(w, "create", FALSE)
    <2>1. NowAt(w, "create")
      BY <1>4, MoveNowAt DEF Steps
    <2>2. KeyTypes'
      BY <1>1, <1>4 DEF KeyInv, KeyTypes
    <2>3. \A v \in Workers : Stores(v)' <=> Stores(v)
      BY <1>1, <2>1 DEF NowAt, Stores
    <2>4. QED
      BY <1>1, <1>2, <1>4, <2>1, <2>2, <2>3 DEF KeyInv, NowAt
  <1>5. CASE UNCHANGED key /\ Reply(w, "error", TRUE)
    <2>1. NowAt(w, "done")
      BY <1>5, ReplyNowAt DEF Answers
    <2>2. KeyTypes'
      BY <1>1, <1>5 DEF KeyInv, KeyTypes
    <2>3. \A v \in Workers \ {w} : Stores(v)' <=> Stores(v)
      BY <1>1, <2>1 DEF NowAt, Stores
    <2>4. ~Stores(w)' /\ \A v \in Workers \ {w} : call'[v] = call[v]
      BY <1>1, <2>1 DEF NowAt, Stores
    <2>5. ASSUME NEW b \in Wallets, creds'[b] \notin {0, clobKey'[b]}
          PROVE  \/ b \in astray'
                 \/ \E v \in Workers : Stores(v)' /\ call'[v].by = b /\ key'[v] = clobKey'[b]
      <3>1. clobKey[b] # 0
        BY <1>1, <2>5 DEF KeyInv
      <3>2. QED
        BY <1>1, <1>2, <1>5, <2>3, <2>4, <2>5, <3>1 DEF KeyInv
    <2>6. QED
      BY <1>1, <1>2, <1>5, <2>1, <2>2, <2>3, <2>4, <2>5 DEF KeyInv, NowAt
  <1>6. QED
    BY <1>3, <1>4, <1>5 DEF StoreDerive

LEMMA KeyStoreCreate ==
    ASSUME KeyInv, TablesInv, CallInv, NEW w \in Workers, StoreCreate(w)
    PROVE  KeyInv'
  <1> DEFINE a == call[w].by
  <1>1. /\ call[w].op = "store" /\ call[w].step = "create" /\ a \in Wallets
        /\ UNCHANGED <<accounts, creds>>
    BY DEF StoreCreate, Is, tables, CallInv, CallOK
  <1>2. key[w] = 0 /\ Stores(w)
    BY <1>1 DEF KeyInv, Stores
  <1>3. ASSUME clobKey[a] < MaxKeys, clobKey' = [clobKey EXCEPT ![a] = @ + 1],
               key' = [key EXCEPT ![w] = clobKey'[a]], Move(w, "select", FALSE),
               UNCHANGED astray
        PROVE  KeyInv'
    <2>1. NowAt(w, "select")
      BY <1>3, MoveNowAt DEF Steps
    <2>2. /\ KeyTypes' /\ clobKey'[a] = clobKey[a] + 1 /\ clobKey'[a] # 0
          /\ \A b \in Wallets \ {a} : clobKey'[b] = clobKey[b]
          /\ key'[w] = clobKey'[a]
          /\ \A v \in Workers \ {w} : key'[v] = key[v]
      <3>1. MaxKeys \in Nat /\ clobKey[a] \in 0..MaxKeys
        BY <1>1, OrderConstantsAssumption DEF KeyInv, KeyTypes
      <3>2. /\ clobKey'[a] = clobKey[a] + 1 /\ clobKey' \in [Wallets -> 0..MaxKeys]
            /\ \A b \in Wallets \ {a} : clobKey'[b] = clobKey[b]
        BY <1>1, <1>3, <3>1 DEF KeyInv, KeyTypes
      <3>3. QED
        BY <1>1, <1>3, <3>1, <3>2 DEF KeyInv, KeyTypes
    <2>3. \A v \in Workers : (Stores(v)' <=> Stores(v)) /\ call'[v].by = call[v].by
      BY <1>1, <2>1 DEF NowAt, Stores
    <2>4. \A v \in Workers \ {w} : Stores(v) /\ call[v].by = a => a \in astray
      BY <1>2 DEF KeyInv
    <2>5. ASSUME NEW v \in Workers, call'[v].op = "store",
                 call'[v].step \in {"select", "commit"}
          PROVE  /\ key'[v] # 0 /\ clobKey'[call'[v].by] # 0
                 /\ call'[v].by \in astray' \/ key'[v] = clobKey'[call'[v].by]
      <3>1. CASE v = w
        BY <2>2, <2>3, <3>1
      <3>2. CASE v # w
        <4>1. call'[v] = call[v] /\ Stores(v) /\ call[v].by \in Wallets
          BY <2>1, <2>5, <3>2 DEF NowAt, Stores, CallInv, CallOK
        <4>2. QED
          BY <1>3, <2>2, <2>4, <2>5, <3>2, <4>1 DEF KeyInv
      <3>3. QED
        BY <3>1, <3>2
    <2>6. ASSUME NEW b \in Wallets, creds'[b] \notin {0, clobKey'[b]}
          PROVE  \/ b \in astray'
                 \/ \E v \in Workers : Stores(v)' /\ call'[v].by = b /\ key'[v] = clobKey'[b]
      <3>1. CASE b = a
        BY <1>2, <2>2, <2>3, <3>1
      <3>2. CASE b # a
        <4>1. \/ b \in astray
              \/ \E v \in Workers : Stores(v) /\ call[v].by = b /\ key[v] = clobKey[b]
          BY <1>1, <2>2, <2>6, <3>2 DEF KeyInv
        <4>2. QED
          BY <1>3, <2>2, <2>3, <3>2, <4>1
      <3>3. QED
        BY <3>1, <3>2
    <2>7. /\ \A b \in Wallets : creds'[b] # 0 => accounts'[b] = 1 /\ clobKey'[b] # 0
          /\ \A v \in Workers : call'[v].step \in {"idle", "find", "create"} => key'[v] = 0
          /\ \A v, u \in Workers : Stores(v)' /\ Stores(u)' /\ call'[v].by = call'[u].by
                                   /\ v # u => call'[v].by \in astray'
      BY <1>1, <1>3, <2>1, <2>2, <2>3 DEF KeyInv, NowAt
    <2>8. QED
      BY <2>2, <2>5, <2>6, <2>7 DEF KeyInv
  <1>4. ASSUME NEW hurt \in BOOLEAN, Reply(w, "error", hurt), UNCHANGED key,
               \/ /\ clobKey[a] < MaxKeys /\ clobKey' = [clobKey EXCEPT ![a] = @ + 1]
                  /\ astray' = astray \cup {a}
               \/ UNCHANGED <<clobKey, astray>>
        PROVE  KeyInv'
    <2>1. NowAt(w, "done")
      BY <1>4, ReplyNowAt DEF Answers
    <2>2. /\ KeyTypes' /\ astray \subseteq astray'
          /\ \A b \in Wallets \ {a} : clobKey'[b] = clobKey[b]
          /\ clobKey'[a] = clobKey[a] \/ a \in astray'
          /\ \A b \in Wallets : clobKey[b] # 0 => clobKey'[b] # 0
      <3>1. MaxKeys \in Nat /\ clobKey[a] \in 0..MaxKeys
        BY <1>1, OrderConstantsAssumption DEF KeyInv, KeyTypes
      <3>2. QED
        BY <1>1, <1>4, <3>1 DEF KeyInv, KeyTypes
    <2>3. /\ ~Stores(w)'
          /\ \A v \in Workers \ {w} : (Stores(v)' <=> Stores(v)) /\ call'[v] = call[v]
      BY <1>1, <2>1 DEF NowAt, Stores
    <2>4. ASSUME NEW b \in Wallets, creds'[b] \notin {0, clobKey'[b]}
          PROVE  \/ b \in astray'
                 \/ \E v \in Workers : Stores(v)' /\ call'[v].by = b /\ key'[v] = clobKey'[b]
      <3>1. CASE b \in astray'
        BY <3>1
      <3>2. CASE b \notin astray'
        <4>1. clobKey'[b] = clobKey[b] /\ clobKey[b] # 0 /\ creds[b] = creds'[b]
          BY <1>1, <2>2, <2>4, <3>2 DEF KeyInv
        <4>2. PICK v \in Workers : Stores(v) /\ call[v].by = b /\ key[v] = clobKey[b]
          BY <2>2, <2>4, <3>2, <4>1 DEF KeyInv
        <4>3. v # w
          BY <1>2, <4>1, <4>2
        <4>4. QED
          BY <1>4, <2>3, <4>1, <4>2, <4>3
      <3>3. QED
        BY <3>1, <3>2
    <2>5. ASSUME NEW v \in Workers, call'[v].op = "store",
                 call'[v].step \in {"select", "commit"}
          PROVE  /\ key'[v] # 0 /\ clobKey'[call'[v].by] # 0
                 /\ call'[v].by \in astray' \/ key'[v] = clobKey'[call'[v].by]
      <3>1. v # w /\ call'[v] = call[v] /\ call[v].by \in Wallets
        BY <2>1, <2>3, <2>5 DEF NowAt, CallInv, CallOK
      <3>2. /\ key[v] # 0 /\ clobKey[call[v].by] # 0
            /\ call[v].by \in astray \/ key[v] = clobKey[call[v].by]
        BY <2>5, <3>1 DEF KeyInv
      <3>3. QED
        BY <1>4, <2>2, <3>1, <3>2
    <2>6. /\ \A b \in Wallets : creds'[b] # 0 => accounts'[b] = 1 /\ clobKey'[b] # 0
          /\ \A v \in Workers : call'[v].step \in {"idle", "find", "create"} => key'[v] = 0
      BY <1>1, <1>4, <2>1, <2>2, <2>3 DEF KeyInv, NowAt
    <2>7. ASSUME NEW v \in Workers, NEW u \in Workers, Stores(v)', Stores(u)',
                 call'[v].by = call'[u].by, v # u
          PROVE  call'[v].by \in astray'
      BY <2>2, <2>3, <2>7 DEF KeyInv
    <2>8. QED
      BY <2>2, <2>4, <2>5, <2>6, <2>7 DEF KeyInv
  <1>5. QED
    BY <1>3, <1>4 DEF StoreCreate

LEMMA KeyStoreSelect ==
    ASSUME KeyInv, TablesInv, CallInv, NEW w \in Workers, StoreSelect(w)
    PROVE  KeyInv'
  <1> DEFINE a == call[w].by
  <1>1. /\ call[w].op = "store" /\ call[w].step = "select" /\ a \in Wallets
        /\ UNCHANGED <<accounts, clobKey, creds, key, astray>>
    BY DEF StoreSelect, Is, tables, orderVars, keyState, CallInv, CallOK
  <1>2. KeyTypes' /\ Stores(w)
    BY <1>1 DEF KeyInv, KeyTypes, Stores
  <1>3. CASE Move(w, "commit", FALSE)
    <2>1. NowAt(w, "commit")
      BY <1>3, MoveNowAt DEF Steps
    <2>2. \A v \in Workers : (Stores(v)' <=> Stores(v)) /\ call'[v].by = call[v].by
      BY <1>1, <2>1 DEF NowAt, Stores
    <2>3. QED
      BY <1>1, <1>2, <2>1, <2>2 DEF KeyInv, NowAt
  <1>4. CASE accounts[a] = 0 /\ Reply(w, "noaccount", FALSE)
    <2>1. NowAt(w, "done")
      BY <1>4, ReplyNowAt DEF Answers
    <2>2. /\ ~Stores(w)' /\ call'[w].step = "done"
          /\ \A v \in Workers \ {w} : (Stores(v)' <=> Stores(v)) /\ call'[v] = call[v]
      BY <1>1, <2>1 DEF NowAt, Stores
    <2>3. creds[a] = 0
      BY <1>1, <1>4 DEF KeyInv
    <2>4. ASSUME NEW b \in Wallets, creds'[b] \notin {0, clobKey'[b]}
          PROVE  \/ b \in astray'
                 \/ \E v \in Workers : Stores(v)' /\ call'[v].by = b /\ key'[v] = clobKey'[b]
      <3>1. b # a
        BY <1>1, <2>3, <2>4
      <3>2. QED
        BY <1>1, <2>2, <2>4, <3>1 DEF KeyInv
    <2>5. QED
      BY <1>1, <1>2, <2>2, <2>4 DEF KeyInv
  <1>5. QED
    BY <1>3, <1>4 DEF StoreSelect

LEMMA KeyStoreCommit ==
    ASSUME KeyInv, TablesInv, CallInv, NEW w \in Workers, NEW o \in Outcomes,
           StoreCommit(w, o)
    PROVE  KeyInv'
  <1> DEFINE a == call[w].by
  <1>1. /\ call[w].op = "store" /\ call[w].step = "commit" /\ a \in Wallets
        /\ UNCHANGED <<accounts, clobKey, key>>
        /\ accounts[a] = 1
    BY DEF StoreCommit, Is, tables, CallInv, CallOK
  <1>2. Stores(w) /\ key[w] \in 0..MaxKeys /\ key[w] # 0 /\ clobKey[a] # 0
    BY <1>1 DEF KeyInv, KeyTypes, Stores
  <1>3. NowAt(w, "done")
    <2>1. PICK answer \in {"stored", "error"}, hurt \in BOOLEAN : Reply(w, answer, hurt)
      BY DEF StoreCommit
    <2>2. QED
      BY <2>1, ReplyNowAt DEF Answers
  <1>4. /\ ~Stores(w)' /\ call'[w].step = "done"
        /\ \A v \in Workers \ {w} : (Stores(v)' <=> Stores(v)) /\ call'[v] = call[v]
    BY <1>1, <1>3 DEF NowAt, Stores
  <1>5. /\ creds' = IF Took(o) THEN [creds EXCEPT ![a] = key[w]] ELSE creds
        /\ astray' = IF o # "ok" THEN astray \cup {a}
                     ELSE IF Storing(a) = {w} /\ key[w] = clobKey[a] THEN astray \ {a}
                     ELSE astray
    BY DEF StoreCommit
  <1>6. /\ creds' \in [Wallets -> 0..MaxKeys] /\ astray' \in SUBSET Wallets
        /\ creds'[a] \in {creds[a], key[w]}
        /\ \A b \in Wallets \ {a} : creds'[b] = creds[b] /\ (b \in astray' <=> b \in astray)
    BY <1>1, <1>2, <1>5 DEF KeyInv, KeyTypes
  <1>7. a \in astray' \/ (key[w] = clobKey[a] /\ creds'[a] = key[w])
    <2>1. CASE o # "ok"
      BY <1>5, <2>1
    <2>2. CASE o = "ok"
      <3>1. creds'[a] = key[w]
        BY <1>1, <1>5, <2>2 DEF Took, KeyInv, KeyTypes
      <3>2. key[w] # clobKey[a] => a \in astray
        BY <1>1 DEF KeyInv
      <3>3. QED
        BY <1>5, <2>2, <3>1, <3>2
    <2>3. QED
      BY <2>1, <2>2
  <1>8. ASSUME a \notin astray'
        PROVE  \A v \in Workers \ {w} : Stores(v) => call[v].by # a
    <2>1. CASE a \notin astray
      BY <1>2, <2>1 DEF KeyInv
    <2>2. CASE a \in astray
      <3>1. Storing(a) = {w}
        BY <1>5, <1>8, <2>2
      <3>2. QED
        BY <3>1 DEF Storing, Stores
    <2>3. QED
      BY <2>1, <2>2
  <1>9. ASSUME NEW v \in Workers, NEW u \in Workers, Stores(v)', Stores(u)',
               call'[v].by = call'[u].by, v # u
        PROVE  call'[v].by \in astray'
    <2>1. /\ v # w /\ u # w /\ call'[v] = call[v] /\ call'[u] = call[u]
          /\ Stores(v) /\ Stores(u)
      BY <1>4, <1>9
    <2>2. call[v].by \in astray /\ call[v].by \in Wallets
      BY <1>9, <2>1 DEF KeyInv, Stores, CallInv, CallOK
    <2>3. QED
      BY <1>6, <1>8, <2>1, <2>2
  <1>10. ASSUME NEW v \in Workers, call'[v].op = "store",
                call'[v].step \in {"select", "commit"}
         PROVE  /\ key'[v] # 0 /\ clobKey'[call'[v].by] # 0
                /\ call'[v].by \in astray' \/ key'[v] = clobKey'[call'[v].by]
    <2>1. v # w /\ call'[v] = call[v] /\ call[v].by \in Wallets /\ Stores(v)
      BY <1>4, <1>10 DEF Stores, CallInv, CallOK
    <2>2. /\ key[v] # 0 /\ clobKey[call[v].by] # 0
          /\ call[v].by \in astray \/ key[v] = clobKey[call[v].by]
      BY <1>10, <2>1 DEF KeyInv
    <2>3. QED
      BY <1>1, <1>6, <1>8, <2>1, <2>2
  <1>11. ASSUME NEW b \in Wallets, creds'[b] \notin {0, clobKey'[b]}
         PROVE  \/ b \in astray'
                \/ \E v \in Workers : Stores(v)' /\ call'[v].by = b /\ key'[v] = clobKey'[b]
    <2>1. CASE b = a
      BY <1>1, <1>7, <1>11, <2>1
    <2>2. CASE b # a
      BY <1>1, <1>4, <1>6, <1>11, <2>2 DEF KeyInv
    <2>3. QED
      BY <2>1, <2>2
  <1>12. \A b \in Wallets : creds'[b] # 0 => accounts'[b] = 1 /\ clobKey'[b] # 0
    BY <1>1, <1>2, <1>6 DEF KeyInv
  <1>13. \A v \in Workers : call'[v].step \in {"idle", "find", "create"} => key'[v] = 0
    BY <1>1, <1>4 DEF KeyInv
  <1>14. KeyTypes'
    BY <1>1, <1>6 DEF KeyInv, KeyTypes
  <1>15. QED
    BY <1>9, <1>10, <1>11, <1>12, <1>13, <1>14 DEF KeyInv

LEMMA KeyLoadKey ==
    ASSUME KeyInv, TablesInv, CallInv, NEW w \in Workers, LoadKey(w)
    PROVE  KeyInv'
  <1> DEFINE a == call[w].by
  <1>1. /\ call[w].op \in {"submit", "cancel"} /\ call[w].step = "find" /\ a \in Wallets
        /\ UNCHANGED <<accounts, clobKey, creds, astray>>
    BY DEF LoadKey, Is, tables, CallInv, CallOK
  <1>2. /\ KeyTypes'
        /\ \A v \in Workers \ {w} : key'[v] = key[v]
    <2>1. creds[a] \in 0..MaxKeys
      BY <1>1 DEF KeyInv, KeyTypes
    <2>2. UNCHANGED key \/ key' = [key EXCEPT ![w] = creds[a]]
      BY DEF LoadKey
    <2>3. QED
      BY <1>1, <2>1, <2>2 DEF KeyInv, KeyTypes
  <1>3. \E step \in {"done", "request"} : NowAt(w, step)
    <2>1. CASE creds[a] = 0
      <3>1. PICK answer \in {"rejected", "noaccount"} : Reply(w, answer, FALSE)
        BY <2>1 DEF LoadKey
      <3>2. QED
        BY <3>1, ReplyNowAt DEF Answers
    <2>2. CASE creds[a] # 0
      <3>1. Move(w, "request", FALSE)
        BY <2>2 DEF LoadKey
      <3>2. QED
        BY <3>1, MoveNowAt DEF Steps
    <2>3. QED
      BY <2>1, <2>2
  <1>4. /\ ~Stores(w) /\ ~Stores(w)' /\ call'[w].step \in {"done", "request"}
        /\ call'[w].op # "store"
        /\ \A v \in Workers \ {w} : (Stores(v)' <=> Stores(v)) /\ call'[v] = call[v]
    BY <1>1, <1>3 DEF NowAt, Stores
  <1>5. QED
    BY <1>1, <1>2, <1>4 DEF KeyInv

LEMMA KeyEnds ==
    ASSUME KeyInv, TablesInv, CallInv, UNCHANGED offered, NEW w \in Workers, Ends(w)
    PROVE  KeyInv'
  <1>1. /\ UNCHANGED <<accounts, clobKey, creds, astray>>
        /\ key' = [key EXCEPT ![w] = 0] /\ call[w].step = "done"
    BY DEF Ends, Return, OrderForget, tables
  <1>2. /\ \A v \in Workers \ {w} : call'[v] = call[v]
        /\ call'[w] = Idle
    BY ReturnInv DEF Ends, OthersKept
  <1>3. KeyTypes' /\ key'[w] = 0 /\ \A v \in Workers \ {w} : key'[v] = key[v]
    <2>1. 0 \in 0..MaxKeys
      BY OrderConstantsAssumption
    <2>2. QED
      BY <1>1, <2>1 DEF KeyInv, KeyTypes
  <1>4. /\ ~Stores(w) /\ ~Stores(w)' /\ call'[w].step = "idle" /\ call'[w].op = "none"
        /\ \A v \in Workers \ {w} : (Stores(v)' <=> Stores(v))
    BY <1>1, <1>2 DEF Stores, Idle
  <1>5. QED
    BY <1>1, <1>2, <1>3, <1>4 DEF KeyInv

\* A step of a call leaves it what it is, and takes it on.
Advances(w) ==
    /\ Typed /\ OthersAlike(w)
    /\ call'[w].op = call[w].op /\ call'[w].did = call[w].did
    /\ call'[w].by = call[w].by /\ call'[w].arg = call[w].arg
    /\ \/ call'[w].step = call[w].step
       \/ call'[w].step = "done"
       \/ call[w].op = "store" /\ call'[w].step \in {"select", "create", "commit"}
       \/ call[w].op # "store" /\ call'[w].step \in {"insert", "backfill", "commit",
                                                     "request", "poll"}

LEMMA HandlesAdvances ==
    ASSUME CallInv, NEW w \in Workers, NEW ops, Handles(w, ops)
    PROVE  Advances(w)
  <1>1. CASE UNCHANGED call
    BY <1>1 DEF Advances, Typed, OthersAlike, CallInv
  <1>2. ASSUME NEW answer \in Answers, NEW hurt \in BOOLEAN, Reply(w, answer, hurt)
        PROVE  Advances(w)
    BY <1>2, ReplyFacts DEF Advances, CallInv, Continues, OthersKept, OthersAlike
  <1>3. ASSUME NEW step \in {"select", "create", "commit", "request", "poll"},
               Move(w, step, FALSE),
               call[w].op = "store" <=> step \in {"select", "create", "commit"}
        PROVE  Advances(w)
    <2>1. step \in Steps
      BY DEF Steps
    <2>2. QED
      BY <1>3, <2>1, MoveFacts DEF Advances, CallInv, Continues, OthersKept, OthersAlike
  <1>4. QED
    BY <1>1, <1>2, <1>3 DEF Handles

AccountOps == {"login", "follow", "unfollow", "rename"}

LEMMA AccountStepsAdvance ==
    ASSUME CallInv, NEW w \in Workers, AccountSteps(w)
    PROVE  Advances(w) /\ call[w].op \in AccountOps
  <1>1. call[w].op \in AccountOps
    BY DEF AccountSteps, LoginFind, FollowFind, UnfollowFind, RenameFind, LoginBackfill,
           LoginInsert, FollowCommit, UnfollowCommit, RenameCommit, Is, AccountOps
  <1>2. ASSUME NEW o, UnfollowCommit(w, o)
        PROVE  Advances(w)
    BY <1>2, UnfollowFacts DEF Advances, CallInv
  <1>3. ASSUME NEW step \in {"insert", "backfill", "commit"}, NEW row \in BOOLEAN,
               Move(w, step, row)
        PROVE  Advances(w)
    <2>1. step \in Steps /\ call[w].op # "store"
      BY <1>1 DEF Steps, AccountOps
    <2>2. QED
      BY <1>3, <2>1, MoveFacts DEF Advances, CallInv, Continues, OthersKept, OthersAlike
  <1>4. ASSUME NEW answer \in Answers, NEW hurt \in BOOLEAN, Reply(w, answer, hurt)
        PROVE  Advances(w)
    BY <1>4, ReplyFacts DEF Advances, CallInv, Continues, OthersKept, OthersAlike
  <1>5. CASE LoginFind(w) \/ FollowFind(w) \/ UnfollowFind(w) \/ RenameFind(w)
    <2>1. CASE \E step \in {"insert", "backfill", "commit"}, row \in BOOLEAN : Move(w, step, row)
      <3>1. PICK step \in {"insert", "backfill", "commit"}, row \in BOOLEAN : Move(w, step, row)
        BY <2>1
      <3>2. QED
        BY <1>1, <1>3, <3>1
    <2>2. CASE \E answer \in {"old", "self", "unknown", "already", "absent", "taken"} :
                    Reply(w, answer, FALSE)
      <3>1. PICK answer \in {"old", "self", "unknown", "already", "absent", "taken"} :
                    Reply(w, answer, FALSE)
        BY <2>2
      <3>2. answer \in Answers
        BY DEF Answers
      <3>3. QED
        BY <1>1, <1>4, <3>1, <3>2
    <2>3. QED
      BY <1>5, <2>1, <2>2 DEF LoginFind, FollowFind, UnfollowFind, RenameFind
  <1>6. ASSUME NEW o, LoginBackfill(w, o) \/ LoginInsert(w, o) \/ FollowCommit(w, o)
                      \/ RenameCommit(w, o)
        PROVE  Advances(w)
    <2>1. \E answer \in {"old", "new", "error", "following", "already", "renamed"},
             hurt \in BOOLEAN : Reply(w, answer, hurt)
      BY <1>6 DEF LoginBackfill, LoginInsert, FollowCommit, RenameCommit
    <2>2. QED
      BY <2>1, <1>4 DEF Answers
  <1>7. QED
    BY <1>1, <1>2, <1>5, <1>6 DEF AccountSteps

LEMMA KeyNext ==
    ASSUME KeyInv, TablesInv, CallInv, [Next]_vars
    PROVE  KeyInv'
  <1>1. TablesInv' /\ Grows
    BY TablesCallsNext
  <1>2. CASE UNCHANGED <<call, keyState>>
    BY <1>1, <1>2, KeyKept
  <1>3. ASSUME NEW w \in Workers, Advances(w), UNCHANGED keyState, call[w].op # "store"
        PROVE  KeyInv'
    BY <1>1, <1>3, KeyKept DEF Advances, OthersAlike
  <1>4. ASSUME NEW w \in Workers, Arrives(w), UNCHANGED offered
        PROVE  KeyInv'
    BY <1>4, ArrivalFacts, KeyArrival
  <1>5. ASSUME NEW w \in Workers, AccountSteps(w), UNCHANGED orderVars
        PROVE  KeyInv'
    BY <1>3, <1>5, AccountStepsAdvance DEF AccountOps, orderVars
  <1>6. ASSUME NEW w \in Workers, OrderSteps(w)
        PROVE  KeyInv'
    <2>1. Advances(w)
      BY <1>6, OrderStepsHandle, HandlesAdvances
    <2>2. CASE UNCHANGED keyState /\ call[w].op # "store"
      BY <1>3, <2>1, <2>2
    <2>3. QED
      BY <1>6, <2>2, KeyStoreDerive, KeyStoreCreate, KeyStoreSelect, KeyStoreCommit,
         KeyLoadKey
      DEF OrderSteps, FetchHit, FetchAsk, FetchStore, FetchFails, Running, Gathering, Is,
          PrepareBuild, SubmitRequest, CancelRequest
  <1>7. ASSUME NEW w \in Workers, RelaySteps(w), UNCHANGED orderVars
        PROVE  KeyInv'
    <2>1. Advances(w)
      BY <1>7, RelayStepsHandle, HandlesAdvances
    <2>2. call[w].op # "store"
      BY <1>7, RelayStepsHandle DEF Handles, RelayOps
    <2>3. QED
      BY <1>3, <1>7, <2>1, <2>2 DEF orderVars
  <1>8. ASSUME NEW w \in Workers, Ends(w), UNCHANGED offered
        PROVE  KeyInv'
    BY <1>8, KeyEnds
  <1>9. CASE Outside
    <2>1. UNCHANGED <<call, keyState>>
      BY <1>9 DEF Outside, ParamMoves, ExpireParam, JobMoves, LateJobMined, orderVars
    <2>2. QED
      BY <1>2, <2>1
  <1>10. CASE UNCHANGED vars
    BY <1>2, <1>10 DEF vars, orderVars
  <1>11. QED
    BY <1>4, <1>5, <1>6, <1>7, <1>8, <1>9, <1>10 DEF Next, Works

LEMMA KeyInit ==
    ASSUME Init
    PROVE  KeyInv
  <1>1. /\ clobKey = [a \in Wallets |-> 0] /\ creds = [a \in Wallets |-> 0]
        /\ key = [w \in Workers |-> 0] /\ astray = {}
        /\ call = [w \in Workers |-> Idle]
    BY DEF Init, AccountInit, OrderInit
  <1>2. 0 \in 0..MaxKeys
    BY OrderConstantsAssumption
  <1>3. QED
    BY <1>1, <1>2 DEF KeyInv, KeyTypes, Stores, Idle

-----------------------------------------------------------------------------
(* Orders at the CLOB.                                                       *)

OrderInv ==
    /\ order \in [Orders -> {"none", "live", "gone"}]
    /\ reported \in SUBSET Orders /\ blurred \in SUBSET Orders
    /\ OrdersReported
    /\ \A w \in Workers : Answered(w, "cancel", "cancelled") => call[w].arg \in Orders

\* Every other step: the orders stay, and nobody is told of a cancellation.
LEMMA OrdersKept ==
    ASSUME OrderInv, CallInv, UNCHANGED orderState,
           \A v \in Workers :
                /\ call'[v].op = "cancel" => \/ /\ call'[v].step = call[v].step
                                                /\ call'[v].answer = call[v].answer
                                                /\ call'[v].arg = call[v].arg
                                                /\ call[v].op = "cancel"
                                             \/ call'[v].answer # "cancelled"
    PROVE  OrderInv'
  <1>1. UNCHANGED <<order, reported, blurred>>
    BY DEF orderState
  <1>2. ASSUME NEW v \in Workers, Answered(v, "cancel", "cancelled")'
        PROVE  order'[call'[v].arg] = "gone" /\ call'[v].arg \in Orders
    <2>1. /\ call'[v].step = call[v].step /\ call'[v].answer = call[v].answer
          /\ call'[v].arg = call[v].arg /\ call[v].op = "cancel"
      BY <1>2 DEF Answered, Is
    <2>2. Answered(v, "cancel", "cancelled")
      BY <1>2, <2>1 DEF Answered, Is
    <2>3. QED
      BY <1>1, <2>1, <2>2 DEF OrderInv, OrdersReported
  <1>3. QED
    BY <1>1, <1>2 DEF OrderInv, OrdersReported

LEMMA OrdersSubmit ==
    ASSUME OrderInv, CallInv, NEW w \in Workers, NEW r, SubmitRequest(w, r)
    PROVE  OrderInv'
  <1> DEFINE o == call[w].arg
  <1>1. call[w].op = "submit" /\ call[w].step = "request" /\ o \in Orders
    BY DEF SubmitRequest, Is, CallInv, CallOK
  <1>2. /\ \/ /\ Accepts(w, o) /\ r \in {"200", "201"} \cup Unclear
              /\ order' = [order EXCEPT ![o] = "live"]
           \/ r \in {"4xx"} \cup Unclear /\ UNCHANGED order
        /\ SubmitReply(w, r)
        /\ reported' = IF call'[w].answer = "placed" THEN reported \cup {o} ELSE reported
        /\ blurred' = IF r \in Unclear THEN blurred \cup {o} ELSE blurred
    BY DEF SubmitRequest
  <1>3. PICK answer \in {"placed", "error", "rejected"}, hurt \in BOOLEAN :
            /\ Reply(w, answer, hurt)
            /\ answer = "placed" <=> r \in {"200", "201"}
    BY <1>2 DEF SubmitReply
  <1>4. Continues(w) /\ call'[w].answer = answer
    BY <1>3, ReplyFacts DEF CallInv, Answers
  <1>5. \A u \in Unclear : u \notin {"200", "201", "4xx"}
    BY DEF Unclear
  <1>6. /\ order' \in [Orders -> {"none", "live", "gone"}]
        /\ \A p \in Orders : order'[p] = order[p] \/ (p = o /\ order[p] = "none"
                                                      /\ order'[p] = "live")
        /\ r \in {"200", "201"} => order'[o] # "none"
    BY <1>1, <1>2, <1>5 DEF OrderInv, Accepts
  <1>7. reported' \in SUBSET Orders /\ blurred' \in SUBSET Orders
    BY <1>1, <1>2 DEF OrderInv
  <1>8. \A p \in Orders : order'[p] # "none" => p \in reported' \cup blurred'
    BY <1>1, <1>2, <1>3, <1>4, <1>6 DEF OrderInv, OrdersReported
  <1>9. \A p \in reported' : order'[p] # "none"
    BY <1>1, <1>2, <1>3, <1>4, <1>6, <1>7 DEF OrderInv, OrdersReported
  <1>10. ASSUME NEW v \in Workers, Answered(v, "cancel", "cancelled")'
         PROVE  order'[call'[v].arg] = "gone" /\ call'[v].arg \in Orders
    <2>1. v # w /\ call'[v] = call[v]
      BY <1>1, <1>4, <1>10 DEF Answered, Is, Continues, OthersKept
    <2>2. order[call[v].arg] = "gone" /\ call[v].arg \in Orders
      BY <1>10, <2>1 DEF OrderInv, OrdersReported, Answered, Is
    <2>3. QED
      BY <1>6, <2>1, <2>2
  <1>11. QED
    BY <1>6, <1>7, <1>8, <1>9, <1>10 DEF OrderInv, OrdersReported

LEMMA OrdersCancel ==
    ASSUME OrderInv, CallInv, NEW w \in Workers, CancelRequest(w)
    PROVE  OrderInv'
  <1> DEFINE o == call[w].arg
  <1>1. /\ call[w].op = "cancel" /\ call[w].step = "request" /\ o \in Orders
        /\ reported' = reported
    BY DEF CancelRequest, Is, CallInv, CallOK
  <1>2. PICK answer \in {"cancelled", "error"}, hurt \in BOOLEAN :
            /\ Reply(w, answer, hurt)
            /\ \/ /\ order[o] = "live" /\ order' = [order EXCEPT ![o] = "gone"]
                  /\ blurred' \in {blurred, blurred \cup {o}}
               \/ answer = "error" /\ UNCHANGED <<order, blurred>>
    BY DEF CancelRequest
  <1>3. Continues(w) /\ call'[w].answer = answer
    BY <1>2, ReplyFacts DEF CallInv, Answers
  <1>4. /\ order' \in [Orders -> {"none", "live", "gone"}]
        /\ \A p \in Orders : order'[p] = order[p] \/ (p = o /\ order[p] = "live"
                                                      /\ order'[p] = "gone")
        /\ answer = "cancelled" => order'[o] = "gone"
        /\ blurred' \in SUBSET Orders /\ blurred \subseteq blurred'
    BY <1>1, <1>2 DEF OrderInv
  <1>5. ASSUME NEW v \in Workers, Answered(v, "cancel", "cancelled")'
        PROVE  order'[call'[v].arg] = "gone" /\ call'[v].arg \in Orders
    <2>1. CASE v = w
      BY <1>1, <1>3, <1>4, <1>5, <2>1 DEF Answered, Is, Continues
    <2>2. CASE v # w
      <3>1. call'[v] = call[v]
        BY <1>3, <2>2 DEF Continues, OthersKept
      <3>2. order[call[v].arg] = "gone" /\ call[v].arg \in Orders
        BY <1>5, <3>1 DEF OrderInv, OrdersReported, Answered, Is
      <3>3. QED
        BY <1>4, <3>1, <3>2
    <2>3. QED
      BY <2>1, <2>2
  <1>6. QED
    BY <1>1, <1>4, <1>5 DEF OrderInv, OrdersReported

LEMMA OrdersNext ==
    ASSUME OrderInv, CallInv, TablesInv, [Next]_vars
    PROVE  OrderInv'
  <1>1. CASE UNCHANGED <<call, orderState>>
    BY <1>1, OrdersKept
  <1>2. ASSUME NEW w \in Workers, Advances(w), UNCHANGED orderState, call[w].op # "cancel"
        PROVE  OrderInv'
    BY <1>2, OrdersKept DEF Advances, OthersAlike
  <1>3. ASSUME NEW w \in Workers, Arrives(w)
        PROVE  OrderInv'
    <2>1. /\ UNCHANGED orderState
          /\ \A v \in Workers \ {w} : call'[v] = call[v]
          /\ call'[w].answer # "cancelled"
      BY <1>3, ArrivalFacts DEF Arrival, Begins, OthersKept
    <2>2. QED
      BY <2>1, OrdersKept
  <1>4. ASSUME NEW w \in Workers, AccountSteps(w), UNCHANGED orderVars
        PROVE  OrderInv'
    BY <1>2, <1>4, AccountStepsAdvance DEF AccountOps, orderVars
  <1>5. ASSUME NEW w \in Workers, LoadKey(w)
        PROVE  OrderInv'
    <2>1. UNCHANGED orderState
      BY <1>5 DEF LoadKey
    <2>2. \A v \in Workers \ {w} : call'[v] = call[v]
      BY <1>5 DEF LoadKey, Reply, Move, CallInv
    <2>3. call'[w].answer # "cancelled"
      <3>1. CASE \E answer \in {"rejected", "noaccount"} : Reply(w, answer, FALSE)
        BY <3>1, ReplyFacts DEF CallInv, Answers
      <3>2. CASE Move(w, "request", FALSE)
        <4>1. call'[w].answer = call[w].answer
          BY <3>2, MoveFacts DEF CallInv, Steps
        <4>2. call[w].step = "find"
          BY <1>5 DEF LoadKey, Is
        <4>3. QED
          BY <4>1, <4>2 DEF CallInv, CallOK
      <3>3. QED
        BY <1>5, <3>1, <3>2 DEF LoadKey
    <2>4. QED
      BY <2>1, <2>2, <2>3, OrdersKept
  <1>6. ASSUME NEW w \in Workers, OrderSteps(w)
        PROVE  OrderInv'
    <2>1. Advances(w)
      BY <1>6, OrderStepsHandle, HandlesAdvances
    <2>2. CASE UNCHANGED orderState /\ call[w].op # "cancel"
      BY <1>2, <2>1, <2>2
    <2>3. QED
      BY <1>5, <1>6, <2>2, OrdersSubmit, OrdersCancel
      DEF OrderSteps, FetchHit, FetchAsk, FetchStore, FetchFails, Running, Gathering, Is,
          PrepareBuild, StoreDerive, StoreCreate, StoreSelect, StoreCommit, orderVars
  <1>7. ASSUME NEW w \in Workers, RelaySteps(w), UNCHANGED orderVars
        PROVE  OrderInv'
    <2>1. Advances(w)
      BY <1>7, RelayStepsHandle, HandlesAdvances
    <2>2. call[w].op # "cancel"
      BY <1>7, RelayStepsHandle DEF Handles, RelayOps
    <2>3. QED
      BY <1>2, <1>7, <2>1, <2>2 DEF orderVars
  <1>8. ASSUME NEW w \in Workers, Ends(w), UNCHANGED offered
        PROVE  OrderInv'
    <2>1. UNCHANGED orderState
      BY <1>8 DEF Ends, OrderForget
    <2>2. /\ \A v \in Workers \ {w} : call'[v] = call[v]
          /\ call'[w].answer = "none"
      BY <1>8, ReturnInv DEF Ends, OthersKept, Idle
    <2>3. QED
      BY <2>1, <2>2, OrdersKept
  <1>9. CASE Outside
    <2>1. UNCHANGED <<call, orderState>>
      BY <1>9 DEF Outside, ParamMoves, ExpireParam, JobMoves, LateJobMined, orderVars
    <2>2. QED
      BY <1>1, <2>1
  <1>10. CASE UNCHANGED vars
    BY <1>1, <1>10 DEF vars, orderVars
  <1>11. QED
    BY <1>3, <1>4, <1>6, <1>7, <1>8, <1>9, <1>10 DEF Next, Works

LEMMA OrdersInit ==
    ASSUME Init
    PROVE  OrderInv
  <1>1. /\ order = [o \in Orders |-> "none"] /\ reported = {} /\ blurred = {}
        /\ call = [w \in Workers |-> Idle]
    BY DEF Init, AccountInit, OrderInit
  <1>2. \A w \in Workers : ~Answered(w, "cancel", "cancelled")
    BY <1>1 DEF Answered, Is, Idle
  <1>3. QED
    BY <1>1, <1>2 DEF OrderInv, OrdersReported

-----------------------------------------------------------------------------
(* Jobs at the relayer.                                                      *)

\* Only a call to the relayer that has submitted has a job; a job that is done
\* has its effect on chain; and the polls of a call are within their bound.
JobOK(w) ==
    /\ job[w] # "none" => /\ call[w].op \in Kinds /\ call[w].by \in Wallets
                          /\ call[w].step \in {"poll", "done"}
    /\ job[w] \in {"MINED", "CONFIRMED", "DEPLOYED"} => Effect(w) \in onChain
    /\ job[w] = "DEPLOYED" => call[w].op = "deploy"
    /\ call[w].step \in {"idle", "find"} => polls[w] = 0
    /\ call[w].op \in Kinds /\ call[w].step = "poll" => polls[w] < MaxPolls

JobTypes ==
    /\ onChain \in SUBSET (Wallets \X Kinds)
    /\ pending \in SUBSET (Wallets \X Kinds)
    /\ job \in [Workers -> JobStates]
    /\ polls \in [Workers -> 0..MaxPolls]
    /\ garbled \in SUBSET Workers

JobInv == JobTypes /\ \A w \in Workers : JobOK(w)

LEMMA EffectTyped ==
    ASSUME NEW w \in Workers, call[w].by \in Wallets
    PROVE  Effect(w) \in Wallets \X Kinds
  BY DEF Effect, Kinds

\* Steps that have nothing to do with the relayer.
LEMMA JobsKept ==
    ASSUME JobInv, UNCHANGED relayVars,
           \A v \in Workers :
                \/ /\ call'[v].op = call[v].op /\ call'[v].by = call[v].by
                   /\ \/ call'[v].step = call[v].step
                      \/ call[v].op \notin Kinds /\ call'[v].step \notin {"idle", "find"}
                \/ call[v].step = "idle" /\ call'[v].step # "poll"
    PROVE  JobInv'
  <1>1. UNCHANGED <<onChain, pending, job, polls, garbled>>
    BY DEF relayVars
  <1>2. JobTypes'
    BY <1>1 DEF JobInv, JobTypes
  <1>3. ASSUME NEW v \in Workers
        PROVE  JobOK(v)'
    <2>1. JobOK(v)
      BY DEF JobInv
    <2>2. CASE call'[v].op = call[v].op /\ call'[v].by = call[v].by
      BY <1>1, <2>1, <2>2 DEF JobOK, Effect
    <2>3. CASE call[v].step = "idle" /\ call'[v].step # "poll"
      BY <1>1, <2>1, <2>3 DEF JobOK
    <2>4. QED
      BY <2>2, <2>3
  <1>4. QED
    BY <1>2, <1>3 DEF JobInv

\* Steps of one call and its job.
LEMMA JobsStep ==
    ASSUME JobInv, NEW w \in Workers, JobTypes', JobOK(w)', onChain \subseteq onChain',
           \A v \in Workers \ {w} : /\ call'[v] = call[v] /\ job'[v] = job[v]
                                    /\ polls'[v] = polls[v]
    PROVE  JobInv'
  <1>1. ASSUME NEW v \in Workers \ {w}
        PROVE  JobOK(v)'
    <2>1. JobOK(v)
      BY DEF JobInv
    <2>2. QED
      BY <2>1 DEF JobOK, Effect
  <1>2. QED
    BY <1>1 DEF JobInv

LEMMA JobsSubmit ==
    ASSUME JobInv, CallInv, NEW w \in Workers, RelaySubmit(w)
    PROVE  JobInv'
  <1>1. /\ call[w].op \in Kinds /\ call[w].step = "find" /\ call[w].by \in Wallets
        /\ UNCHANGED <<onChain, pending, polls>>
        /\ polls[w] = 0 /\ job[w] = "none"
    BY DEF RelaySubmit, CallInv, CallOK, JobInv, JobOK
  <1>2. /\ job' \in {job, [job EXCEPT ![w] = "NEW"]}
        /\ garbled' \in {garbled, garbled \cup {w}}
    BY DEF RelaySubmit
  <1>3. JobTypes' /\ job'[w] \in {"none", "NEW"} /\ \A v \in Workers \ {w} : job'[v] = job[v]
    BY <1>1, <1>2 DEF JobInv, JobTypes, JobStates
  <1>4. Continues(w) /\ call'[w].step \in {"poll", "done"}
    <2>1. CASE Move(w, "poll", FALSE)
      BY <2>1, MoveFacts DEF CallInv, Steps
    <2>2. CASE \E answer \in {"unknown", "failed"}, hurt \in BOOLEAN : Reply(w, answer, hurt)
      BY <2>2, ReplyFacts DEF CallInv, Answers
    <2>3. QED
      BY <2>1, <2>2 DEF RelaySubmit
  <1>5. JobOK(w)'
    BY <1>1, <1>3, <1>4, RelayerConstantsAssumption DEF JobOK, Continues
  <1>6. QED
    BY <1>1, <1>3, <1>4, <1>5, JobsStep DEF Continues, OthersKept

LEMMA JobsPoll ==
    ASSUME JobInv, CallInv, NEW w \in Workers, RelayPoll(w)
    PROVE  JobInv'
  <1>1. /\ call[w].op \in Kinds /\ call[w].step = "poll" /\ polls[w] < MaxPolls
        /\ UNCHANGED <<onChain, pending, job, garbled>>
        /\ polls' = [polls EXCEPT ![w] = @ + 1]
    BY DEF RelayPoll, JobInv, JobOK
  <1>2. MaxPolls \in Nat /\ polls[w] \in 0..MaxPolls
    BY RelayerConstantsAssumption DEF JobInv, JobTypes
  <1>3. /\ JobTypes' /\ polls'[w] = polls[w] + 1
        /\ \A v \in Workers \ {w} : polls'[v] = polls[v]
    BY <1>1, <1>2 DEF JobInv, JobTypes
  <1>4. \/ UNCHANGED call /\ polls'[w] # MaxPolls
        \/ \E answer \in {"done", "failed", "unknown"} : Reply(w, answer, FALSE)
    BY DEF RelayPoll
  <1>5. /\ call'[w].op = call[w].op /\ call'[w].by = call[w].by
        /\ \A v \in Workers \ {w} : call'[v] = call[v]
        /\ call'[w].step = "done" \/ (call'[w].step = "poll" /\ polls'[w] # MaxPolls)
    BY <1>1, <1>4, ReplyFacts DEF CallInv, Answers, Continues, OthersKept
  <1>6. JobOK(w)'
    <2>1. JobOK(w)
      BY DEF JobInv
    <2>2. polls'[w] # MaxPolls => polls'[w] < MaxPolls
      BY <1>1, <1>2, <1>3
    <2>3. QED
      BY <1>1, <1>5, <2>1, <2>2 DEF JobOK, Effect
  <1>7. QED
    BY <1>1, <1>3, <1>5, <1>6, JobsStep

\* What a call to the relayer learns last, without its job: an error, or the
\* state on chain.
LEMMA JobsLeft ==
    ASSUME JobInv, CallInv, NEW w \in Workers, RelayPollFails(w) \/ StatusRead(w)
    PROVE  JobInv'
  <1>1. /\ UNCHANGED <<onChain, pending, job, polls>> /\ garbled' \in {garbled, garbled \cup {w}}
        /\ call[w].step # "idle"
    BY DEF RelayPollFails, StatusRead, relayVars, Is
  <1>2. \E answer \in {"done", "missing", "failed", "unknown"}, hurt \in BOOLEAN :
            Reply(w, answer, hurt)
    BY DEF RelayPollFails, StatusRead
  <1>3. Continues(w) /\ call'[w].step = "done"
    BY <1>2, ReplyFacts DEF CallInv, Answers
  <1>4. JobTypes'
    BY <1>1 DEF JobInv, JobTypes
  <1>5. JobOK(w)'
    <2>1. JobOK(w)
      BY DEF JobInv
    <2>2. QED
      BY <1>1, <1>3, <2>1 DEF JobOK, Effect, Continues
  <1>6. QED
    BY <1>1, <1>3, <1>4, <1>5, JobsStep DEF Continues, OthersKept

LEMMA JobsMove ==
    ASSUME JobInv, NEW w \in Workers, NEW s \in JobStates, JobMoves(w, s)
    PROVE  JobInv'
  <1>1. /\ UNCHANGED <<call, pending, polls, garbled>>
        /\ job' = [job EXCEPT ![w] = s] /\ job[w] \in {"NEW", "MINED"}
    BY DEF JobMoves
  <1>2. JobOK(w) /\ call[w].by \in Wallets
    BY <1>1 DEF JobInv, JobOK
  <1>3. onChain' \in {onChain, onChain \cup {Effect(w)}}
    BY DEF JobMoves
  <1>4. JobTypes' /\ job'[w] = s /\ \A v \in Workers \ {w} : job'[v] = job[v]
    BY <1>1, <1>2, <1>3, EffectTyped DEF JobInv, JobTypes
  <1>5. JobOK(w)'
    <2>1. s \in {"MINED", "CONFIRMED", "DEPLOYED"} => Effect(w) \in onChain'
      BY <1>2 DEF JobMoves, JobOK, Dead
    <2>2. s = "DEPLOYED" => call[w].op = "deploy"
      BY DEF JobMoves
    <2>3. QED
      BY <1>1, <1>2, <1>4, <2>1, <2>2 DEF JobOK, Effect
  <1>6. QED
    BY <1>1, <1>3, <1>4, <1>5, JobsStep

LEMMA JobsNext ==
    ASSUME JobInv, CallInv, TablesInv, [Next]_vars
    PROVE  JobInv'
  <1>1. CASE UNCHANGED <<call, relayVars>>
    BY <1>1, JobsKept
  <1>2. ASSUME NEW w \in Workers, Advances(w), UNCHANGED relayVars, call[w].op \notin Kinds
        PROVE  JobInv'
    <2>1. call'[w].step = call[w].step \/ call'[w].step \notin {"idle", "find"}
      BY <1>2 DEF Advances
    <2>2. QED
      BY <1>2, <2>1, JobsKept DEF Advances, OthersAlike
  <1>3. ASSUME NEW w \in Workers, Arrives(w)
        PROVE  JobInv'
    <2>1. /\ UNCHANGED relayVars
          /\ \A v \in Workers \ {w} : call'[v] = call[v]
          /\ call[w].step = "idle" /\ call'[w].step # "poll"
      BY <1>3, ArrivalFacts DEF Arrival, Begins, OthersKept
    <2>2. QED
      BY <2>1, JobsKept
  <1>4. ASSUME NEW w \in Workers, AccountSteps(w), UNCHANGED relayVars
        PROVE  JobInv'
    BY <1>2, <1>4, AccountStepsAdvance DEF AccountOps, Kinds
  <1>5. ASSUME NEW w \in Workers, OrderSteps(w), UNCHANGED relayVars
        PROVE  JobInv'
    <2>1. Advances(w)
      BY <1>5, OrderStepsHandle, HandlesAdvances
    <2>2. call[w].op \notin Kinds
      BY <1>5, OrderStepsHandle DEF Handles, OrderOps, Kinds
    <2>3. QED
      BY <1>2, <1>5, <2>1, <2>2
  <1>6. ASSUME NEW w \in Workers, RelaySteps(w)
        PROVE  JobInv'
    BY <1>6, JobsSubmit, JobsPoll, JobsLeft DEF RelaySteps
  <1>7. ASSUME NEW w \in Workers, Ends(w), UNCHANGED offered
        PROVE  JobInv'
    <2>1. /\ pending' = IF job[w] = "NEW" THEN pending \cup {Effect(w)} ELSE pending
          /\ job' = [job EXCEPT ![w] = "none"] /\ polls' = [polls EXCEPT ![w] = 0]
          /\ garbled' = garbled \ {w} /\ UNCHANGED onChain
      BY <1>7 DEF Ends, RelayForget
    <2>2. (\A v \in Workers \ {w} : call'[v] = call[v]) /\ call'[w] = Idle
      BY <1>7, ReturnInv DEF Ends, OthersKept
    <2>3. JobTypes' /\ job'[w] = "none" /\ polls'[w] = 0
      <3>1. job[w] = "NEW" => Effect(w) \in Wallets \X Kinds
        BY EffectTyped DEF JobInv, JobOK
      <3>2. 0 \in 0..MaxPolls /\ "none" \in JobStates
        BY RelayerConstantsAssumption DEF JobStates
      <3>3. QED
        BY <2>1, <3>1, <3>2 DEF JobInv, JobTypes
    <2>4. JobOK(w)'
      BY <2>2, <2>3 DEF JobOK, Idle
    <2>5. \A v \in Workers \ {w} : job'[v] = job[v] /\ polls'[v] = polls[v]
      BY <2>1 DEF JobInv, JobTypes
    <2>6. QED
      BY <2>1, <2>2, <2>3, <2>4, <2>5, JobsStep
  <1>8. ASSUME NEW p \in Params, ParamMoves(p) \/ ExpireParam(p), UNCHANGED relayVars
        PROVE  JobInv'
    BY <1>1, <1>8 DEF ParamMoves, ExpireParam
  <1>9. ASSUME NEW w \in Workers, NEW s \in JobStates, JobMoves(w, s)
        PROVE  JobInv'
    BY <1>9, JobsMove
  <1>10. ASSUME NEW e \in pending, LateJobMined(e)
         PROVE  JobInv'
    <2>1. /\ UNCHANGED <<call, pending, job, polls, garbled>>
          /\ onChain' = onChain \cup {e}
      BY <1>10 DEF LateJobMined
    <2>2. JobTypes'
      BY <2>1 DEF JobInv, JobTypes
    <2>3. ASSUME NEW v \in Workers
          PROVE  JobOK(v)'
      <3>1. JobOK(v)
        BY DEF JobInv
      <3>2. QED
        BY <2>1, <3>1 DEF JobOK, Effect
    <2>4. QED
      BY <2>2, <2>3 DEF JobInv
  <1>11. CASE UNCHANGED vars
    BY <1>1, <1>11 DEF vars
  <1>12. QED
    BY <1>3, <1>4, <1>5, <1>6, <1>7, <1>8, <1>9, <1>10, <1>11 DEF Next, Works, Outside

LEMMA JobsInit ==
    ASSUME Init
    PROVE  JobInv
  <1>1. /\ onChain = {} /\ pending = {} /\ garbled = {}
        /\ job = [w \in Workers |-> "none"] /\ polls = [w \in Workers |-> 0]
        /\ call = [w \in Workers |-> Idle]
    BY DEF Init, AccountInit, RelayInit
  <1>2. JobTypes
    BY <1>1, RelayerConstantsAssumption DEF JobTypes, JobStates
  <1>3. \A w \in Workers : JobOK(w)
    BY <1>1 DEF JobOK, Idle
  <1>4. QED
    BY <1>2, <1>3 DEF JobInv

-----------------------------------------------------------------------------
(* The relayer's answers: how the states and the steps map to the promise.   *)

Wanted == pending \cup MayStillBring
Attempt == [w \in Workers |-> IF Asks(w) THEN {Effect(w)} ELSE {}]
DeadJobs == {w \in Workers : job[w] \in Dead}
Told == [w \in Workers |-> IF ~Asks(w) THEN "none"
                           ELSE IF call[w].answer = "missing" THEN "unknown"
                           ELSE call[w].answer]
promiseVars == <<onChain, Wanted, Attempt, DeadJobs, garbled, Told>>

LEMMA PromiseStutters ==
    ASSUME UNCHANGED promiseVars
    PROVE  UNCHANGED Promise!vars
  BY DEF promiseVars, Wanted, Attempt, DeadJobs, Told, Promise!vars

LEMMA PromiseAsks ==
    ASSUME NEW w \in Workers, NEW e \in Wallets \X Kinds,
           Attempt[w] = {}, Attempt' = [Attempt EXCEPT ![w] = {e}],
           Wanted' \in {Wanted, Wanted \cup {e}},
           UNCHANGED <<onChain, DeadJobs, garbled, Told>>
    PROVE  Promise!Next
  <1>1. Promise!Ask(w, e)
    BY DEF Wanted, Attempt, DeadJobs, Told, Promise!Ask
  <1>2. QED
    BY <1>1 DEF Promise!Next

LEMMA PromiseHappens ==
    ASSUME NEW e \in Wallets \X Kinds, e \in Wanted, onChain' = onChain \cup {e},
           Wanted' \in {Wanted, Wanted \ {e}},
           UNCHANGED <<Attempt, DeadJobs, garbled, Told>>
    PROVE  Promise!Next
  <1>1. Promise!Happen(e)
    BY DEF Wanted, Attempt, DeadJobs, Told, Promise!Happen
  <1>2. QED
    BY <1>1 DEF Promise!Next

LEMMA PromiseDies ==
    ASSUME NEW w \in Workers, Attempt[w] # {}, DeadJobs' = DeadJobs \cup {w},
           Wanted' \in {Wanted, Wanted \ Attempt[w]},
           UNCHANGED <<onChain, Attempt, garbled, Told>>
    PROVE  Promise!Next
  <1>1. Promise!Die(w)
    BY DEF Wanted, Attempt, DeadJobs, Told, Promise!Die
  <1>2. QED
    BY <1>1 DEF Promise!Next

LEMMA PromiseTells ==
    ASSUME NEW w \in Workers, NEW answer \in {"done", "failed", "unknown"},
           Told[w] = "none", Attempt[w] # {},
           answer = "done" => Attempt[w] \subseteq onChain,
           answer = "failed" => w \in DeadJobs \cup garbled',
           Told' = [Told EXCEPT ![w] = answer],
           garbled' \in {garbled, garbled \cup {w}},
           Wanted' \in {Wanted, Wanted \ Attempt[w]},
           UNCHANGED <<onChain, Attempt, DeadJobs>>
    PROVE  Promise!Next
  <1>1. Promise!Tell(w, answer)
    BY DEF Wanted, Attempt, DeadJobs, Told, Promise!Tell
  <1>2. QED
    BY <1>1 DEF Promise!Next

LEMMA PromiseLeaves ==
    ASSUME NEW w \in Workers, Attempt' = [Attempt EXCEPT ![w] = {}],
           DeadJobs' = DeadJobs \ {w}, garbled' = garbled \ {w},
           Told' = [Told EXCEPT ![w] = "none"], UNCHANGED <<onChain, Wanted>>
    PROVE  Promise!Next
  <1>1. Promise!Leave(w)
    BY DEF Wanted, Attempt, DeadJobs, Told, Promise!Leave
  <1>2. QED
    BY <1>1 DEF Promise!Next

\* The calls whose job may still have its effect.
Brings(w) == /\ call[w].op \in Kinds /\ call[w].by # None
             /\ call[w].step = "find" \/ job[w] = "NEW"

LEMMA WantedBrings == Wanted = pending \cup {Effect(w) : w \in {v \in Workers : Brings(v)}}
  BY DEF Wanted, MayStillBring, Brings

SameCalls == \A v \in Workers : call'[v].op = call[v].op /\ call'[v].by = call[v].by

\* Nobody begins or gives up an attempt.
LEMMA WantedSame ==
    ASSUME SameCalls, UNCHANGED pending, \A v \in Workers : Brings(v)' <=> Brings(v)
    PROVE  UNCHANGED Wanted
  <1>1. \A v \in Workers : Effect(v)' = Effect(v)
    BY DEF SameCalls, Effect
  <1>2. {v \in Workers : Brings(v)}' = {v \in Workers : Brings(v)}
    OBVIOUS
  <1>3. {Effect(w) : w \in {v \in Workers : Brings(v)}}'
            = {Effect(w) : w \in {v \in Workers : Brings(v)}}
    BY <1>1, <1>2
  <1>4. QED
    BY <1>3 DEF Wanted, MayStillBring, Brings

\* One attempt ends: its effect is wanted no more, unless others want it too.
LEMMA WantedLess ==
    ASSUME NEW w \in Workers, SameCalls, UNCHANGED pending, ~Brings(w)',
           \A v \in Workers \ {w} : Brings(v)' <=> Brings(v)
    PROVE  Wanted' \in {Wanted, Wanted \ {Effect(w)}}
  <1>1. \A v \in Workers : Effect(v)' = Effect(v)
    BY DEF SameCalls, Effect
  <1>2. \A e : e \in Wanted <=> e \in pending \/ \E v \in Workers : Brings(v) /\ e = Effect(v)
    BY WantedBrings
  <1>3. \A e : e \in Wanted' <=> e \in pending' \/ \E v \in Workers : Brings(v)' /\ e = Effect(v)'
    BY DEF Wanted, MayStillBring, Brings
  <1>4. \A e : e # Effect(w) => (e \in Wanted' <=> e \in Wanted)
    BY <1>1, <1>2, <1>3
  <1>5. Effect(w) \in Wanted' => Effect(w) \in Wanted
    BY <1>1, <1>2, <1>3
  <1>6. CASE Effect(w) \in Wanted'
    BY <1>4, <1>5, <1>6
  <1>7. CASE Effect(w) \notin Wanted'
    BY <1>4, <1>7
  <1>8. QED
    BY <1>6, <1>7

\* A call that asks nothing of the relayer, before the step and after it.
LEMMA PromiseUntouched ==
    ASSUME NEW w \in Workers, ~Asks(w), ~Asks(w)', OthersAlike(w), UNCHANGED relayVars
    PROVE  UNCHANGED promiseVars
  <1>1. UNCHANGED <<onChain, pending, job, garbled>>
    BY DEF relayVars
  <1>2. \A v \in Workers \ {w} : /\ Asks(v)' <=> Asks(v)
                                 /\ Effect(v)' = Effect(v)
                                 /\ Brings(v)' <=> Brings(v)
                                 /\ call'[v].answer = call[v].answer
    BY <1>1 DEF OthersAlike, Asks, Effect, Brings
  <1>3. ~Brings(w) /\ ~Brings(w)'
    BY DEF Asks, Brings
  <1>4. Wanted' = Wanted
    <2>1. {Effect(u) : u \in {v \in Workers : Brings(v)}}'
              = {Effect(u) : u \in {v \in Workers : Brings(v)}}
      BY <1>2, <1>3
    <2>2. QED
      BY <1>1, <2>1 DEF Wanted, MayStillBring, Brings
  <1>5. Attempt' = Attempt
    BY <1>2 DEF Attempt
  <1>6. Told' = Told
    BY <1>2 DEF Told
  <1>7. DeadJobs' = DeadJobs
    BY <1>1 DEF DeadJobs
  <1>8. QED
    BY <1>1, <1>4, <1>5, <1>6, <1>7 DEF promiseVars

LEMMA PromiseArrival ==
    ASSUME CallInv, JobInv, NEW w \in Workers, Arrival(w)
    PROVE  Promise!Next \/ UNCHANGED Promise!vars
  <1>1. /\ call[w].step = "idle" /\ call[w].op = "none" /\ ~Asks(w) /\ ~Brings(w)
        /\ \A v \in Workers \ {w} : call'[v] = call[v]
        /\ OthersAlike(w) /\ UNCHANGED relayVars
        /\ UNCHANGED <<onChain, pending, job, garbled>>
    BY DEF Arrival, Begins, OthersKept, OthersAlike, CallInv, CallOK, Asks, Brings, Kinds,
           relayVars
  <1>2. CASE ~Asks(w)'
    BY <1>1, <1>2, PromiseUntouched, PromiseStutters
  <1>3. CASE Asks(w)'
    <2> DEFINE e == Effect(w)'
    <2>1. /\ call'[w].by \in Wallets /\ call'[w].step = "find" /\ call'[w].answer = "none"
          /\ call'[w].op \in Kinds \cup {"status"}
      BY <1>3 DEF Arrival, Begins, Asks
    <2>2. e \in Wallets \X Kinds
      BY <2>1 DEF Effect, Kinds
    <2>3. \A v \in Workers \ {w} : /\ Asks(v)' <=> Asks(v)
                                   /\ Effect(v)' = Effect(v)
                                   /\ Brings(v)' <=> Brings(v)
      BY <1>1 DEF Asks, Effect, Brings
    <2> HIDE DEF e
    <2>4. Attempt[w] = {} /\ Attempt' = [Attempt EXCEPT ![w] = {e}]
      <3>1. Attempt' = [v \in Workers |-> IF Asks(v)' THEN {Effect(v)'} ELSE {}]
        BY DEF Attempt
      <3>2. \A v \in Workers : Attempt'[v] = IF v = w THEN {e} ELSE Attempt[v]
        BY <1>3, <2>3, <3>1 DEF Attempt, e
      <3>3. QED
        BY <1>1, <3>1, <3>2 DEF Attempt
    <2>5. Told' = Told
      <3>1. \A v \in Workers : Told'[v] = Told[v]
        BY <1>1, <2>1, <2>3 DEF Told
      <3>2. QED
        BY <3>1 DEF Told
    <2>6. DeadJobs' = DeadJobs
      BY <1>1 DEF DeadJobs
    <2>7. Wanted' \in {Wanted, Wanted \cup {e}}
      <3>1. \A x : x \in Wanted <=> x \in pending \/ \E v \in Workers : Brings(v) /\ x = Effect(v)
        BY WantedBrings
      <3>2. \A x : x \in Wanted' <=> x \in pending'
                                     \/ \E v \in Workers : Brings(v)' /\ x = Effect(v)'
        BY DEF Wanted, MayStillBring, Brings
      <3>3. CASE Brings(w)'
        <4>1. \A x : x \in Wanted' <=> x \in Wanted \cup {e}
          BY <1>1, <2>3, <3>1, <3>2, <3>3 DEF e
        <4>2. QED
          BY <4>1
      <3>4. CASE ~Brings(w)'
        <4>1. \A x : x \in Wanted' <=> x \in Wanted
          BY <1>1, <2>3, <3>1, <3>2, <3>4
        <4>2. QED
          BY <4>1
      <3>5. QED
        BY <3>3, <3>4
    <2>8. QED
      BY <1>1, <2>2, <2>4, <2>5, <2>6, <2>7, PromiseAsks
  <1>4. QED
    BY <1>2, <1>3

\* A call to the relayer is answered.
LEMMA ReplyTells ==
    ASSUME CallInv, NEW w \in Workers, call[w].op \in RelayOps,
           call[w].step \notin {"idle", "done"},
           NEW answer \in {"done", "failed", "unknown", "missing"}, NEW hurt \in BOOLEAN,
           Reply(w, answer, hurt)
    PROVE  /\ SameCalls /\ call'[w].step = "done"
           /\ \A v \in Workers \ {w} : call'[v] = call[v]
           /\ Attempt[w] = {Effect(w)} /\ UNCHANGED Attempt
           /\ Told[w] = "none"
           /\ Told' = [Told EXCEPT ![w] = IF answer = "missing" THEN "unknown" ELSE answer]
  <1>1. /\ Continues(w) /\ call'[w].step = "done" /\ call'[w].answer = answer
    BY ReplyFacts DEF CallInv, Answers
  <1>2. SameCalls /\ \A v \in Workers \ {w} : call'[v] = call[v]
    BY <1>1 DEF Continues, OthersKept, SameCalls
  <1>3. call[w].by \in Wallets /\ call[w].answer = "none" /\ None \notin Wallets
    BY AccountConstantsAssumption DEF CallInv, CallOK
  <1>4. Asks(w)
    BY <1>3 DEF Asks, RelayOps, Kinds
  <1>5. \A v \in Workers : (Asks(v)' <=> Asks(v)) /\ Effect(v)' = Effect(v)
    BY <1>2 DEF SameCalls, Asks, Effect
  <1>6. Attempt[w] = {Effect(w)} /\ UNCHANGED Attempt
    BY <1>4, <1>5 DEF Attempt
  <1>7. Told[w] = "none"
    BY <1>3, <1>4 DEF Told
  <1>8. Told' = [Told EXCEPT ![w] = IF answer = "missing" THEN "unknown" ELSE answer]
    <2>1. Told' = [v \in Workers |-> IF ~Asks(v)' THEN "none"
                                     ELSE IF call'[v].answer = "missing" THEN "unknown"
                                     ELSE call'[v].answer]
      BY DEF Told
    <2>2. \A v \in Workers : Told'[v] = IF v = w THEN (IF answer = "missing" THEN "unknown"
                                                       ELSE answer)
                                        ELSE Told[v]
      BY <1>1, <1>2, <1>4, <1>5, <2>1 DEF Told
    <2>3. QED
      BY <2>1, <2>2 DEF Told
  <1>9. QED
    BY <1>1, <1>2, <1>6, <1>7, <1>8

LEMMA PromiseSubmit ==
    ASSUME CallInv, JobInv, NEW w \in Workers, RelaySubmit(w)
    PROVE  Promise!Next \/ UNCHANGED Promise!vars
  <1>1. /\ call[w].op \in Kinds /\ call[w].op \in RelayOps /\ call[w].step = "find"
        /\ call[w].by \in Wallets /\ job[w] = "none"
        /\ UNCHANGED <<onChain, pending>>
    BY DEF RelaySubmit, CallInv, CallOK, JobInv, JobOK, Kinds, RelayOps
  <1>2. Brings(w)
    BY <1>1, AccountConstantsAssumption DEF Brings
  <1>3. job' \in {job, [job EXCEPT ![w] = "NEW"]}
    BY DEF RelaySubmit
  <1>4. /\ \A v \in Workers \ {w} : job'[v] = job[v]
        /\ job'[w] \in {"none", "NEW"}
    BY <1>1, <1>3 DEF JobInv, JobTypes
  <1>5. UNCHANGED DeadJobs
    BY <1>1, <1>4 DEF DeadJobs, Dead
  <1>6. CASE job' = [job EXCEPT ![w] = "NEW"] /\ Move(w, "poll", FALSE) /\ UNCHANGED garbled
    <2>1. Continues(w) /\ call'[w].answer = call[w].answer
      BY <1>6, MoveFacts DEF CallInv, Steps
    <2>2. SameCalls /\ job'[w] = "NEW"
      BY <1>6, <2>1 DEF Continues, OthersKept, SameCalls, JobInv, JobTypes
    <2>3. \A v \in Workers : Brings(v)' <=> Brings(v)
      BY <1>2, <1>4, <2>1, <2>2 DEF Brings, SameCalls, Continues, OthersKept
    <2>4. UNCHANGED Wanted
      BY <1>1, <2>2, <2>3, WantedSame
    <2>5. \A v \in Workers : /\ Asks(v)' <=> Asks(v)
                             /\ Effect(v)' = Effect(v)
                             /\ call'[v].answer = call[v].answer
      BY <2>1, <2>2 DEF SameCalls, Asks, Effect, Continues, OthersKept
    <2>6. UNCHANGED <<Attempt, Told>>
      BY <2>5 DEF Attempt, Told
    <2>7. QED
      BY <1>1, <1>5, <1>6, <2>4, <2>6, PromiseStutters DEF promiseVars
  <1>7. ASSUME NEW answer \in {"unknown", "failed"}, NEW hurt \in BOOLEAN,
               Reply(w, answer, hurt), garbled' \in {garbled, garbled \cup {w}},
               answer = "failed" => w \in garbled'
        PROVE  Promise!Next
    <2>1. /\ SameCalls /\ call'[w].step = "done"
          /\ \A v \in Workers \ {w} : call'[v] = call[v]
          /\ Attempt[w] = {Effect(w)} /\ UNCHANGED Attempt
          /\ Told[w] = "none" /\ Told' = [Told EXCEPT ![w] = answer]
      BY <1>1, <1>7, ReplyTells
    <2>2. \A v \in Workers \ {w} : Brings(v)' <=> Brings(v)
      BY <1>4, <2>1 DEF Brings
    <2>3. Wanted' \in {Wanted, Wanted \ Attempt[w]}
      <3>1. CASE Brings(w)'
        BY <1>1, <1>2, <2>1, <2>2, <3>1, WantedSame
      <3>2. CASE ~Brings(w)'
        BY <1>1, <2>1, <2>2, <3>2, WantedLess
      <3>3. QED
        BY <3>1, <3>2
    <2>4. QED
      BY <1>1, <1>5, <1>7, <2>1, <2>3, PromiseTells
  <1>8. QED
    BY <1>6, <1>7 DEF RelaySubmit

\* The answers that leave the job as it is.
LEMMA PromiseAnswers ==
    ASSUME CallInv, JobInv, NEW w \in Workers, call[w].op \in RelayOps,
           call[w].step \notin {"idle", "done"}, call[w].op \in Kinds => call[w].step = "poll",
           NEW answer \in {"done", "failed", "unknown", "missing"}, NEW hurt \in BOOLEAN,
           Reply(w, answer, hurt), UNCHANGED <<onChain, pending, job>>,
           garbled' \in {garbled, garbled \cup {w}},
           answer = "done" => Effect(w) \in onChain,
           answer = "failed" => job[w] \in Dead \/ w \in garbled'
    PROVE  Promise!Next
  <1>1. /\ SameCalls /\ call'[w].step = "done"
        /\ \A v \in Workers \ {w} : call'[v] = call[v]
        /\ Attempt[w] = {Effect(w)} /\ UNCHANGED Attempt /\ Told[w] = "none"
        /\ Told' = [Told EXCEPT ![w] = IF answer = "missing" THEN "unknown" ELSE answer]
    BY ReplyTells
  <1>2. \A v \in Workers : Brings(v)' <=> Brings(v)
    BY <1>1 DEF Brings, SameCalls
  <1>3. UNCHANGED Wanted
    BY <1>1, <1>2, WantedSame
  <1>4. UNCHANGED DeadJobs
    BY DEF DeadJobs
  <1>5. answer = "failed" => w \in DeadJobs \cup garbled'
    BY DEF DeadJobs
  <1>6. PICK told \in {"done", "failed", "unknown"} :
            told = IF answer = "missing" THEN "unknown" ELSE answer
    OBVIOUS
  <1>7. QED
    BY <1>1, <1>3, <1>4, <1>5, <1>6, PromiseTells

LEMMA PromisePoll ==
    ASSUME CallInv, JobInv, NEW w \in Workers, RelayPoll(w)
    PROVE  Promise!Next \/ UNCHANGED Promise!vars
  <1>1. /\ call[w].op \in Kinds /\ call[w].op \in RelayOps /\ call[w].step = "poll"
        /\ UNCHANGED <<onChain, pending, job, garbled>>
    BY DEF RelayPoll, Kinds, RelayOps
  <1>2. CASE UNCHANGED call
    BY <1>1, <1>2, PromiseStutters
    DEF promiseVars, Wanted, MayStillBring, Attempt, DeadJobs, Told, Asks, Effect
  <1>3. CASE job[w] \in Success(w) /\ Reply(w, "done", FALSE)
    <2>1. job[w] \in {"MINED", "CONFIRMED", "DEPLOYED"}
      BY <1>3 DEF Success
    <2>2. Effect(w) \in onChain
      BY <2>1 DEF JobInv, JobOK
    <2>3. QED
      BY <1>1, <1>3, <2>2, PromiseAnswers
  <1>4. CASE job[w] \in Failure(w) /\ Reply(w, "failed", FALSE)
    <2>1. job[w] \in Dead
      BY <1>4 DEF Failure, Dead
    <2>2. QED
      BY <1>1, <1>4, <2>1, PromiseAnswers
  <1>5. CASE Reply(w, "unknown", FALSE)
    BY <1>1, <1>5, PromiseAnswers
  <1>6. QED
    BY <1>2, <1>3, <1>4, <1>5 DEF RelayPoll

LEMMA PromisePollFails ==
    ASSUME CallInv, JobInv, NEW w \in Workers, RelayPollFails(w)
    PROVE  Promise!Next
  <1>1. /\ call[w].op \in RelayOps /\ call[w].step = "poll"
        /\ UNCHANGED <<onChain, pending, job>>
    BY DEF RelayPollFails, Kinds, RelayOps
  <1>2. CASE Reply(w, "unknown", TRUE) /\ UNCHANGED garbled
    BY <1>1, <1>2, PromiseAnswers
  <1>3. CASE Reply(w, "failed", TRUE) /\ garbled' = garbled \cup {w}
    BY <1>1, <1>3, PromiseAnswers
  <1>4. QED
    BY <1>2, <1>3 DEF RelayPollFails

LEMMA PromiseStatus ==
    ASSUME CallInv, JobInv, NEW w \in Workers, StatusRead(w)
    PROVE  Promise!Next
  <1>1. /\ call[w].op = "status" /\ call[w].op \in RelayOps /\ call[w].op \notin Kinds
        /\ call[w].step = "find"
        /\ UNCHANGED <<onChain, pending, job, garbled>>
    BY DEF StatusRead, Is, Kinds, RelayOps, relayVars
  <1>2. Effect(w) = <<call[w].by, "approve">>
    BY <1>1 DEF Effect
  <1>3. CASE Effect(w) \in onChain /\ Reply(w, "done", FALSE)
    BY <1>1, <1>3, PromiseAnswers
  <1>4. CASE \E hurt \in BOOLEAN : Reply(w, "missing", hurt)
    BY <1>1, <1>4, PromiseAnswers
  <1>5. QED
    BY <1>2, <1>3, <1>4 DEF StatusRead

\* The call goes; a job that is under way stays behind as pending.
LEMMA PromiseEnds ==
    ASSUME TablesInv, CallInv, JobInv, UNCHANGED offered, NEW w \in Workers, Ends(w)
    PROVE  Promise!Next
  <1>1. /\ pending' = IF job[w] = "NEW" THEN pending \cup {Effect(w)} ELSE pending
        /\ job' = [job EXCEPT ![w] = "none"]
        /\ garbled' = garbled \ {w} /\ UNCHANGED onChain
        /\ call[w].step = "done"
    BY DEF Ends, RelayForget, Return
  <1>2. (\A v \in Workers \ {w} : call'[v] = call[v]) /\ call'[w] = Idle
    BY ReturnInv DEF Ends, OthersKept
  <1>3. job'[w] = "none" /\ \A v \in Workers \ {w} : job'[v] = job[v]
    BY <1>1 DEF JobInv, JobTypes
  <1>4. ~Asks(w)' /\ ~Brings(w)'
    BY <1>2 DEF Asks, Brings, Idle, Kinds
  <1>5. \A v \in Workers \ {w} : /\ Asks(v)' <=> Asks(v)
                                 /\ Effect(v)' = Effect(v)
                                 /\ Brings(v)' <=> Brings(v)
    BY <1>2, <1>3 DEF Asks, Effect, Brings
  <1>6. Brings(w) <=> job[w] = "NEW"
    BY <1>1, AccountConstantsAssumption DEF Brings, JobInv, JobOK
  <1>7. UNCHANGED Wanted
    <2>1. \A x : x \in Wanted <=> x \in pending \/ \E v \in Workers : Brings(v) /\ x = Effect(v)
      BY WantedBrings
    <2>2. \A x : x \in Wanted' <=> x \in pending' \/ \E v \in Workers : Brings(v)' /\ x = Effect(v)'
      BY DEF Wanted, MayStillBring, Brings
    <2>3. \A x : x \in Wanted' <=> x \in Wanted
      <3>1. CASE job[w] = "NEW"
        BY <1>1, <1>4, <1>5, <1>6, <2>1, <2>2, <3>1
      <3>2. CASE job[w] # "NEW"
        BY <1>1, <1>4, <1>5, <1>6, <2>1, <2>2, <3>2
      <3>3. QED
        BY <3>1, <3>2
    <2>4. QED
      BY <2>3
  <1>8. Attempt' = [Attempt EXCEPT ![w] = {}]
    <2>1. Attempt' = [v \in Workers |-> IF Asks(v)' THEN {Effect(v)'} ELSE {}]
      BY DEF Attempt
    <2>2. \A v \in Workers : Attempt'[v] = IF v = w THEN {} ELSE Attempt[v]
      BY <1>4, <1>5, <2>1 DEF Attempt
    <2>3. QED
      BY <2>1, <2>2 DEF Attempt
  <1>9. Told' = [Told EXCEPT ![w] = "none"]
    <2>1. Told' = [v \in Workers |-> IF ~Asks(v)' THEN "none"
                                     ELSE IF call'[v].answer = "missing" THEN "unknown"
                                     ELSE call'[v].answer]
      BY DEF Told
    <2>2. \A v \in Workers : Told'[v] = IF v = w THEN "none" ELSE Told[v]
      BY <1>2, <1>4, <1>5, <2>1 DEF Told
    <2>3. QED
      BY <2>1, <2>2 DEF Told
  <1>10. DeadJobs' = DeadJobs \ {w}
    BY <1>3 DEF DeadJobs, Dead
  <1>11. QED
    BY <1>1, <1>7, <1>8, <1>9, <1>10, PromiseLeaves

LEMMA PromiseJob ==
    ASSUME CallInv, JobInv, NEW w \in Workers, NEW s \in JobStates, JobMoves(w, s)
    PROVE  Promise!Next \/ UNCHANGED Promise!vars
  <1>1. /\ UNCHANGED <<call, pending, garbled>>
        /\ job' = [job EXCEPT ![w] = s] /\ job[w] \in {"NEW", "MINED"}
    BY DEF JobMoves
  <1>2. /\ call[w].op \in Kinds /\ call[w].by \in Wallets /\ call[w].by # None
        /\ call[w].step \in {"poll", "done"} /\ Asks(w)
    BY <1>1, AccountConstantsAssumption DEF JobInv, JobOK, Asks
  <1>3. job'[w] = s /\ \A v \in Workers \ {w} : job'[v] = job[v]
    BY <1>1 DEF JobInv, JobTypes
  <1>4. UNCHANGED <<Attempt, Told>> /\ SameCalls
    BY <1>1 DEF Attempt, Told, Asks, Effect, SameCalls
  <1>5. Attempt[w] = {Effect(w)} /\ Effect(w) \in Wallets \X Kinds
    BY <1>2, EffectTyped DEF Attempt
  <1>6. \A v \in Workers \ {w} : Brings(v)' <=> Brings(v)
    BY <1>1, <1>3 DEF Brings
  <1>7. s # "NEW" => Wanted' \in {Wanted, Wanted \ {Effect(w)}}
    <2>1. s # "NEW" => ~Brings(w)'
      BY <1>1, <1>2, <1>3 DEF Brings
    <2>2. QED
      BY <1>1, <1>4, <1>6, <2>1, WantedLess
  <1>8. CASE job[w] = "NEW" /\ s = "MINED" /\ onChain' = onChain \cup {Effect(w)}
    <2>1. Effect(w) \in Wanted
      BY <1>2, <1>8, WantedBrings DEF Brings
    <2>2. UNCHANGED DeadJobs
      BY <1>3, <1>8 DEF DeadJobs, Dead
    <2>3. QED
      BY <1>1, <1>4, <1>5, <1>7, <1>8, <2>1, <2>2, PromiseHappens
  <1>9. CASE job[w] = "NEW" /\ s \in Dead /\ UNCHANGED onChain
    <2>1. DeadJobs' = DeadJobs \cup {w}
      BY <1>3, <1>9 DEF DeadJobs
    <2>2. s # "NEW"
      BY <1>9 DEF Dead
    <2>3. QED
      BY <1>1, <1>4, <1>5, <1>7, <1>9, <2>1, <2>2, PromiseDies
  <1>10. CASE job[w] = "MINED" /\ s = "CONFIRMED" /\ UNCHANGED onChain
    <2>1. \A v \in Workers : Brings(v)' <=> Brings(v)
      BY <1>1, <1>2, <1>3, <1>6, <1>10 DEF Brings
    <2>2. UNCHANGED <<Wanted, DeadJobs>>
      BY <1>1, <1>3, <1>4, <1>10, <2>1, WantedSame DEF DeadJobs, Dead
    <2>3. QED
      BY <1>1, <1>4, <1>10, <2>2, PromiseStutters DEF promiseVars
  <1>11. QED
    BY <1>8, <1>9, <1>10 DEF JobMoves

LEMMA PromiseLate ==
    ASSUME JobInv, NEW e \in pending, LateJobMined(e)
    PROVE  Promise!Next
  <1>1. UNCHANGED <<call, pending, job, garbled>> /\ onChain' = onChain \cup {e}
    BY DEF LateJobMined
  <1>2. UNCHANGED <<Wanted, Attempt, DeadJobs, Told>>
    BY <1>1 DEF Wanted, MayStillBring, Attempt, DeadJobs, Told, Asks, Effect
  <1>3. e \in Wanted /\ e \in Wallets \X Kinds
    BY WantedBrings DEF JobInv, JobTypes
  <1>4. QED
    BY <1>1, <1>2, <1>3, PromiseHappens

\* Every step is one the promise allows, or none of its own.
LEMMA PromiseNext ==
    ASSUME TablesInv, CallInv, JobInv, [Next]_vars
    PROVE  [Promise!Next]_(Promise!vars)
  <1>1. CASE UNCHANGED <<call, relayVars>>
    BY <1>1, PromiseStutters
    DEF relayVars, promiseVars, Wanted, MayStillBring, Attempt, DeadJobs, Told, Asks, Effect
  <1>2. ASSUME NEW w \in Workers, Advances(w), UNCHANGED relayVars, call[w].op \notin RelayOps
        PROVE  UNCHANGED Promise!vars
    <2>1. ~Asks(w) /\ ~Asks(w)' /\ OthersAlike(w)
      BY <1>2 DEF Advances, Asks, RelayOps, Kinds
    <2>2. QED
      BY <1>2, <2>1, PromiseUntouched, PromiseStutters
  <1>3. ASSUME NEW w \in Workers, Arrives(w)
        PROVE  Promise!Next \/ UNCHANGED Promise!vars
    BY <1>3, ArrivalFacts, PromiseArrival
  <1>4. ASSUME NEW w \in Workers, AccountSteps(w), UNCHANGED relayVars
        PROVE  UNCHANGED Promise!vars
    BY <1>2, <1>4, AccountStepsAdvance DEF AccountOps, RelayOps
  <1>5. ASSUME NEW w \in Workers, OrderSteps(w), UNCHANGED relayVars
        PROVE  UNCHANGED Promise!vars
    <2>1. Advances(w)
      BY <1>5, OrderStepsHandle, HandlesAdvances
    <2>2. call[w].op \notin RelayOps
      BY <1>5, OrderStepsHandle DEF Handles, OrderOps, RelayOps
    <2>3. QED
      BY <1>2, <1>5, <2>1, <2>2
  <1>6. ASSUME NEW w \in Workers, RelaySteps(w)
        PROVE  Promise!Next \/ UNCHANGED Promise!vars
    BY <1>6, PromiseSubmit, PromisePoll, PromisePollFails, PromiseStatus DEF RelaySteps
  <1>7. ASSUME NEW w \in Workers, Ends(w), UNCHANGED offered
        PROVE  Promise!Next
    BY <1>7, PromiseEnds
  <1>8. ASSUME NEW p \in Params, ParamMoves(p) \/ ExpireParam(p), UNCHANGED relayVars
        PROVE  [Promise!Next]_(Promise!vars)
    BY <1>1, <1>8 DEF ParamMoves, ExpireParam
  <1>9. ASSUME NEW w \in Workers, NEW s \in JobStates, JobMoves(w, s)
        PROVE  Promise!Next \/ UNCHANGED Promise!vars
    BY <1>9, PromiseJob
  <1>10. ASSUME NEW e \in pending, LateJobMined(e)
         PROVE  Promise!Next
    BY <1>10, PromiseLate
  <1>11. CASE UNCHANGED vars
    BY <1>1, <1>11 DEF vars
  <1>12. QED
    BY <1>3, <1>4, <1>5, <1>6, <1>7, <1>8, <1>9, <1>10, <1>11 DEF Next, Works, Outside

LEMMA PromiseInit ==
    ASSUME Init
    PROVE  Promise!Init
  <1>1. /\ onChain = {} /\ pending = {} /\ garbled = {}
        /\ job = [w \in Workers |-> "none"]
        /\ call = [w \in Workers |-> Idle]
    BY DEF Init, AccountInit, RelayInit
  <1>2. \A w \in Workers : ~Asks(w) /\ ~Brings(w) /\ job[w] \notin Dead
    BY <1>1 DEF Asks, Brings, Idle, Kinds, Dead
  <1>3. Wanted = {}
    BY <1>1, <1>2, WantedBrings
  <1>4. Attempt = [w \in Workers |-> {}] /\ Told = [w \in Workers |-> "none"]
    BY <1>2 DEF Attempt, Told
  <1>5. DeadJobs = {}
    BY <1>2 DEF DeadJobs
  <1>6. QED
    BY <1>1, <1>3, <1>4, <1>5 DEF Wanted, Attempt, DeadJobs, Told, Promise!Init

-----------------------------------------------------------------------------
(* What was so during a call.                                                *)

\* An answer in its time, for one call; and what a call that is going to commit
\* has read already.  A deletion that lost its row has seen the pair without one.
AnswerTrue(w) ==
    LET follower == {call[w].arg}  me == {call[w].by} IN
    /\ Answered(w, "login", "new") => {} \in seen[w] /\ me \in seen[w]
    /\ Answered(w, "login", "old") => me \in seen[w]
    /\ Answered(w, "follow", "following") => {} \in seen[w] /\ follower \in seen[w]
    /\ Answered(w, "follow", "already") => follower \in seen[w] \/ call[w].hurt
    /\ Answered(w, "unfollow", "unfollowed") => {} \in seen[w] /\ follower \in seen[w]
    /\ Answered(w, "unfollow", "absent") => {} \in seen[w]
    /\ Answered(w, "rename", "renamed") => me \in seen[w]
    /\ Answered(w, "rename", "taken") => \E H \in seen[w] : H \notin {{}, me}
    /\ Answered(w, "rename", "error") => \/ \E H \in seen[w] : H \notin {{}, me}
                                         \/ call[w].hurt

ReadTrue(w) ==
    /\ Is(w, "login", "insert") => {} \in seen[w]
    /\ Is(w, "login", "backfill") => {call[w].by} \in seen[w]
    /\ Is(w, "follow", "commit") => {} \in seen[w]
    /\ Is(w, "unfollow", "commit") => /\ {call[w].arg} \in seen[w]
                                      /\ call[w].row \/ {} \in seen[w]
    /\ Is(w, "rename", "commit") /\ call[w].row => {call[w].by} \in seen[w]

SeenOK(w) ==
    /\ call[w].step # "idle" => Fact(w) \in seen[w]
    /\ AnswerTrue(w) /\ ReadTrue(w)

SeenInv ==
    /\ seen \in [Workers -> SUBSET SUBSET Wallets]
    /\ \A w \in Workers : SeenOK(w)

LEMMA SeenAnswers ==
    ASSUME SeenInv
    PROVE  AnswersTrue
  BY DEF SeenInv, SeenOK, AnswerTrue, AnswersTrue

\* The history of a call grows by what is so now.
LEMMA Watched ==
    ASSUME Watch, NEW w \in Workers, call'[w].step # "idle"
    PROVE  Fact(w)' \in seen'[w] /\ \A S \in seen[w] : S \in seen'[w]
  BY DEF Watch

LEMMA SeenTyped ==
    ASSUME SeenInv, Watch, TablesInv', CallInv'
    PROVE  seen' \in [Workers -> SUBSET SUBSET Wallets]
  <1>1. ASSUME NEW w \in Workers
        PROVE  Fact(w)' \in SUBSET Wallets
    <2>1. /\ call'[w].op = "login" => call'[w].by \in Wallets
          /\ call'[w].op \in {"follow", "unfollow"} /\ call'[w].by \in Wallets
               => call'[w].arg \in Wallets
          /\ call'[w].by \in Wallets \cup {None}
          /\ follows' \subseteq Wallets \X Wallets
      BY DEF CallInv, CallOK, Request, TablesInv
    <2>2. CASE call'[w].op = "login"
      BY <2>1, <2>2 DEF Fact
    <2>3. CASE call'[w].op \in {"follow", "unfollow"}
      BY <2>1, <2>3 DEF Fact
    <2>4. CASE call'[w].op = "rename"
      BY <2>4 DEF Fact, Holders
    <2>5. CASE call'[w].op \notin {"login", "follow", "unfollow", "rename"}
      BY <2>5 DEF Fact
    <2>6. QED
      BY <2>2, <2>3, <2>4, <2>5
  <1>2. QED
    BY <1>1 DEF Watch, SeenInv

\* A call that nothing happens to, but for the row that somebody deleted.
LEMMA SeenSame ==
    ASSUME SeenInv, Watch, NEW v \in Workers, call'[v] = call[v]
    PROVE  SeenOK(v)'
  <1>1. SeenOK(v)
    BY DEF SeenInv
  <1>2. CASE call[v].step = "idle"
    BY <1>2 DEF SeenOK, AnswerTrue, ReadTrue, Answered, Is
  <1>3. CASE call[v].step # "idle"
    <2>1. Fact(v)' \in seen'[v] /\ \A S \in seen[v] : S \in seen'[v]
      BY <1>3, Watched
    <2>2. AnswerTrue(v)'
      BY <1>1, <2>1 DEF SeenOK, AnswerTrue, Answered, Is
    <2>3. ReadTrue(v)'
      BY <1>1, <2>1 DEF SeenOK, ReadTrue, Is
    <2>4. QED
      BY <2>1, <2>2, <2>3 DEF SeenOK
  <1>4. QED
    BY <1>2, <1>3

LEMMA SeenStep ==
    ASSUME SeenInv, Watch, TablesInv', CallInv', NEW w \in Workers, OthersKept(w), SeenOK(w)'
    PROVE  SeenInv'
  BY SeenTyped, SeenSame DEF SeenInv, OthersKept

\* A call about something else, or before its first read, or that is over.
LEMMA SeenElse ==
    ASSUME SeenInv, Watch, TablesInv', CallInv', NEW w \in Workers, OthersKept(w),
           \/ call'[w].op \notin AccountOps
           \/ call'[w].step \in {"idle", "find"}
           \/ call'[w].answer \in {"unregistered", "forbidden"} /\ call'[w].step = "done"
    PROVE  SeenInv'
  <1>1. call'[w].step # "idle" => Fact(w)' \in seen'[w]
    BY Watched
  <1>2. AnswerTrue(w)'
    BY DEF AnswerTrue, Answered, Is, AccountOps
  <1>3. ReadTrue(w)'
    BY DEF ReadTrue, Is, AccountOps
  <1>4. QED
    BY <1>1, <1>2, <1>3, SeenStep DEF SeenOK

\* What a step of an account call starts from.
LEMMA SeenBefore ==
    ASSUME SeenInv, CallInv, NEW w \in Workers, call[w].step # "idle"
    PROVE  Fact(w) \in seen[w] /\ AnswerTrue(w) /\ ReadTrue(w)
  BY DEF SeenInv, SeenOK

LEMMA SeenLoginFind ==
    ASSUME SeenInv, Watch, CallInv, TablesInv', CallInv', NEW w \in Workers, LoginFind(w)
    PROVE  SeenInv'
  <1>1. call[w].op = "login" /\ call[w].step = "find" /\ Fact(w) \in seen[w]
    BY SeenBefore DEF LoginFind, Is
  <1>2. Fact(w) = IF Exists(call[w].by) THEN {call[w].by} ELSE {}
    BY <1>1 DEF Fact
  <1>3. CASE ~Exists(call[w].by) /\ Move(w, "insert", FALSE)
    <2>1. Continues(w) /\ call'[w].step = "insert"
      BY <1>3, MoveFacts DEF CallInv, Steps
    <2>2. Fact(w)' \in seen'[w] /\ {} \in seen'[w]
      BY <1>1, <1>2, <1>3, <2>1, Watched
    <2>3. SeenOK(w)'
      BY <1>1, <2>1, <2>2 DEF SeenOK, AnswerTrue, ReadTrue, Answered, Is, Continues
    <2>4. QED
      BY <2>1, <2>3, SeenStep DEF Continues
  <1>4. CASE Exists(call[w].by) /\ Move(w, "backfill", FALSE)
    <2>1. Continues(w) /\ call'[w].step = "backfill"
      BY <1>4, MoveFacts DEF CallInv, Steps
    <2>2. Fact(w)' \in seen'[w] /\ {call'[w].by} \in seen'[w]
      BY <1>1, <1>2, <1>4, <2>1, Watched DEF Continues
    <2>3. SeenOK(w)'
      BY <1>1, <2>1, <2>2 DEF SeenOK, AnswerTrue, ReadTrue, Answered, Is, Continues
    <2>4. QED
      BY <2>1, <2>3, SeenStep DEF Continues
  <1>5. CASE Exists(call[w].by) /\ Reply(w, "old", FALSE)
    <2>1. Continues(w) /\ call'[w].step = "done" /\ call'[w].answer = "old"
      BY <1>5, ReplyFacts DEF CallInv, Answers
    <2>2. Fact(w)' \in seen'[w] /\ {call'[w].by} \in seen'[w]
      BY <1>1, <1>2, <1>5, <2>1, Watched DEF Continues
    <2>3. SeenOK(w)'
      BY <1>1, <2>1, <2>2 DEF SeenOK, AnswerTrue, ReadTrue, Answered, Is, Continues
    <2>4. QED
      BY <2>1, <2>3, SeenStep DEF Continues
  <1>6. QED
    BY <1>3, <1>4, <1>5 DEF LoginFind

LEMMA SeenLoginBackfill ==
    ASSUME SeenInv, Watch, CallInv, TablesInv', CallInv', NEW w \in Workers, NEW o,
           LoginBackfill(w, o)
    PROVE  SeenInv'
  <1>1. /\ call[w].op = "login" /\ call[w].step = "backfill"
        /\ {call[w].by} \in seen[w]
    BY SeenBefore DEF LoginBackfill, Is, ReadTrue
  <1>2. PICK answer \in {"old", "error"}, hurt \in BOOLEAN : Reply(w, answer, hurt)
    BY DEF LoginBackfill
  <1>3. Continues(w) /\ call'[w].step = "done" /\ call'[w].answer = answer
    BY <1>2, ReplyFacts DEF CallInv, Answers
  <1>4. Fact(w)' \in seen'[w] /\ {call'[w].by} \in seen'[w]
    BY <1>1, <1>3, Watched DEF Continues
  <1>5. SeenOK(w)'
    BY <1>1, <1>3, <1>4 DEF SeenOK, AnswerTrue, ReadTrue, Answered, Is, Continues
  <1>6. QED
    BY <1>3, <1>5, SeenStep DEF Continues

LEMMA SeenLoginInsert ==
    ASSUME SeenInv, Watch, CallInv, TablesInv', CallInv', NEW w \in Workers, NEW o,
           LoginInsert(w, o)
    PROVE  SeenInv'
  <1>1. /\ call[w].op = "login" /\ call[w].step = "insert"
        /\ {} \in seen[w]
    BY SeenBefore DEF LoginInsert, Is, ReadTrue
  <1>2. PICK answer \in {"new", "error"}, hurt \in BOOLEAN : Reply(w, answer, hurt)
    BY DEF LoginInsert
  <1>3. Continues(w) /\ call'[w].step = "done" /\ call'[w].answer = answer
    BY <1>2, ReplyFacts DEF CallInv, Answers
  <1>4. Fact(w)' \in seen'[w] /\ {} \in seen'[w]
    BY <1>1, <1>3, Watched DEF Continues
  <1>5. answer = "new" => {call'[w].by} \in seen'[w]
    <2>1. call'[w].op = "login"
      BY <1>1, <1>3 DEF Continues
    <2>2. Fact(w)' = IF users'[call'[w].by] # NoUser THEN {call'[w].by} ELSE {}
      BY <2>1 DEF Fact, Exists
    <2>3. answer = "new" => users'[call'[w].by] # NoUser
      BY <1>3, <2>1 DEF CallInv, CallOK, Exists
    <2>4. QED
      BY <1>4, <2>2, <2>3
  <1>6. SeenOK(w)'
    BY <1>1, <1>3, <1>4, <1>5 DEF SeenOK, AnswerTrue, ReadTrue, Answered, Is, Continues
  <1>7. QED
    BY <1>3, <1>6, SeenStep DEF Continues

LEMMA SeenFollowFind ==
    ASSUME SeenInv, Watch, CallInv, TablesInv', CallInv', NEW w \in Workers, FollowFind(w)
    PROVE  SeenInv'
  <1>1. call[w].op = "follow" /\ call[w].step = "find" /\ Fact(w) \in seen[w]
    BY SeenBefore DEF FollowFind, Is
  <1>2. Fact(w) = IF Edge(w) \in follows THEN {call[w].arg} ELSE {}
    BY <1>1 DEF Fact, Edge
  <1>3. CASE Edge(w) \notin follows /\ Move(w, "commit", FALSE)
    <2>1. Continues(w) /\ call'[w].step = "commit"
      BY <1>3, MoveFacts DEF CallInv, Steps
    <2>2. Fact(w)' \in seen'[w] /\ {} \in seen'[w]
      BY <1>1, <1>2, <1>3, <2>1, Watched
    <2>3. SeenOK(w)'
      BY <1>1, <2>1, <2>2 DEF SeenOK, AnswerTrue, ReadTrue, Answered, Is, Continues
    <2>4. QED
      BY <2>1, <2>3, SeenStep DEF Continues
  <1>4. ASSUME NEW answer \in {"self", "unknown", "already"}, Reply(w, answer, FALSE),
               answer = "already" => Edge(w) \in follows
        PROVE  SeenInv'
    <2>1. Continues(w) /\ call'[w].step = "done" /\ call'[w].answer = answer
      BY <1>4, ReplyFacts DEF CallInv, Answers
    <2>2. Fact(w)' \in seen'[w] /\ (answer = "already" => {call'[w].arg} \in seen'[w])
      BY <1>1, <1>2, <1>4, <2>1, Watched DEF Continues
    <2>3. SeenOK(w)'
      BY <1>1, <2>1, <2>2 DEF SeenOK, AnswerTrue, ReadTrue, Answered, Is, Continues
    <2>4. QED
      BY <2>1, <2>3, SeenStep DEF Continues
  <1>5. QED
    BY <1>3, <1>4 DEF FollowFind

LEMMA SeenFollowCommit ==
    ASSUME SeenInv, Watch, CallInv, TablesInv', CallInv', NEW w \in Workers,
           NEW o \in Outcomes, FollowCommit(w, o)
    PROVE  SeenInv'
  <1>1. /\ call[w].op = "follow" /\ call[w].step = "commit"
        /\ Fact(w) \in seen[w] /\ {} \in seen[w]
    BY SeenBefore DEF FollowCommit, Is, ReadTrue
  <1>2. PICK answer \in {"following", "already"}, hurt \in BOOLEAN :
            /\ Reply(w, answer, hurt)
            /\ answer = "following" => o = "ok"
            /\ answer = "already" => hurt = TRUE \/ Edge(w) \in follows
    <2>1. Reply(w, IF o = "ok" /\ Edge(w) \notin follows THEN "following" ELSE "already",
                o # "ok")
      BY DEF FollowCommit
    <2>2. CASE o = "ok" /\ Edge(w) \notin follows
      BY <2>1, <2>2
    <2>3. CASE o = "ok" /\ Edge(w) \in follows
      BY <2>1, <2>3
    <2>4. CASE o # "ok"
      <3>1. (o # "ok") = TRUE
        BY <2>4
      <3>2. Reply(w, "already", TRUE)
        BY <2>1, <2>4, <3>1
      <3>3. QED
        BY <3>2
    <2>5. QED
      BY <2>2, <2>3, <2>4
  <1>3. /\ Continues(w) /\ call'[w].step = "done" /\ call'[w].answer = answer
        /\ call'[w].hurt = hurt
    BY <1>2, ReplyFacts DEF CallInv, Answers
  <1>4. Fact(w)' \in seen'[w] /\ {} \in seen'[w] /\ Fact(w) \in seen'[w]
    BY <1>1, <1>3, Watched DEF Continues
  <1>5. /\ call'[w].op = "follow" /\ Edge(w)' = Edge(w)
        /\ call'[w].arg = call[w].arg
    BY <1>1, <1>3 DEF Continues, Edge
  <1>6. answer = "following" => {call'[w].arg} \in seen'[w]
    <2>1. answer = "following" => Edge(w)' \in follows'
      BY <1>2, <1>5 DEF FollowCommit, Took
    <2>2. Edge(w)' \in follows' => Fact(w)' = {call'[w].arg}
      BY <1>5 DEF Fact, Edge
    <2>3. QED
      BY <1>4, <2>1, <2>2
  <1>7. answer = "already" => {call'[w].arg} \in seen'[w] \/ call'[w].hurt
    <2>1. Edge(w) \in follows => Fact(w) = {call[w].arg}
      BY <1>1 DEF Fact, Edge
    <2>2. QED
      BY <1>2, <1>3, <1>4, <1>5, <2>1
  <1>8. SeenOK(w)'
    BY <1>1, <1>3, <1>4, <1>6, <1>7 DEF SeenOK, AnswerTrue, ReadTrue, Answered, Is, Continues
  <1>9. QED
    BY <1>3, <1>8, SeenStep DEF Continues

LEMMA SeenUnfollowFind ==
    ASSUME SeenInv, Watch, CallInv, TablesInv', CallInv', NEW w \in Workers, UnfollowFind(w)
    PROVE  SeenInv'
  <1>1. call[w].op = "unfollow" /\ call[w].step = "find" /\ Fact(w) \in seen[w]
    BY SeenBefore DEF UnfollowFind, Is
  <1>2. Fact(w) = IF Edge(w) \in follows THEN {call[w].arg} ELSE {}
    BY <1>1 DEF Fact, Edge
  <1>3. CASE Edge(w) \in follows /\ Move(w, "commit", TRUE)
    <2>1. Continues(w) /\ call'[w].step = "commit" /\ call'[w].row = TRUE
      BY <1>3, MoveFacts DEF CallInv, Steps
    <2>2. Fact(w)' \in seen'[w] /\ {call'[w].arg} \in seen'[w]
      BY <1>1, <1>2, <1>3, <2>1, Watched DEF Continues
    <2>3. SeenOK(w)'
      BY <1>1, <2>1, <2>2 DEF SeenOK, AnswerTrue, ReadTrue, Answered, Is, Continues
    <2>4. QED
      BY <2>1, <2>3, SeenStep DEF Continues
  <1>4. CASE Edge(w) \notin follows /\ Reply(w, "absent", FALSE)
    <2>1. Continues(w) /\ call'[w].step = "done" /\ call'[w].answer = "absent"
      BY <1>4, ReplyFacts DEF CallInv, Answers
    <2>2. Fact(w)' \in seen'[w] /\ {} \in seen'[w]
      BY <1>1, <1>2, <1>4, <2>1, Watched
    <2>3. SeenOK(w)'
      BY <1>1, <2>1, <2>2 DEF SeenOK, AnswerTrue, ReadTrue, Answered, Is, Continues
    <2>4. QED
      BY <2>1, <2>3, SeenStep DEF Continues
  <1>5. QED
    BY <1>3, <1>4 DEF UnfollowFind

LEMMA SeenUnfollowCommit ==
    ASSUME SeenInv, Watch, CallInv, TablesInv', CallInv', NEW w \in Workers,
           NEW o \in Outcomes, UnfollowCommit(w, o)
    PROVE  SeenInv'
  <1>1. /\ call[w].op = "unfollow" /\ call[w].step = "commit"
        /\ {call[w].arg} \in seen[w]
        /\ call[w].row \/ {} \in seen[w]
    BY SeenBefore DEF UnfollowCommit, Is, ReadTrue
  <1>2. /\ OthersAlike(w)
        /\ call'[w].op = call[w].op /\ call'[w].by = call[w].by
        /\ call'[w].arg = call[w].arg /\ call'[w].step = "done"
        /\ call'[w].answer = IF o = "ok" THEN "unfollowed" ELSE "error"
        /\ \A v \in Workers \ {w} :
                \/ call'[v] = call[v]
                \/ /\ Took(o) /\ call[w].row
                   /\ Is(v, "unfollow", "commit") /\ Edge(v) = Edge(w)
                   /\ call'[v].row = FALSE
    BY UnfollowFacts DEF CallInv
  <1>3. follows' = IF Took(o) /\ call[w].row THEN follows \ {Edge(w)} ELSE follows
    BY DEF UnfollowCommit
  <1>4. Fact(w)' \in seen'[w] /\ {call'[w].arg} \in seen'[w]
        /\ ({} \in seen[w] => {} \in seen'[w])
    <2>1. Fact(w)' \in seen'[w] /\ \A S \in seen[w] : S \in seen'[w]
      BY <1>2, Watched
    <2>2. QED
      BY <1>1, <1>2, <2>1
  <1>5. o = "ok" => {} \in seen'[w]
    <2>1. CASE call[w].row
      <3>1. o = "ok" => Edge(w)' \notin follows'
        BY <1>2, <1>3, <2>1 DEF Took, Edge
      <3>2. Edge(w)' \notin follows' => Fact(w)' = {}
        BY <1>1, <1>2 DEF Fact, Edge
      <3>3. QED
        BY <1>4, <3>1, <3>2
    <2>2. CASE ~call[w].row
      BY <1>1, <1>4, <2>2
    <2>3. QED
      BY <2>1, <2>2
  <1>6. SeenOK(w)'
    BY <1>1, <1>2, <1>4, <1>5 DEF SeenOK, AnswerTrue, ReadTrue, Answered, Is
  <1>7. ASSUME NEW v \in Workers \ {w}
        PROVE  SeenOK(v)'
    <2>1. CASE call'[v] = call[v]
      BY <2>1, SeenSame
    <2>2. CASE /\ Took(o) /\ call[w].row
               /\ Is(v, "unfollow", "commit") /\ Edge(v) = Edge(w)
               /\ call'[v].row = FALSE
      <3>1. /\ call[v].op = "unfollow" /\ call[v].step = "commit"
            /\ call'[v].op = "unfollow" /\ call'[v].step = "commit"
            /\ call'[v].by = call[v].by /\ call'[v].arg = call[v].arg
        BY <1>2, <2>2 DEF OthersAlike, Is
      <3>2. /\ Fact(v)' \in seen'[v] /\ \A S \in seen[v] : S \in seen'[v]
        BY <3>1, Watched
      <3>3. {call'[v].arg} \in seen'[v]
        BY <3>1, <3>2, SeenBefore DEF ReadTrue, Is
      <3>4. Fact(v)' = {}
        <4>1. Edge(v)' \notin follows'
          BY <1>3, <2>2, <3>1 DEF Edge
        <4>2. QED
          BY <3>1, <4>1 DEF Fact, Edge
      <3>5. QED
        BY <3>1, <3>2, <3>3, <3>4 DEF SeenOK, AnswerTrue, ReadTrue, Answered, Is
    <2>3. QED
      BY <1>2, <2>1, <2>2
  <1>8. QED
    BY <1>6, <1>7, SeenTyped DEF SeenInv

LEMMA SeenRenameFind ==
    ASSUME SeenInv, Watch, CallInv, TablesInv', CallInv', NEW w \in Workers, RenameFind(w)
    PROVE  SeenInv'
  <1>1. /\ call[w].op = "rename" /\ call[w].step = "find" /\ Fact(w) \in seen[w]
        /\ call[w].by \in Wallets
    BY SeenBefore DEF RenameFind, Is, CallInv, CallOK
  <1>2. Fact(w) = Holders(call[w].arg)
    BY <1>1 DEF Fact
  <1>3. ASSUME Holders(call[w].arg) \ {call[w].by} = {}, NEW row \in BOOLEAN,
               row = (users[call[w].by].name = call[w].arg), Move(w, "commit", row)
        PROVE  SeenInv'
    <2>1. Continues(w) /\ call'[w].step = "commit" /\ call'[w].row = row
      BY <1>3, MoveFacts DEF CallInv, Steps
    <2>2. row => Holders(call[w].arg) = {call[w].by}
      BY <1>1, <1>3 DEF Holders
    <2>3. Fact(w)' \in seen'[w] /\ (row => {call'[w].by} \in seen'[w])
      BY <1>1, <1>2, <2>1, <2>2, Watched DEF Continues
    <2>4. SeenOK(w)'
      BY <1>1, <2>1, <2>3 DEF SeenOK, AnswerTrue, ReadTrue, Answered, Is, Continues
    <2>5. QED
      BY <2>1, <2>4, SeenStep DEF Continues
  <1>4. CASE Holders(call[w].arg) \ {call[w].by} # {} /\ Reply(w, "taken", FALSE)
    <2>1. Continues(w) /\ call'[w].step = "done" /\ call'[w].answer = "taken"
      BY <1>4, ReplyFacts DEF CallInv, Answers
    <2>2. Fact(w)' \in seen'[w] /\ Holders(call[w].arg) \in seen'[w]
          /\ Holders(call[w].arg) \notin {{}, {call'[w].by}}
      BY <1>1, <1>2, <1>4, <2>1, Watched DEF Continues
    <2>3. SeenOK(w)'
      BY <1>1, <2>1, <2>2 DEF SeenOK, AnswerTrue, ReadTrue, Answered, Is, Continues
    <2>4. QED
      BY <2>1, <2>3, SeenStep DEF Continues
  <1>5. QED
    BY <1>3, <1>4 DEF RenameFind

LEMMA SeenRenameCommit ==
    ASSUME SeenInv, Watch, CallInv, TablesInv, TablesInv', CallInv', NEW w \in Workers,
           NEW o \in Outcomes, RenameCommit(w, o)
    PROVE  SeenInv'
  <1> DEFINE others == Holders(call[w].arg) \ {call[w].by}
             conflict == ~call[w].row /\ others # {}
  <1>1. /\ call[w].op = "rename" /\ call[w].step = "commit" /\ Fact(w) \in seen[w]
        /\ call[w].by \in Wallets /\ call[w].arg \in Names
        /\ call[w].row => {call[w].by} \in seen[w]
        /\ call[w].row \in BOOLEAN
    BY SeenBefore DEF RenameCommit, Is, ReadTrue, CallInv, CallOK, Request
  <1>2. Fact(w) = Holders(call[w].arg)
    BY <1>1 DEF Fact
  <1>3. users' = IF call[w].row \/ conflict \/ ~Took(o) THEN users
                 ELSE [users EXCEPT ![call[w].by].name = call[w].arg]
    BY DEF RenameCommit
  <1>4. PICK answer \in {"renamed", "error"}, hurt \in BOOLEAN :
            /\ Reply(w, answer, hurt)
            /\ answer = "renamed" => o = "ok" /\ ~conflict
            /\ answer = "error" => hurt = TRUE \/ conflict
    <2>1. Reply(w, IF o = "ok" /\ ~conflict THEN "renamed" ELSE "error", o # "ok")
      BY DEF RenameCommit
    <2>2. CASE o # "ok"
      <3>1. (o # "ok") = TRUE
        BY <2>2
      <3>2. Reply(w, "error", TRUE)
        BY <2>1, <2>2, <3>1
      <3>3. QED
        BY <3>2
    <2>3. CASE o = "ok"
      BY <2>1, <2>3
    <2>4. QED
      BY <2>2, <2>3
  <1>5. /\ Continues(w) /\ call'[w].step = "done" /\ call'[w].answer = answer
        /\ call'[w].hurt = hurt
    BY <1>4, ReplyFacts DEF CallInv, Answers
  <1>6. /\ Fact(w)' \in seen'[w] /\ Holders(call[w].arg) \in seen'[w]
        /\ call[w].row => {call[w].by} \in seen'[w]
    <2>1. Fact(w)' \in seen'[w] /\ \A S \in seen[w] : S \in seen'[w]
      BY <1>5, Watched
    <2>2. Holders(call[w].arg) \in seen[w]
      BY <1>1, <1>2
    <2>3. QED
      BY <1>1, <2>1, <2>2
  <1>7. answer = "renamed" => {call'[w].by} \in seen'[w]
    <2>1. CASE call[w].row
      BY <1>5, <1>6, <2>1 DEF Continues
    <2>2. CASE ~call[w].row /\ answer = "renamed"
      <3>1. others = {} /\ users' = [users EXCEPT ![call[w].by].name = call[w].arg]
        BY <1>3, <1>4, <2>2 DEF Took
      <3>2. /\ users'[call[w].by].name = call[w].arg
            /\ \A b \in Wallets \ {call[w].by} : users'[b] = users[b]
                                                 /\ users[b].name # call[w].arg
        BY <1>1, <3>1 DEF TablesInv, Rows, Holders
      <3>3. {a \in Wallets : users'[a].name = call[w].arg} = {call[w].by}
        BY <1>1, <3>2
      <3>4. Fact(w)' = {a \in Wallets : users'[a].name = call'[w].arg}
        BY <1>1, <1>5 DEF Fact, Holders, Continues
      <3>5. QED
        BY <1>5, <1>6, <3>3, <3>4 DEF Continues
    <2>3. QED
      BY <1>1, <2>1, <2>2
  <1>8. answer = "error" => \/ call'[w].hurt
                            \/ \E H \in seen'[w] : H \notin {{}, {call'[w].by}}
    <2>1. conflict => Holders(call[w].arg) \notin {{}, {call'[w].by}}
      BY <1>5 DEF Continues
    <2>2. QED
      BY <1>4, <1>5, <1>6, <2>1
  <1>9. SeenOK(w)'
    BY <1>1, <1>4, <1>5, <1>6, <1>7, <1>8
    DEF SeenOK, AnswerTrue, ReadTrue, Answered, Is, Continues
  <1>10. QED
    BY <1>5, <1>9, SeenStep DEF Continues

LEMMA SeenNext ==
    ASSUME SeenInv, TablesInv, CallInv, [Next]_vars
    PROVE  SeenInv'
  <1>1. TablesInv' /\ CallInv'
    BY TablesCallsNext
  <1>2. CASE UNCHANGED vars
    <2>1. UNCHANGED <<users, follows, call, seen>>
      BY <1>2 DEF vars, tables
    <2>2. QED
      <3>1. \A w \in Workers : Fact(w)' = Fact(w)
        BY <2>1 DEF Fact, Exists, Holders
      <3>2. \A w \in Workers : (AnswerTrue(w)' <=> AnswerTrue(w)) /\ (ReadTrue(w)' <=> ReadTrue(w))
        BY <2>1 DEF AnswerTrue, ReadTrue, Answered, Is
      <3>3. QED
        BY <2>1, <3>1, <3>2 DEF SeenInv, SeenOK
  <1>3. ASSUME Watch, UNCHANGED call
        PROVE  SeenInv'
    <2>1. \A v \in Workers : SeenOK(v)'
      BY <1>3, SeenSame
    <2>2. QED
      BY <1>1, <1>3, <2>1, SeenTyped DEF SeenInv
  <1>4. ASSUME Watch, NEW w \in Workers, Arrives(w)
        PROVE  SeenInv'
    <2>1. /\ OthersKept(w)
          /\ \/ call'[w].step = "find"
             \/ call'[w].answer \in {"unregistered", "forbidden"} /\ call'[w].step = "done"
      BY <1>4, ArrivalFacts DEF Arrival, Begins
    <2>2. QED
      BY <1>1, <1>4, <2>1, SeenElse
  <1>5. ASSUME Watch, NEW w \in Workers, AccountSteps(w)
        PROVE  SeenInv'
    BY <1>1, <1>5, SeenLoginFind, SeenFollowFind, SeenUnfollowFind, SeenRenameFind,
       SeenLoginBackfill, SeenLoginInsert, SeenFollowCommit, SeenUnfollowCommit,
       SeenRenameCommit DEF AccountSteps
  <1>6. ASSUME Watch, NEW w \in Workers, NEW ops, Handles(w, ops),
               \A op \in ops : op \notin AccountOps
        PROVE  SeenInv'
    <2>1. CASE UNCHANGED call
      BY <1>3, <1>6, <2>1
    <2>2. CASE ~UNCHANGED call
      <3>1. OthersKept(w) /\ call'[w].op = call[w].op
        <4>1. CASE \E answer \in Answers, hurt \in BOOLEAN : Reply(w, answer, hurt)
          BY <4>1, ReplyFacts DEF CallInv, Continues
        <4>2. CASE \E step \in {"select", "create", "commit", "request", "poll"} :
                        Move(w, step, FALSE)
          BY <4>2, MoveFacts DEF CallInv, Continues, Steps
        <4>3. QED
          BY <1>6, <2>2, <4>1, <4>2 DEF Handles
      <3>2. QED
        BY <1>1, <1>6, <3>1, SeenElse DEF Handles
    <2>3. QED
      BY <2>1, <2>2
  <1>7. ASSUME Watch, NEW w \in Workers, Ends(w), UNCHANGED offered
        PROVE  SeenInv'
    <2>1. OthersKept(w) /\ call'[w].step = "idle"
      BY <1>7, ReturnInv DEF Ends, Idle
    <2>2. QED
      BY <1>1, <1>7, <2>1, SeenElse
  <1>8. ASSUME Watch, Outside
        PROVE  SeenInv'
    <2>1. UNCHANGED call
      BY <1>8 DEF Outside, ParamMoves, ExpireParam, JobMoves, LateJobMined
    <2>2. QED
      BY <1>3, <1>8, <2>1
  <1>9. ASSUME Watch, NEW w \in Workers, OrderSteps(w)
        PROVE  SeenInv'
    BY <1>6, <1>9, OrderStepsHandle DEF OrderOps, AccountOps
  <1>10. ASSUME Watch, NEW w \in Workers, RelaySteps(w)
         PROVE  SeenInv'
    BY <1>6, <1>10, RelayStepsHandle DEF RelayOps, AccountOps
  <1>11. QED
    BY <1>2, <1>4, <1>5, <1>7, <1>8, <1>9, <1>10 DEF Next, Works

LEMMA SeenInit ==
    ASSUME Init
    PROVE  SeenInv
  <1>1. seen = [w \in Workers |-> {}] /\ call = [w \in Workers |-> Idle]
    BY DEF Init, AccountInit
  <1>2. QED
    BY <1>1 DEF SeenInv, SeenOK, AnswerTrue, ReadTrue, Answered, Is, Idle

-----------------------------------------------------------------------------
(* Of the logins that made a row one was told so.                            *)

NewOnce ==
    \A v, w \in Workers : Answered(v, "login", "new") /\ Answered(w, "login", "new")
                          /\ v # w => call[v].by # call[w].by

\* Every step but the insert: nobody else comes to be told that he is new.
LEMMA NewKept ==
    ASSUME NewOnce,
           \A v \in Workers : Answered(v, "login", "new")' =>
                                Answered(v, "login", "new") /\ call'[v].by = call[v].by
    PROVE  NewOnce'
  BY DEF NewOnce

\* The row was not there, but it is for whoever has been told so before.
LEMMA NewInserted ==
    ASSUME NewOnce, CallInv, NEW w \in Workers, NEW o, LoginInsert(w, o)
    PROVE  NewOnce'
  <1>1. PICK answer \in {"new", "error"}, hurt \in BOOLEAN :
            Reply(w, answer, hurt) /\ (answer = "new" => ~Exists(call[w].by))
    BY DEF LoginInsert
  <1>2. Continues(w) /\ call'[w].answer = answer
    BY <1>1, ReplyFacts DEF CallInv, Answers
  <1>3. \A v \in Workers \ {w} : call'[v] = call[v]
    BY <1>2 DEF Continues, OthersKept
  <1>4. \A v \in Workers \ {w} : Answered(v, "login", "new") => Exists(call[v].by)
    BY DEF CallInv, CallOK, Answered, Is
  <1>5. CASE answer = "new"
    <2>1. \A v \in Workers \ {w} : Answered(v, "login", "new") => call[v].by # call[w].by
      BY <1>1, <1>4, <1>5
    <2>2. \A v \in Workers \ {w} : Answered(v, "login", "new")' <=> Answered(v, "login", "new")
      BY <1>3 DEF Answered, Is
    <2>3. QED
      BY <1>2, <1>3, <2>1, <2>2 DEF NewOnce, Continues
  <1>6. CASE answer # "new"
    <2>1. ~Answered(w, "login", "new")'
      BY <1>2, <1>6 DEF Answered
    <2>2. \A v \in Workers \ {w} : Answered(v, "login", "new")' <=> Answered(v, "login", "new")
      BY <1>3 DEF Answered, Is
    <2>3. QED
      BY <1>3, <2>1, <2>2, NewKept
  <1>7. QED
    BY <1>5, <1>6

LEMMA NewNext ==
    ASSUME NewOnce, CallInv, TablesInv, [Next]_vars
    PROVE  NewOnce'
  <1>1. CASE UNCHANGED call
    BY <1>1, NewKept DEF Answered, Is
  <1>2. ASSUME NEW w \in Workers, OthersAlike(w), call'[w].op # "login" \/ call'[w].answer # "new"
        PROVE  NewOnce'
    BY <1>2, NewKept DEF OthersAlike, Answered, Is
  <1>3. ASSUME NEW w \in Workers, Arrives(w)
        PROVE  NewOnce'
    BY <1>2, <1>3, ArrivalFacts DEF Arrival, Begins, OthersKept, OthersAlike
  <1>4. ASSUME NEW w \in Workers, Advances(w), call[w].op # "login"
        PROVE  NewOnce'
    BY <1>2, <1>4 DEF Advances
  <1>5. ASSUME NEW w \in Workers, NEW o, LoginFind(w) \/ LoginBackfill(w, o)
        PROVE  NewOnce'
    <2>1. call[w].step # "done" /\ call[w].answer = "none"
      BY <1>5 DEF LoginFind, LoginBackfill, Is, CallInv, CallOK
    <2>2. CASE \E step \in {"insert", "backfill"} : Move(w, step, FALSE)
      <3>1. Continues(w) /\ call'[w].answer = "none"
        BY <2>1, <2>2, MoveFacts DEF CallInv, Steps
      <3>2. QED
        BY <1>2, <3>1 DEF Continues, OthersKept, OthersAlike
    <2>3. CASE \E answer \in {"old", "error"}, hurt \in BOOLEAN : Reply(w, answer, hurt)
      <3>1. Continues(w) /\ call'[w].answer # "new"
        BY <2>3, ReplyFacts DEF CallInv, Answers
      <3>2. QED
        BY <1>2, <3>1 DEF Continues, OthersKept, OthersAlike
    <2>4. QED
      BY <1>5, <2>2, <2>3 DEF LoginFind, LoginBackfill
  <1>6. ASSUME NEW w \in Workers, AccountSteps(w)
        PROVE  NewOnce'
    <2>1. CASE call[w].op # "login"
      BY <1>4, <1>6, <2>1, AccountStepsAdvance
    <2>2. CASE call[w].op = "login"
      BY <1>5, <1>6, <2>2, NewInserted
      DEF AccountSteps, FollowFind, UnfollowFind, RenameFind, FollowCommit, UnfollowCommit,
          RenameCommit, Is
    <2>3. QED
      BY <2>1, <2>2
  <1>7. ASSUME NEW w \in Workers, OrderSteps(w)
        PROVE  NewOnce'
    <2>1. Advances(w) /\ call[w].op \in OrderOps
      BY <1>7, OrderStepsHandle, HandlesAdvances DEF Handles
    <2>2. QED
      BY <1>4, <2>1 DEF OrderOps
  <1>8. ASSUME NEW w \in Workers, RelaySteps(w)
        PROVE  NewOnce'
    <2>1. Advances(w) /\ call[w].op \in RelayOps
      BY <1>8, RelayStepsHandle, HandlesAdvances DEF Handles
    <2>2. QED
      BY <1>4, <2>1 DEF RelayOps
  <1>9. ASSUME NEW w \in Workers, Ends(w), UNCHANGED offered
        PROVE  NewOnce'
    BY <1>2, <1>9, ReturnInv DEF Ends, OthersKept, OthersAlike, Idle
  <1>10. CASE Outside
    BY <1>1, <1>10 DEF Outside, ParamMoves, ExpireParam, JobMoves, LateJobMined
  <1>11. CASE UNCHANGED vars
    BY <1>1, <1>11 DEF vars
  <1>12. QED
    BY <1>3, <1>6, <1>7, <1>8, <1>9, <1>10, <1>11 DEF Next, Works

LEMMA NewInit ==
    ASSUME Init
    PROVE  NewOnce
  BY DEF Init, AccountInit, NewOnce, Answered, Is, Idle

-----------------------------------------------------------------------------
(* The inductive invariant and what follows from it.                         *)

IInv ==
    /\ TablesInv /\ CallInv /\ SeenInv /\ NewOnce
    /\ FetchInv /\ AmountsInv /\ KeyInv /\ OrderInv
    /\ JobInv

\* IInv is an invariant of any number of overlapping calls of any users: no step of a
\* call, of the CLOB, of the relayer or of the chain leads out of it.
THEOREM Inductive == Spec => []IInv
  <1>1. Init => IInv
    BY TablesCallsInit, SeenInit, NewInit, FetchInit, AmountsInit, KeyInit, OrdersInit,
       JobsInit DEF IInv
  <1>2. IInv /\ [Next]_vars => IInv'
    BY TablesCallsNext, SeenNext, NewNext, FetchNext, AmountsNext, KeyNext, OrdersNext,
       JobsNext DEF IInv
  <1>3. QED
    BY <1>1, <1>2, PTL DEF Spec

LEMMA TypesFollow ==
    ASSUME IInv
    PROVE  TypeOK
  <1>1. AccountTypeOK
    BY DEF IInv, TablesInv, Rows, CallInv, CallOK, Request, SeenInv, AccountTypeOK
  <1>2. OrderTypeOK
    BY DEF IInv, FetchInv, KeyInv, KeyTypes, OrderInv, OrderTypeOK
  <1>3. RelayTypeOK
    BY DEF IInv, JobInv, JobTypes, JobOK, RelayTypeOK
  <1>4. QED
    BY <1>1, <1>2, <1>3 DEF TypeOK

\* The variables of all requests have their types; keys are stored only for
\* users who have an account, and a job that is mined has its effect on chain.
THEOREM TypeCorrect == Spec => []TypeOK
  BY Inductive, TypesFollow, PTL

\* However logins and renames overlap, and whichever commits are refused or
\* seem to be (users.py, register_wallet and update_me): no Privy user, email
\* or username has two rows, a user has exactly one account, and no two calls
\* are both told that the wallet is new.
THEOREM RegisteredOnceAlways == Spec => []RegisteredOnce
  <1>1. IInv => RegisteredOnce
    BY DEF IInv, TablesInv, NewOnce, RegisteredOnce
  <1>2. QED
    BY <1>1, Inductive, PTL

\* What the answers of the login, of follow and unfollow and of the renaming
\* say was so at some moment of the call, for any overlap with other calls.
THEOREM AnswersTrueAlways == Spec => []AnswersTrue
  <1>1. IInv => AnswersTrue
    BY SeenAnswers DEF IInv
  <1>2. QED
    BY <1>1, Inductive, PTL

\* The stored key is the one that works at the CLOB, unless a call failed
\* halfway or two calls for one wallet overlapped (users.py, the two-step
\* derivation of credentials and their commit).
THEOREM KeyFollowsAlways == Spec => []KeyFollows
  <1>1. IInv => KeyFollows
    BY KeyInvFollows DEF IInv
  <1>2. QED
    BY <1>1, Inductive, PTL

\* For all prices, tick sizes and sizes up to MaxSize and whatever the error of
\* the float arithmetic: the dollars of an order that is prepared are its price
\* to the last digit where that error is absorbed, elsewhere at most one unit less,
\* and its shares at most a hundredth less than asked for (services/order.py).
THEOREM AmountsExactAlways == Spec => []AmountsExact
  <1>1. IInv => AmountsExact
    BY DEF IInv, AmountsInv, Exact, Paid, AmountsExact
  <1>2. QED
    BY <1>1, Inductive, PTL

\* No order is at the CLOB behind everybody's back but through an answer that
\* was unclear, and nobody is told of an order, or of its cancellation, that
\* is not there (services/order.py, submit_order and cancel_order).
THEOREM OrdersReportedAlways == Spec => []OrdersReported
  <1>1. IInv => OrdersReported
    BY DEF IInv, OrderInv
  <1>2. QED
    BY <1>1, Inductive, PTL

\* The answers about approvals and deployments keep the promise: "done" is so
\* on chain, "failed" is a dead job, or a body that was not JSON.
THEOREM RelayPromiseKept == Spec => RelayPromised
  <1>1. Init => Promise!Init
    BY PromiseInit
  <1>2. IInv /\ [Next]_vars => [Promise!Next]_(Promise!vars)
    BY PromiseNext DEF IInv
  <1>3. QED
    BY <1>1, <1>2, Inductive, PTL DEF Spec, RelayPromised, Promise!Spec
=============================================================================
