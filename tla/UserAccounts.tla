----------------------------- MODULE UserAccounts -----------------------------
(***************************************************************************)
(* The tables users, accounts and user_follows behind the routes of        *)
(* api/routes/v1/users.py: the login with Privy tokens that registers a    *)
(* wallet, follow, unfollow and the change of a username.  Every request   *)
(* reads first and commits later, and nothing is locked in between: what   *)
(* keeps two overlapping requests apart is the unique constraints alone.   *)
(*                                                                         *)
(* A request is a call of a worker.  It authenticates, reads ("find") and  *)
(* commits; user rows are never deleted, so the reads that find them are   *)
(* one step with the last read of the request.                             *)
(***************************************************************************)
EXTENDS Naturals, FiniteSets

CONSTANTS
    Workers,      \* requests in flight at the same time
    Dids,         \* the users of Privy, each with one email address
    Wallets,      \* EOA addresses
    Tokens,       \* external: the wallet in the identity token of a Privy user
    Names,        \* usernames
    None,         \* NULL in the database
    Offers,       \* what happens in one behaviour: the endpoints that are called
                  \* (ops), the wallets they are called for (by) and the
                  \* contents of the table users at the start (start)
    Faults        \* which faults may happen, here and in the modules above

ASSUME AccountConstantsAssumption ==
    /\ Tokens \subseteq Dids \X Wallets
    /\ None \notin Dids \cup Wallets \cup Names
    /\ Faults \subseteq {"refused", "torn", "lost", "status", "unreadable"}

\* The rows at the start are rows of the table: its columns privy_did, email and
\* username are unique where they are not NULL.
ASSUME OffersAssumption ==
    \A f \in Offers :
        /\ f.by \subseteq Wallets
        /\ f.start \in [Wallets -> [did : Dids \cup {None}, email : Dids \cup {None},
                                   name : Names \cup {None}]]
        /\ \A a, b \in Wallets : a # b =>
            \A field \in {"did", "email", "name"} :
                f.start[a][field] = f.start[b][field] => f.start[a][field] = None

VARIABLES
    users,     \* the row of each wallet
    accounts,  \* how many rows in accounts each wallet's user has
    follows,   \* user_follows, as pairs of wallets
    call,      \* per worker: the request it handles
    offered,   \* which of the Offers the behaviour has
    seen       \* history: what Fact has been during the call

tables == <<users, accounts, follows>>

-----------------------------------------------------------------------------
NoUser == [did |-> None, email |-> None, name |-> None]
User(d) == [did |-> d, email |-> d, name |-> None]
Idle == [op |-> "none", did |-> None, by |-> None, arg |-> None, row |-> FALSE,
         step |-> "idle", answer |-> "none", hurt |-> FALSE]

Exists(a) == users[a] # NoUser
Registered(d) == {a \in Wallets : Exists(a) /\ users[a].did = d}
Holders(n) == {a \in Wallets : users[a].name = n}

Is(w, op, step) == call[w].op = op /\ call[w].step = step
Move(w, step, row) == call' = [call EXCEPT ![w].step = step, ![w].row = row]
Reply(w, answer, hurt) ==
    call' = [call EXCEPT ![w].step = "done", ![w].answer = answer, ![w].hurt = hurt]

\* How a commit ends: done, refused, or done although the client saw an error.
Outcomes == {"ok"} \cup (Faults \cap {"refused", "torn"})
Took(o) == o # "refused"

\* What the answer to a call is about: whether the row is there, whether the
\* one follows the other, who has the name.
Fact(w) ==
    CASE call[w].op = "login" -> IF Exists(call[w].by) THEN {call[w].by} ELSE {}
      [] call[w].op \in {"follow", "unfollow"} ->
            IF <<call[w].by, call[w].arg>> \in follows THEN {call[w].arg} ELSE {}
      [] call[w].op = "rename" -> Holders(call[w].arg)
      [] OTHER -> {}

Watch == seen' = [w \in Workers |-> IF call'[w].step = "idle" THEN {}
                                    ELSE seen[w] \cup {Fact(w)'}]

AccountTypeOK ==
    /\ users \in [Wallets -> [did : Dids \cup {None}, email : Dids \cup {None},
                              name : Names \cup {None}]]
    /\ accounts \in [Wallets -> {0, 1}]
    /\ follows \in SUBSET (Wallets \X Wallets)
    /\ \A w \in Workers : call[w].by \in Wallets \cup {None}
    /\ \A w \in Workers : call[w].step = "done" <=> call[w].answer # "none"
    /\ offered \in Offers
    /\ seen \in [Workers -> SUBSET SUBSET Wallets]

AccountInit ==
    /\ offered \in Offers
    /\ users = offered.start
    /\ accounts = [a \in Wallets |-> IF users[a] = NoUser THEN 0 ELSE 1]
    /\ follows = {}
    /\ call = [w \in Workers |-> Idle]
    /\ seen = [w \in Workers |-> {}]

-----------------------------------------------------------------------------
(* The beginning and the end of a call.                                      *)
Call(w, op, d, a, arg) ==
    /\ call[w] = Idle
    /\ op \in offered.ops /\ a \in offered.by
    /\ call' = [call EXCEPT ![w] = [Idle EXCEPT !.op = op, !.did = d, !.by = a,
                                                !.arg = arg, !.step = "find"]]

\* Answered at once, for want of a user or of the right to ask.
RefusedCall(w, op, d, answer) ==
    /\ call[w] = Idle
    /\ op \in offered.ops
    /\ call' = [call EXCEPT ![w] = [Idle EXCEPT !.op = op, !.did = d, !.step = "done",
                                                !.answer = answer]]

\* The row of the token's subject is looked up; without one the answer is 404 or 401.
AuthenticatedCall(w, op, d, arg) ==
    \/ \E a \in Registered(d) : Call(w, op, d, a, arg)
    \/ Registered(d) = {} /\ RefusedCall(w, op, d, "unregistered")

Return(w) ==
    /\ call[w].step = "done"
    /\ call' = [call EXCEPT ![w] = Idle]
    /\ UNCHANGED tables

-----------------------------------------------------------------------------
(* POST /users/register/wallet                                               *)
LoginCall(w, t) ==
    /\ Call(w, "login", t[1], t[2], None)
    /\ UNCHANGED tables

LoginFind(w) ==
    /\ Is(w, "login", "find")
    /\ LET a == call[w].by IN
        \/ ~Exists(a) /\ Move(w, "insert", FALSE)
        \/ Exists(a) /\ users[a].did = None /\ Move(w, "backfill", FALSE)
        \/ Exists(a) /\ users[a].did # None /\ Reply(w, "old", FALSE)
    /\ UNCHANGED tables

\* Rows from before the column privy_did get it at the next login.
LoginBackfill(w, o) ==
    /\ Is(w, "login", "backfill")
    /\ LET conflict == \E b \in Wallets \ {call[w].by} : users[b].did = call[w].did
           written == Took(o) /\ ~conflict IN
        /\ users' = IF written THEN [users EXCEPT ![call[w].by].did = call[w].did]
                    ELSE users
        /\ Reply(w, IF written /\ o = "ok" THEN "old" ELSE "error", o # "ok")
    /\ UNCHANGED <<accounts, follows>>

\* The insert as ON CONFLICT DO NOTHING: the loser adds an account all the same.
LoginInsert_IgnoreConflict(w, o) ==
    /\ Is(w, "login", "insert")
    /\ Took(o)
    /\ users' = IF Exists(call[w].by) THEN users
                ELSE [users EXCEPT ![call[w].by] = User(call[w].did)]
    /\ accounts' = [accounts EXCEPT ![call[w].by] = @ + 1]
    /\ Reply(w, "new", FALSE)
    /\ UNCHANGED follows

\* The row and its Polymarket account, in one commit.
LoginInsert(w, o) ==
    /\ Is(w, "login", "insert")
    /\ LET conflict == \/ Exists(call[w].by)
                       \/ \E b \in Wallets : call[w].did \in {users[b].did, users[b].email}
           written == Took(o) /\ ~conflict IN
        /\ users' = IF written THEN [users EXCEPT ![call[w].by] = User(call[w].did)]
                    ELSE users
        /\ accounts' = IF written THEN [accounts EXCEPT ![call[w].by] = @ + 1]
                       ELSE accounts
        /\ Reply(w, IF written /\ o = "ok" THEN "new" ELSE "error", o # "ok")
    /\ UNCHANGED follows

-----------------------------------------------------------------------------
(* POST and DELETE /users/{user_id}/follow                                   *)
Edge(w) == <<call[w].by, call[w].arg>>

FollowCall(w, d, b) ==
    /\ AuthenticatedCall(w, "follow", d, b)
    /\ UNCHANGED tables

FollowFind(w) ==
    /\ Is(w, "follow", "find")
    /\ \/ call[w].arg = call[w].by /\ Reply(w, "self", FALSE)
       \/ call[w].arg # call[w].by /\ ~Exists(call[w].arg) /\ Reply(w, "unknown", FALSE)
       \/ Edge(w) \in follows /\ Reply(w, "already", FALSE)
       \/ /\ call[w].arg # call[w].by /\ Exists(call[w].arg) /\ Edge(w) \notin follows
          /\ Move(w, "commit", FALSE)
    /\ UNCHANGED tables

FollowCommit_AlwaysFollowing(w, o) ==
    /\ Is(w, "follow", "commit")
    /\ follows' = IF Took(o) THEN follows \cup {Edge(w)} ELSE follows
    /\ Reply(w, "following", o # "ok")
    /\ UNCHANGED <<users, accounts>>

\* Whatever exception the commit raises is taken for the unique violation.
FollowCommit(w, o) ==
    /\ Is(w, "follow", "commit")
    /\ follows' = IF Took(o) THEN follows \cup {Edge(w)} ELSE follows
    /\ Reply(w, IF o = "ok" /\ Edge(w) \notin follows THEN "following" ELSE "already",
             o # "ok")
    /\ UNCHANGED <<users, accounts>>

UnfollowCall(w, d, b) ==
    /\ AuthenticatedCall(w, "unfollow", d, b)
    /\ UNCHANGED tables

UnfollowFind(w) ==
    /\ Is(w, "unfollow", "find")
    /\ \/ Edge(w) \in follows /\ Move(w, "commit", TRUE)
       \/ Edge(w) \notin follows /\ Reply(w, "absent", FALSE)
    /\ UNCHANGED tables

\* The row is deleted by its id.  When an overlapping call deleted it first,
\* nothing is, even if the pair has a new row by now; the answer is the same.
UnfollowCommit(w, o) ==
    /\ Is(w, "unfollow", "commit")
    /\ LET deleted == Took(o) /\ call[w].row IN
        /\ follows' = IF deleted THEN follows \ {Edge(w)} ELSE follows
        /\ call' = [v \in Workers |->
                IF v = w THEN [call[w] EXCEPT !.step = "done", !.hurt = (o # "ok"),
                                  !.answer = IF o = "ok" THEN "unfollowed" ELSE "error"]
                ELSE IF deleted /\ Is(v, "unfollow", "commit") /\ Edge(v) = Edge(w)
                THEN [call[v] EXCEPT !.row = FALSE]
                ELSE call[v]]
    /\ UNCHANGED <<users, accounts>>

-----------------------------------------------------------------------------
(* PUT /users/me with a username                                             *)
RenameCall(w, d, n) ==
    /\ AuthenticatedCall(w, "rename", d, n)
    /\ UNCHANGED tables

\* row: the name is the one the user already has, so that nothing is updated.
RenameFind(w) ==
    /\ Is(w, "rename", "find")
    /\ \/ Holders(call[w].arg) \ {call[w].by} # {} /\ Reply(w, "taken", FALSE)
       \/ /\ Holders(call[w].arg) \ {call[w].by} = {}
          /\ Move(w, "commit", users[call[w].by].name = call[w].arg)
    /\ UNCHANGED tables

RenameCommit(w, o) ==
    /\ Is(w, "rename", "commit")
    /\ LET conflict == ~call[w].row /\ Holders(call[w].arg) \ {call[w].by} # {} IN
        /\ users' = IF call[w].row \/ conflict \/ ~Took(o) THEN users
                    ELSE [users EXCEPT ![call[w].by].name = call[w].arg]
        /\ Reply(w, IF o = "ok" /\ ~conflict THEN "renamed" ELSE "error", o # "ok")
    /\ UNCHANGED <<accounts, follows>>

-----------------------------------------------------------------------------
AccountSteps(w) ==
    \/ LoginFind(w) \/ FollowFind(w) \/ UnfollowFind(w) \/ RenameFind(w)
    \/ \E o \in Outcomes :
        \/ LoginBackfill(w, o) \/ LoginInsert(w, o)
        \/ FollowCommit(w, o) \/ UnfollowCommit(w, o)
        \/ RenameCommit(w, o)

-----------------------------------------------------------------------------
(* Properties.                                                               *)
Answered(w, op, answer) == Is(w, op, "done") /\ call[w].answer = answer

\* A Privy user and an email have one row, a username one holder and a wallet's
\* user exactly one account, however logins and renames overlap; of the logins
\* that made a row one was told so.
RegisteredOnce ==
    /\ \A a, b \in Wallets : a # b =>
        \A field \in {"did", "email", "name"} :
            users[a][field] = users[b][field] => users[a][field] = None
    /\ \A a \in Wallets : accounts[a] = 1 <=> Exists(a)
    /\ \A v, w \in Workers : Answered(v, "login", "new") /\ Answered(w, "login", "new")
                             /\ v # w => call[v].by # call[w].by

\* What a call answers was so at some time during the call: the user was new or
\* known, the other followed or not, the name taken or got.  Only a follow whose
\* commit failed says "already_following" of a row nobody wrote.
AnswersTrue ==
    \A w \in Workers :
        LET follower == {call[w].arg}  me == {call[w].by} IN
        /\ Answered(w, "login", "new") => {} \in seen[w] /\ me \in seen[w]
        /\ Answered(w, "login", "old") => me \in seen[w]
        /\ Answered(w, "follow", "following") => {} \in seen[w] /\ follower \in seen[w]
        /\ Answered(w, "follow", "already") => follower \in seen[w] \/ call[w].hurt
        /\ Answered(w, "unfollow", "unfollowed") => {} \in seen[w] /\ follower \in seen[w]
        /\ Answered(w, "unfollow", "absent") => {} \in seen[w]
        /\ Answered(w, "rename", "renamed") => me \in seen[w]
        /\ Answered(w, "rename", "taken") => \E H \in seen[w] : H \notin {{}, me}
        /\ Answered(w, "rename", "error") => \/ \E H \in seen[w] : H \notin {{}, me}
                                             \/ call[w].hurt
=============================================================================
