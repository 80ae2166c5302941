------------------------------ MODULE GroupAlerts ------------------------------
(***************************************************************************)
(* The two cron jobs of app/workers/group_alerts.py, which post system     *)
(* messages about shared markets: check_price_alerts (every 5 minutes) and *)
(* check_resolution_alerts (every 2 minutes).  A run collects messages in  *)
(* one transaction and commits at its end; before that it writes, for each *)
(* message, a Redis key that keeps later runs from repeating it.  A run    *)
(* may take 5 minutes (job_timeout), so runs of a kind may overlap.        *)
(*                                                                         *)
(* Clock times are abstracted to what the queries compare: whether a share *)
(* is younger than 24h, on which side of the 3 minute window a market's    *)
(* resolve_time lies, whether a key has expired.  Prices are in cents.     *)
(*                                                                         *)
(* Only messages of type "market" can refer to a market: TradeMetadata has *)
(* no market_id and drops one that a client sends, so the branch that      *)
(* would update trade messages is never taken.                             *)
(***************************************************************************)
EXTENDS Integers, FiniteSets

CONSTANTS
    Groups, Markets,
    Shares,       \* messages of type "market": [group, market, price]
    Quotes,       \* prices that the ticker hash of a yes outcome may show
    Runs,         \* slots for runs in flight
    Overlap,      \* kinds of which more than one run may be in flight
    MaxFailures   \* bound: how many runs die or miss a price

Kinds == {"price", "resolution"}

ASSUME ConstantsAssumption ==
    /\ IsFiniteSet(Runs)
    /\ Shares \subseteq [group : Groups, market : Markets, price : Nat]
    /\ Quotes \subseteq Nat
    /\ Overlap \subseteq Kinds
    /\ MaxFailures \in Nat

VARIABLES
    shares,   \* the shares that are posted and not deleted
    recent,   \* those of the last 24h
    status,   \* markets.status
    window,   \* where markets.resolve_time lies
    quote,    \* the price in the ticker hash, NoQuote without one
    dedup,    \* dedup[k]: the pairs whose key of kind k is in Redis
    sent,     \* sent[k][p]: messages committed while the key has lived (history)
    run,      \* run[r]: the run in slot r
    failures  \* how many runs have died or missed a price

tables == <<shares, recent, status, window, quote>>
vars == <<tables, dedup, sent, run, failures>>

-----------------------------------------------------------------------------
Pairs == Groups \X Markets

\* No ticker, or one without a price.
NoQuote == -1

\* resolve_time is NULL, in the future, within the last 3 minutes, or older.
Windows == {"null", "ahead", "within", "past"}

\* msgs: the shares a price run has selected; markets: those it has left to look at;
\* todo: the groups of market at that are left; group: the one whose key is being
\* set; pend: the messages added to the transaction.
Run ==
    [kind : Kinds \cup {"none"}, step : {"idle", "market", "quote", "get", "set"},
     msgs : SUBSET Shares, markets : SUBSET Markets, at : SUBSET Markets,
     todo : SUBSET Groups, group : SUBSET Groups, pend : SUBSET Pairs]

NewRun(k, msgs, markets) ==
    [kind |-> k, step |-> "market", msgs |-> msgs, markets |-> markets,
     at |-> {}, todo |-> {}, group |-> {}, pend |-> {}]

NoRun == [NewRun("none", {}, {}) EXCEPT !.step = "idle"]

TypeOK ==
    /\ shares \in SUBSET Shares
    /\ recent \in SUBSET shares
    /\ status \in [Markets -> {"open", "resolved"}]
    /\ window \in [Markets -> Windows]
    /\ quote \in [Markets -> Quotes \cup {NoQuote}]
    /\ dedup \in [Kinds -> SUBSET Pairs]
    /\ sent \in [Kinds -> [Pairs -> Nat]]
    /\ run \in [Runs -> Run]
    /\ failures \in 0..MaxFailures

Init ==
    /\ shares = {}
    /\ recent = {}
    /\ status = [m \in Markets |-> "open"]
    /\ window \in [Markets -> {"null", "ahead"}]
    /\ quote = [m \in Markets |-> NoQuote]
    /\ dedup = [k \in Kinds |-> {}]
    /\ sent = [k \in Kinds |-> [p \in Pairs |-> 0]]
    /\ run = [r \in Runs |-> NoRun]
    /\ failures = 0

-----------------------------------------------------------------------------
\* abs(current_price - shared_price) / shared_price * 100 >= 10.0
Moved(now, shared) ==
    /\ shared > 0
    /\ 10 * (IF now > shared THEN now - shared ELSE shared - now) >= shared

At(r, kinds, step) == run[r].kind \in kinds /\ run[r].step = step

Continue(r, q) ==
    /\ run' = [run EXCEPT ![r] = q]
    /\ UNCHANGED <<tables, failures>>

AtMarket(q) == CHOOSE m \in q.at : TRUE

\* A run in the middle of a market.
Doing(q, step, at, todo, group) ==
    [kind |-> q.kind, step |-> step, msgs |-> q.msgs, markets |-> q.markets,
     at |-> at, todo |-> todo, group |-> group, pend |-> q.pend]

\* What a run does once it is done with market m.
NextMarket(q, m) ==
    [Doing(q, "market", {}, {}, {}) EXCEPT !.markets = @ \ {m}]

\* ... and once it has read for which groups of market m there may be an alert.
WithGroups(q, m, groups) ==
    IF groups = {} THEN NextMarket(q, m) ELSE Doing(q, "get", {m}, groups, {})

\* ... and once it is done with group g of its market.
NextGroup(q, g) ==
    IF q.todo \subseteq {g} THEN NextMarket(q, AtMarket(q))
    ELSE Doing(q, "get", q.at, q.todo \ {g}, {})

MayStart(r, k) ==
    /\ run[r].kind = "none"
    /\ k \in Overlap \/ \A q \in Runs : run[q].kind # k

-----------------------------------------------------------------------------
(* check_price_alerts *)
PriceStart(r) ==
    /\ MayStart(r, "price")
    /\ recent # {}
    /\ Continue(r, NewRun("price", recent, {s.market : s \in recent}))
    /\ UNCHANGED <<dedup, sent>>

PriceReadMarket(r, m) ==
    /\ At(r, {"price"}, "market")
    /\ m \in run[r].markets
    /\ IF status[m] = "resolved"
       THEN Continue(r, NextMarket(run[r], m))
       ELSE Continue(r, Doing(run[r], "quote", {m}, {}, {}))
    /\ UNCHANGED <<dedup, sent>>

\* Of several shares of the market in one group only the first one that the
\* (unordered) SELECT returned is compared with the price.
PriceReadQuote(r, m) ==
    LET ofMarket == {s \in run[r].msgs : s.market = m}
        groups == {s.group : s \in ofMarket}
    IN
    /\ At(r, {"price"}, "quote")
    /\ run[r].at = {m}
    /\ \/ /\ quote[m] = NoQuote
          /\ Continue(r, NextMarket(run[r], m))
       \/ /\ quote[m] # NoQuote
          /\ \E first \in [groups -> ofMarket] :
                /\ \A g \in groups : first[g].group = g
                /\ Continue(r, WithGroups(run[r], m,
                       {g \in groups : Moved(quote[m], first[g].price)}))
    /\ UNCHANGED <<dedup, sent>>

\* The database or Redis fails while the price is read: the market is skipped.
PriceFails(r, m) ==
    /\ At(r, {"price"}, "quote")
    /\ run[r].at = {m}
    /\ failures < MaxFailures
    /\ failures' = failures + 1
    /\ run' = [run EXCEPT ![r] = NextMarket(run[r], m)]
    /\ UNCHANGED <<tables, dedup, sent>>

-----------------------------------------------------------------------------
(* check_resolution_alerts *)
Selected_Exact == {m \in Markets : status[m] = "resolved" /\ window[m] = "within"}

\* status = 'resolved' AND resolve_time > now() - 3min.
Selected ==
    {m \in Markets : status[m] = "resolved" /\ window[m] \in {"ahead", "within"}}

ResolutionStart(r) ==
    /\ MayStart(r, "resolution")
    /\ Selected # {}
    /\ Continue(r, NewRun("resolution", {}, Selected))
    /\ UNCHANGED <<dedup, sent>>

ResolutionReadMessages(r, m) ==
    /\ At(r, {"resolution"}, "market")
    /\ m \in run[r].markets
    /\ Continue(r, WithGroups(run[r], m,
           {s.group : s \in {x \in shares : x.market = m}}))
    /\ UNCHANGED <<dedup, sent>>

-----------------------------------------------------------------------------
(* The loop over the groups of a market, and the commit, in both jobs. *)
GetKey_Unchecked(r, g) ==
    /\ run[r].step = "get"
    /\ g \in run[r].todo
    /\ Continue(r, Doing(run[r], "set", run[r].at, run[r].todo, {g}))
    /\ UNCHANGED <<dedup, sent>>

GetKey(r, g) ==
    /\ run[r].step = "get"
    /\ g \in run[r].todo
    /\ IF <<g, AtMarket(run[r])>> \in dedup[run[r].kind]
       THEN Continue(r, NextGroup(run[r], g))
       ELSE Continue(r, Doing(run[r], "set", run[r].at, run[r].todo, {g}))
    /\ UNCHANGED <<dedup, sent>>

SetKey_MessageOnly(r, g) ==
    LET p == <<g, AtMarket(run[r])>> IN
    /\ run[r].step = "set"
    /\ run[r].group = {g}
    /\ Continue(r, [NextGroup(run[r], g) EXCEPT !.pend = @ \cup {p}])
    /\ UNCHANGED <<dedup, sent>>

\* db.add, then SET with a TTL (1h for a price alert, 24h for a resolution).
SetKey(r, g) ==
    LET p == <<g, AtMarket(run[r])>> IN
    /\ run[r].step = "set"
    /\ run[r].group = {g}
    /\ dedup' = [dedup EXCEPT ![run[r].kind] = @ \cup {p}]
    /\ Continue(r, [NextGroup(run[r], g) EXCEPT !.pend = @ \cup {p}])
    /\ UNCHANGED sent

Commit(r) ==
    /\ run[r].step = "market"
    /\ run[r].markets = {}
    /\ sent' = [sent EXCEPT ![run[r].kind] =
                  [p \in Pairs |-> @[p] + IF p \in run[r].pend THEN 1 ELSE 0]]
    /\ Continue(r, NoRun)
    /\ UNCHANGED dedup

\* Any exception, the timeout or a restart of the worker: rolled back, the keys
\* that were set stay.
Abort(r) ==
    /\ run[r].kind # "none"
    /\ failures < MaxFailures
    /\ failures' = failures + 1
    /\ run' = [run EXCEPT ![r] = NoRun]
    /\ UNCHANGED <<tables, dedup, sent>>

-----------------------------------------------------------------------------
(* What happens around the jobs. *)

Expire_NoTTL(k, p) == FALSE /\ k \in Kinds /\ p \in Pairs /\ UNCHANGED vars

\* A key lives longer than the run that set it (job_timeout is 5 minutes).
Expire(k, p) ==
    /\ p \in dedup[k]
    /\ \A r \in Runs : run[r].kind = k => p \notin run[r].pend
    /\ dedup' = [dedup EXCEPT ![k] = @ \ {p}]
    /\ sent' = [sent EXCEPT ![k][p] = 0]
    /\ UNCHANGED <<tables, run, failures>>

Share(s) ==
    /\ s \notin shares
    /\ shares' = shares \cup {s}
    /\ recent' = recent \cup {s}
    /\ UNCHANGED <<status, window, quote, dedup, sent, run, failures>>

\* A share gets older than 24h.
Age(s) ==
    /\ s \in recent
    /\ recent' = recent \ {s}
    /\ UNCHANGED <<shares, status, window, quote, dedup, sent, run, failures>>

DeleteMessage(s) ==
    /\ s \in shares
    /\ shares' = shares \ {s}
    /\ recent' = recent \ {s}
    /\ UNCHANGED <<status, window, quote, dedup, sent, run, failures>>

\* The ticker hash of the yes outcome is written, or expires.
Trade(m, p) ==
    /\ quote' = [quote EXCEPT ![m] = p]
    /\ UNCHANGED <<shares, recent, status, window, dedup, sent, run, failures>>

Resolve(m) ==
    /\ status[m] = "open"
    /\ status' = [status EXCEPT ![m] = "resolved"]
    /\ UNCHANGED <<shares, recent, window, quote, dedup, sent, run, failures>>

TimePasses(m) ==
    /\ window[m] \in {"ahead", "within"}
    /\ window' = [window EXCEPT ![m] = IF @ = "ahead" THEN "within" ELSE "past"]
    /\ UNCHANGED <<shares, recent, status, quote, dedup, sent, run, failures>>

Start(r, k) ==
    \/ k = "price" /\ PriceStart(r)
    \/ k = "resolution" /\ ResolutionStart(r)

Step(r) ==
    \/ \E m \in Markets :
          \/ PriceReadMarket(r, m)
          \/ PriceReadQuote(r, m)
          \/ ResolutionReadMessages(r, m)
    \/ \E g \in Groups : GetKey(r, g) \/ SetKey(r, g)
    \/ Commit(r)

Next ==
    \/ \E r \in Runs :
          \/ \E k \in Kinds : Start(r, k)
          \/ Step(r)
          \/ \E m \in Markets : PriceFails(r, m)
          \/ Abort(r)
    \/ \E k \in Kinds, p \in Pairs : Expire(k, p)
    \/ \E s \in Shares : Share(s) \/ Age(s) \/ DeleteMessage(s)
    \/ \E m \in Markets :
          \/ \E p \in Quotes \cup {NoQuote} : Trade(m, p)
          \/ Resolve(m)
          \/ TimePasses(m)

Spec == Init /\ [][Next]_vars

\* The cron enqueues runs as long as the worker lives and arq takes what is
\* enqueued in order of time, a run that does not die goes on, and keys reach
\* their TTL.
Fairness ==
    /\ \A k \in Kinds : SF_vars(\E r \in Runs : Start(r, k))
    /\ \A r \in Runs : WF_vars(Step(r))
    /\ \A k \in Kinds, p \in Pairs : WF_vars(Expire(k, p))

FairSpec == Spec /\ Fairness

-----------------------------------------------------------------------------
\* A committed alert is covered by its key: whatever runs overlap or die, there
\* is no alert that later runs do not know of.
SentKeyed == \A k \in Kinds, p \in Pairs : sent[k][p] > 0 => p \in dedup[k]

\* While a key lives, its pair gets one alert, or at most one of each run that
\* was in flight together (GET and SET of the key are two commands).
AlertsPerKey ==
    \A k \in Kinds, p \in Pairs :
        sent[k][p] <= IF k \in Overlap THEN Cardinality(Runs) ELSE 1

\* A market whose price stays 10% away from every price it was shared at in a group
\* in the last 24h is alerted there again and again, although dying runs leave keys
\* without a message.  (One share that is not is enough to lose the alert.)
MovedAlerted ==
    \A p \in Pairs, q \in Quotes :
        LET posted == {s \in recent : s.group = p[1] /\ s.market = p[2]} IN
        <>[](/\ posted # {} /\ \A s \in posted : Moved(q, s.price)
             /\ status[p[2]] = "open" /\ quote[p[2]] = q)
          => []<>(sent["price"][p] > 0)

\* A market whose resolution a run can see is announced in every group that shared
\* it, also when its resolve_time is still ahead.
ResolvedAlerted ==
    \A p \in Pairs :
        <>[](/\ status[p[2]] = "resolved" /\ window[p[2]] \in {"ahead", "within"}
             /\ \E s \in shares : s.group = p[1] /\ s.market = p[2])
          => []<>(sent["resolution"][p] > 0)
=============================================================================
