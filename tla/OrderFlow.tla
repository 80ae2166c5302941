------------------------------ MODULE OrderFlow ------------------------------
(***************************************************************************)
(* Orders at Polymarket's CLOB: the API key of a wallet and its copy in    *)
(* the accounts table (users.py, services/polymarket/wallet.py), an order  *)
(* prepared from market parameters cached in Redis, submitted and          *)
(* cancelled (services/order.py, api/routes/v1/orders.py).  The CLOB is    *)
(* external: it has at most one key per wallet that works, and takes a     *)
(* signed order (which its salt makes unique) once.                        *)
(***************************************************************************)
EXTENDS UserAccounts, Integers

CONSTANTS
    MaxKeys,      \* bound: API keys the CLOB issues to a wallet
    Orders,       \* orders that clients have signed
    OwnerOf,      \* the wallet that signed each of them
    Params,       \* the market parameters: tick size, neg_risk, fee rate
    MaxParam,     \* bound: the last value of each parameter at the CLOB
    KnownTicks,   \* price decimals of the tick sizes in ROUNDING_CONFIG
    Prices,       \* prices asked for, in units of 10^-MaxDecimals
    MaxDecimals,
    Sizes,        \* sizes asked for, in thousandths of a share
    MaxSize,      \* bound: beyond it (10^12) doubles do not hold the amounts
    Absorbed      \* external: below so many units (some 3 * 10^11) the rounding
                  \* error of a product of doubles is less than 10^-4 units

ASSUME OrderConstantsAssumption ==
    /\ MaxKeys \in Nat \ {0} /\ MaxParam \in [Params -> Nat \ {0}]
    /\ OwnerOf \in [Orders -> Wallets]
    /\ "tick" \in Params
    /\ MaxDecimals \in 1..4 /\ KnownTicks \subseteq 1..MaxDecimals
    /\ MaxSize \in Nat /\ Absorbed \in Nat
    /\ Prices \subseteq Nat /\ Sizes \subseteq 0..MaxSize

VARIABLES
    clobKey,   \* external: the key of each wallet that works, 0: none
    creds,     \* the encrypted_api_* columns: the key stored, 0: none
    key,       \* per worker: the key its call has in hand
    param,     \* external: the parameters of the market at the CLOB
    cache,     \* clob:tick, clob:neg_risk and clob:fee in Redis, 0: no key
    quote,     \* per worker: how far each fetch of prepare_order has come
    amounts,   \* per worker: the order prepare_order answers
    order,     \* external: each signed order at the CLOB
    \* history:
    astray,    \* wallets whose key and its copy may differ
    reported,  \* orders some call was told to be placed
    blurred    \* orders the CLOB answered about with an error or not at all

keyState == <<clobKey, creds, key, astray>>
paramState == <<param, cache, quote, amounts>>
orderState == <<order, reported, blurred>>
orderVars == <<keyState, paramState, orderState>>

-----------------------------------------------------------------------------
(* The amounts of an order.  A float is an integer number of units and a     *)
(* noise e of -1, 0 or 1: below, at or above that number by a rounding error. *)
Pow10(n) == 10 ^ n

\* _round_down(size, 2): hundredths of a share.
RoundSize(s, e) == IF s % 10 = 0 /\ e = -1 THEN (s \div 10) - 1 ELSE s \div 10

\* shares * price has n units of the last decimal that may stay, and noise e.
\* Rounding up four decimals further on may leave one of those decimals (k = 1):
\* above n, or below it when n is so large that a double has no such decimals.
\* Rounding down then takes it for what is below it.
RoundProduct_DownOnly(n, e, k) == IF e = -1 THEN n - 1 ELSE n

Stays(n, e) == e = 1 \/ (e = -1 /\ n >= Absorbed)

RoundProduct(n, e, k) ==
    IF Stays(n, e) THEN (n * Pow10(4) + e * k) \div Pow10(4) ELSE n

\* In millionths of a dollar and of a share.
AmountsOf(d, price, size, e1, e2, k) ==
    LET shares == RoundSize(size, e1)
        dollars == RoundProduct(shares * price, e2, k) IN
    [dollars |-> dollars * Pow10(4 - d), shares |-> shares * Pow10(4),
     price |-> price, decimals |-> d, size |-> size]

NoAmounts == [dollars |-> 0, shares |-> 0, price |-> 0, decimals |-> 1, size |-> 0]
NoFetch == [p \in Params |-> [at |-> "none", val |-> 0]]

OrderTypeOK ==
    /\ clobKey \in [Wallets -> 0..MaxKeys]
    /\ creds \in [Wallets -> 0..MaxKeys]
    /\ key \in [Workers -> 0..MaxKeys]
    /\ \A p \in Params : param[p] \in 1..MaxParam[p] /\ cache[p] \in 0..MaxParam[p]
    /\ quote \in [Workers -> [Params -> [at : {"none", "asked", "have", "failed"},
                                         val : Nat]]]
    /\ order \in [Orders -> {"none", "live", "gone"}]
    /\ astray \in SUBSET Wallets
    /\ reported \in SUBSET Orders /\ blurred \in SUBSET Orders
    /\ \A a \in Wallets : creds[a] # 0 => accounts[a] = 1

OrderInit ==
    /\ clobKey = [a \in Wallets |-> 0]
    /\ creds = [a \in Wallets |-> 0]
    /\ key = [w \in Workers |-> 0]
    /\ param = [p \in Params |-> 1]
    /\ cache = [p \in Params |-> 0]
    /\ quote = [w \in Workers |-> NoFetch]
    /\ amounts = [w \in Workers |-> NoAmounts]
    /\ order = [o \in Orders |-> "none"]
    /\ astray = {} /\ reported = {} /\ blurred = {}

-----------------------------------------------------------------------------
(* POST /users/clob/credentials, for a wallet that signed the message.       *)
Storing(a) == {w \in Workers : call[w].op = "store" /\ call[w].by = a
                               /\ call[w].step \notin {"idle", "done"}}

StoreCall(w, a) ==
    /\ Call(w, "store", None, a, None)
    /\ astray' = IF Storing(a) # {} THEN astray \cup {a} ELSE astray
    /\ UNCHANGED <<tables, clobKey, creds, key, paramState, orderState>>

\* GET /auth/derive-api-key: the key, or any other status and a key is created;
\* no answer at all is a 502.
StoreDerive(w) ==
    /\ Is(w, "store", "find")
    /\ \/ /\ clobKey[call[w].by] # 0
          /\ key' = [key EXCEPT ![w] = clobKey[call[w].by]]
          /\ Move(w, "select", FALSE)
       \/ /\ clobKey[call[w].by] = 0 \/ "status" \in Faults
          /\ Move(w, "create", FALSE)
          /\ UNCHANGED key
       \/ /\ "lost" \in Faults
          /\ Reply(w, "error", TRUE)
          /\ UNCHANGED key
    /\ UNCHANGED <<tables, clobKey, creds, astray, paramState, orderState>>

\* POST /auth/api-key: a new key, which replaces the one before, or an error;
\* the answer may be lost when the key is already there.
StoreCreate(w) ==
    /\ Is(w, "store", "create")
    /\ \/ /\ clobKey[call[w].by] < MaxKeys
          /\ clobKey' = [clobKey EXCEPT ![call[w].by] = @ + 1]
          /\ \/ /\ key' = [key EXCEPT ![w] = clobKey'[call[w].by]]
                /\ Move(w, "select", FALSE)
                /\ UNCHANGED astray
             \/ /\ "lost" \in Faults
                /\ Reply(w, "error", TRUE)
                /\ astray' = astray \cup {call[w].by}
                /\ UNCHANGED key
       \/ /\ "status" \in Faults \/ clobKey[call[w].by] = MaxKeys
          /\ Reply(w, "error", FALSE)
          /\ UNCHANGED <<clobKey, key, astray>>
    /\ UNCHANGED <<tables, creds, paramState, orderState>>

StoreSelect_NoAccountCheck(w) ==
    /\ Is(w, "store", "select")
    /\ Move(w, "commit", FALSE)
    /\ UNCHANGED <<tables, orderVars>>

StoreSelect(w) ==
    /\ Is(w, "store", "select")
    /\ \/ accounts[call[w].by] = 0 /\ Reply(w, "noaccount", FALSE)
       \/ accounts[call[w].by] = 1 /\ Move(w, "commit", FALSE)
    /\ UNCHANGED <<tables, orderVars>>

StoreCommit_OnlyWhenMissing(w, o) ==
    /\ Is(w, "store", "commit")
    /\ LET a == call[w].by IN
        /\ creds' = IF Took(o) /\ creds[a] = 0 THEN [creds EXCEPT ![a] = key[w]] ELSE creds
        /\ astray' = IF o # "ok" THEN astray \cup {a}
                     ELSE IF Storing(a) = {w} THEN astray \ {a} ELSE astray
        /\ Reply(w, IF o = "ok" THEN "stored" ELSE "error", o # "ok")
    /\ UNCHANGED <<tables, clobKey, key, paramState, orderState>>

\* The history: the copy may be another key than the CLOB's when a call fails
\* or two calls of a wallet overlap; one that runs alone to its end repairs it.
StoreCommit(w, o) ==
    /\ Is(w, "store", "commit")
    /\ LET a == call[w].by IN
        /\ creds' = IF Took(o) THEN [creds EXCEPT ![a] = key[w]] ELSE creds
        /\ astray' = IF o # "ok" THEN astray \cup {a}
                     ELSE IF Storing(a) = {w} /\ key[w] = clobKey[a] THEN astray \ {a}
                     ELSE astray
        /\ Reply(w, IF o = "ok" THEN "stored" ELSE "error", o # "ok")
    /\ UNCHANGED <<tables, clobKey, key, paramState, orderState>>

-----------------------------------------------------------------------------
(* POST /polymarket/order/prepare: three fetches at the same time, each from *)
(* Redis or else from the CLOB and then, later, into Redis with a TTL.       *)
PrepareCall(w, d) ==
    /\ AuthenticatedCall(w, "prepare", d, None)
    /\ UNCHANGED <<tables, orderVars>>

Fetch(w, p, at, val) == quote' = [quote EXCEPT ![w][p] = [at |-> at, val |-> val]]

Gathering(w) == Is(w, "prepare", "find")

\* gather() leaves the other fetches running when one raises.
Running(w, p) ==
    /\ Gathering(w) \/ (Is(w, "prepare", "done") /\ call[w].answer = "error")
    /\ quote[w][p].at \in {"none", "asked"}

FetchHit(w, p) ==
    /\ Running(w, p) /\ quote[w][p].at = "none" /\ cache[p] # 0
    /\ Fetch(w, p, "have", cache[p])
    /\ UNCHANGED <<tables, call, keyState, param, cache, amounts, orderState>>

FetchAsk(w, p) ==
    /\ Running(w, p) /\ quote[w][p].at = "none" /\ cache[p] = 0
    /\ Fetch(w, p, "asked", param[p])
    /\ UNCHANGED <<tables, call, keyState, param, cache, amounts, orderState>>

FetchStore(w, p) ==
    /\ Running(w, p) /\ quote[w][p].at = "asked"
    /\ cache' = [cache EXCEPT ![p] = quote[w][p].val]
    /\ Fetch(w, p, "have", quote[w][p].val)
    /\ UNCHANGED <<tables, call, keyState, param, amounts, orderState>>

FetchFails(w, p) ==
    /\ "status" \in Faults
    /\ Running(w, p) /\ quote[w][p].at = "none" /\ cache[p] = 0
    /\ Fetch(w, p, "failed", 0)
    /\ Reply(w, "error", TRUE)
    /\ UNCHANGED <<tables, keyState, param, cache, amounts, orderState>>

\* An unknown tick size, a price that does not fit it, or an order to sign: the
\* maker pays dollars for shares (BUY) or shares for dollars (SELL).
PrepareBuild(w, price, size) ==
    /\ Gathering(w)
    /\ \A p \in Params : quote[w][p].at = "have"
    /\ LET d == quote[w]["tick"].val
           unit == Pow10(MaxDecimals - d) IN
        \/ d \notin KnownTicks /\ Reply(w, "badtick", FALSE) /\ UNCHANGED amounts
        \/ /\ d \in KnownTicks /\ price % unit # 0
           /\ Reply(w, "misfit", FALSE) /\ UNCHANGED amounts
        \/ /\ d \in KnownTicks /\ price % unit = 0
           /\ \E e1, e2 \in {-1, 0, 1}, k \in {0, 1} :
                amounts' = [amounts EXCEPT ![w] =
                                AmountsOf(d, price \div unit, size, e1, e2, k)]
           /\ Reply(w, "prepared", FALSE)
    /\ UNCHANGED <<tables, keyState, param, cache, quote, orderState>>

ParamMoves(p) ==
    /\ "prepare" \in offered.ops
    /\ param[p] < MaxParam[p]
    /\ param' = [param EXCEPT ![p] = @ + 1]
    /\ UNCHANGED <<tables, call, keyState, cache, quote, amounts, orderState>>

\* The tick size is kept for good.
ExpireParam_NotTick(p) ==
    /\ cache[p] # 0 /\ p # "tick"
    /\ cache' = [cache EXCEPT ![p] = 0]
    /\ UNCHANGED <<tables, call, keyState, param, quote, amounts, orderState>>

ExpireParam(p) ==
    /\ cache[p] # 0
    /\ cache' = [cache EXCEPT ![p] = 0]
    /\ UNCHANGED <<tables, call, keyState, param, quote, amounts, orderState>>

-----------------------------------------------------------------------------
(* POST /polymarket/order/submit and DELETE /polymarket/order/{order_id}     *)
SubmitCall(w, d, o) ==
    /\ AuthenticatedCall(w, "submit", d, o)
    /\ Registered(d) \subseteq {OwnerOf[o]}
    /\ UNCHANGED <<tables, orderVars>>

CancelCall(w, d, o) ==
    /\ AuthenticatedCall(w, "cancel", d, o)
    /\ UNCHANGED <<tables, orderVars>>

\* _get_credentials, which joins users and accounts by the wallet.
LoadKey(w) ==
    /\ Is(w, "submit", "find") \/ Is(w, "cancel", "find")
    /\ IF creds[call[w].by] = 0
       THEN /\ Reply(w, IF call[w].op = "submit" THEN "rejected" ELSE "noaccount", FALSE)
            /\ UNCHANGED key
       ELSE /\ key' = [key EXCEPT ![w] = creds[call[w].by]]
            /\ Move(w, "request", FALSE)
    /\ UNCHANGED <<tables, clobKey, creds, astray, paramState, orderState>>

\* What the code makes of the CLOB's response: a 200 or 201 is a success, any
\* other status and a body that is not JSON a ValueError (400), no answer a 502.
SubmitReply_Only200(w, r) ==
    /\ Reply(w, IF r = "200" THEN "placed" ELSE IF r = "none" THEN "error" ELSE "rejected",
             r = "none")

SubmitReply(w, r) ==
    Reply(w, IF r \in {"200", "201"} THEN "placed"
             ELSE IF r = "none" THEN "error" ELSE "rejected", r = "none")

Unclear == {r \in {"5xx", "notjson", "none"} :
                \/ r = "5xx" /\ "status" \in Faults
                \/ r = "notjson" /\ "unreadable" \in Faults
                \/ r = "none" /\ "lost" \in Faults}

Accepts(w, o) == key[w] = clobKey[call[w].by] /\ order[o] = "none"

SubmitRequest(w, r) ==
    /\ Is(w, "submit", "request")
    /\ LET o == call[w].arg IN
        \/ /\ Accepts(w, o) /\ r \in {"200", "201"} \cup Unclear
           /\ order' = [order EXCEPT ![o] = "live"]
        \/ /\ r \in {"4xx"} \cup Unclear
           /\ UNCHANGED order
    /\ SubmitReply(w, r)
    /\ reported' = IF call'[w].answer = "placed" THEN reported \cup {call[w].arg} ELSE reported
    /\ blurred' = IF r \in Unclear THEN blurred \cup {call[w].arg} ELSE blurred
    /\ UNCHANGED <<tables, keyState, paramState>>

\* 200 and 204 mean cancelled; the rest, no answer included, is a 502.
CancelRequest(w) ==
    /\ Is(w, "cancel", "request")
    /\ LET o == call[w].arg IN
        \/ /\ key[w] = clobKey[call[w].by]
           /\ OwnerOf[o] = call[w].by /\ order[o] = "live"
           /\ order' = [order EXCEPT ![o] = "gone"]
           /\ \/ Reply(w, "cancelled", FALSE) /\ UNCHANGED blurred
              \/ /\ Unclear # {}
                 /\ Reply(w, "error", TRUE)
                 /\ blurred' = blurred \cup {o}
        \/ /\ Reply(w, "error", FALSE)
           /\ UNCHANGED <<order, blurred>>
    /\ UNCHANGED <<tables, keyState, paramState, reported>>

-----------------------------------------------------------------------------
OrderSteps(w) ==
    \/ StoreDerive(w) \/ StoreCreate(w) \/ StoreSelect(w)
    \/ \E o \in Outcomes : StoreCommit(w, o)
    \/ \E p \in Params : FetchHit(w, p) \/ FetchAsk(w, p) \/ FetchStore(w, p)
                         \/ FetchFails(w, p)
    \/ \E price \in Prices, size \in Sizes : PrepareBuild(w, price, size)
    \/ LoadKey(w)
    \/ \E r \in {"200", "201", "4xx", "5xx", "notjson", "none"} : SubmitRequest(w, r)
    \/ CancelRequest(w)

\* What a worker forgets with its call; fetches that still run are awaited.
OrderForget(w) ==
    /\ \A p \in Params : ~Running(w, p)
    /\ key' = [key EXCEPT ![w] = 0]
    /\ quote' = [quote EXCEPT ![w] = NoFetch]
    /\ amounts' = [amounts EXCEPT ![w] = NoAmounts]
    /\ UNCHANGED <<clobKey, creds, astray, param, cache, orderState>>

-----------------------------------------------------------------------------
(* Properties.                                                               *)

\* The key stored is the CLOB's, unless a call is about to store the CLOB's, a
\* call failed halfway or two calls of the wallet overlapped.
KeyFollows ==
    \A a \in Wallets :
        creds[a] \notin {0, clobKey[a]} =>
            a \in astray \/ \E w \in Storing(a) : key[w] = clobKey[a]

\* Whatever the rounding errors of the float arithmetic are, an order to sign has
\* at most one hundredth of a share less than was asked for, never more, and its
\* dollars are the price of its shares exactly; but from Absorbed units on they may
\* be one unit (tick size / 100) short, never more and never one too many.
AmountsExact ==
    \A w \in Workers :
        LET q == amounts[w]
            due == q.shares * q.price
            paid == q.dollars * Pow10(q.decimals) IN
        /\ \/ paid = due
           \/ due >= Absorbed * Pow10(4) /\ paid = due - Pow10(4)
        /\ q.shares <= q.size * Pow10(3)
        /\ q.size * Pow10(3) <= q.shares + Pow10(4)

\* An order is at the CLOB without anybody having been told so only when an
\* answer of the CLOB was an error, not JSON or did not arrive; and nobody is
\* told that an order is placed, or cancelled, that is not.
OrdersReported ==
    /\ \A o \in Orders : order[o] # "none" => o \in reported \cup blurred
    /\ \A o \in reported : order[o] # "none"
    /\ \A w \in Workers : Answered(w, "cancel", "cancelled") => order[call[w].arg] = "gone"

\* Once the parameters no longer change, the caches come to have the current
\* ones or nothing: an old answer stored late goes with its TTL.
CachesHeal == \A p \in Params : <>[](cache[p] \in {0, param[p]})
=============================================================================
