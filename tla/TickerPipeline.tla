---------------------------- MODULE TickerPipeline ----------------------------
(***************************************************************************)
(* Prices on their way from the Polymarket WebSocket to Redis              *)
(* (app/workers/polymarket/stream.py).  The receive loop parses a message, *)
(* updates the order book in memory and puts an update into a bounded      *)
(* queue; _redis_flusher takes a batch and writes it in one pipeline.      *)
(*                                                                         *)
(* Of the sizes, timestamps and the live buffer nothing is said.  A        *)
(* message with several entries is as good as several messages: there is   *)
(* no await between them.  What the flusher does about resolutions after a *)
(* write is in MarketResolution.                                           *)
(***************************************************************************)
EXTENDS Integers, Sequences, FiniteSets

CONSTANTS
    Tokens,
    Messages,     \* what the WebSocket sends, see MessageType
    QueueMax,     \* QUEUE_MAX_SIZE, 100000 in the code
    BatchSize,    \* BATCH_SIZE, 500 in the code
    Faults        \* "flush": Redis fails; "restart": the process does; "expire": TTL

\* Prices are ticks; "0" is how the handlers write an absent side.
MessageType ==
    [type : {"book", "best_bid_ask"}, token : Tokens, bid : Nat, ask : Nat]
    \cup [type : {"price_change"}, token : Tokens, side : {"BUY", "SELL"},
          bid : Nat, ask : Nat]
    \cup [type : {"last_trade_price"}, token : Tokens, price : Nat]
    \cup [type : {"tick_size_change"}, token : Tokens, size : Nat \ {0}]

ASSUME ConstantsAssumption ==
    /\ Messages \subseteq MessageType
    /\ QueueMax \in Nat \ {0}
    /\ BatchSize \in Nat \ {0}
    /\ Faults \subseteq {"flush", "restart", "expire"}

VARIABLES
    book,     \* _orderbook_state: best bid and ask of each token
    queue,    \* _ticker_queue
    batch,    \* what the flusher has taken and not yet written
    ticker,   \* the Redis hash ticker:polymarket:{token}
    lost      \* the tokens whose newest update is not going to be in Redis (history)

vars == <<book, queue, batch, ticker, lost>>

-----------------------------------------------------------------------------
\* A side or field that is not there, as opposed to one that is "0".
Missing == -1

Side == Nat \cup {Missing}

NoBook == [bid |-> Missing, ask |-> Missing]

NoTicker ==
    [price |-> Missing, bid |-> Missing, ask |-> Missing,
     last |-> Missing, size |-> Missing]

\* Prices of an update are in half ticks, so that a mid-price is a number.
Update ==
    [token : Tokens, price : Nat, bid : Nat, ask : Nat, last : Side, size : Side]

TypeOK ==
    /\ book \in [Tokens -> [bid : Side, ask : Side]]
    /\ queue \in Seq(Update) /\ Len(queue) <= QueueMax
    /\ batch \in Seq(Update) /\ Len(batch) <= BatchSize
    /\ ticker \in
         [Tokens -> [price : Side, bid : Side, ask : Side, last : Side, size : Side]]
    /\ lost \in SUBSET Tokens

Init ==
    /\ book = [t \in Tokens |-> NoBook]
    /\ queue = <<>>
    /\ batch = <<>>
    /\ ticker = [t \in Tokens |-> NoTicker]
    /\ lost = {}

-----------------------------------------------------------------------------
\* _get_mid_price, in half ticks.  A side that is "0" counts as a price of zero.
Mid(bid, ask) ==
    IF bid # Missing /\ ask # Missing THEN bid + ask
    ELSE IF bid # Missing THEN 2 * bid
    ELSE IF ask # Missing THEN 2 * ask
    ELSE 0

Known(side) == IF side = Missing THEN 0 ELSE side

\* A price_change sets the side it is about, and each side that it knows.
Changed(b, m) ==
    [bid |-> IF m.side = "BUY" \/ m.bid # 0 THEN m.bid ELSE b.bid,
     ask |-> IF m.side = "SELL" \/ m.ask # 0 THEN m.ask ELSE b.ask]

BookAfter(b, m) ==
    CASE m.type \in {"book", "best_bid_ask"} -> [bid |-> m.bid, ask |-> m.ask]
      [] m.type = "price_change" -> Changed(b, m)
      [] OTHER -> b

PriceOf(b, m) ==
    CASE m.type = "last_trade_price" -> 2 * m.price
      [] m.type = "tick_size_change" -> Mid(b.bid, b.ask)
      [] OTHER -> Mid(m.bid, m.ask)

UpdateOf_Message(b, m) ==
    [token |-> m.token, price |-> PriceOf(b, m),
     bid |-> IF m.type = "price_change" THEN m.bid ELSE Known(b.bid),
     ask |-> IF m.type = "price_change" THEN m.ask ELSE Known(b.ask),
     last |-> IF m.type = "last_trade_price" THEN m.price ELSE Missing,
     size |-> IF m.type = "tick_size_change" THEN m.size ELSE Missing]

\* Every update carries both sides of the book, whatever it is about.
UpdateOf(b, m) ==
    [token |-> m.token, price |-> PriceOf(b, m),
     bid |-> Known(b.bid), ask |-> Known(b.ask),
     last |-> IF m.type = "last_trade_price" THEN m.price ELSE Missing,
     size |-> IF m.type = "tick_size_change" THEN m.size ELSE Missing]

\* The positions of a token's updates in a sequence, and the last of some positions.
Of(t, s) == {i \in 1..Len(s) : s[i].token = t}

Newest(I) == CHOOSE i \in I : \A j \in I : j <= i

\* A hash after the HSETs of a sequence of updates: each one overwrites price, bid
\* and ask, and the other fields only if it has them.
Written(h, t, s) ==
    LET all == Of(t, s)
        trades == {i \in all : s[i].last # Missing}
        sizes == {i \in all : s[i].size # Missing}
    IN
    IF all = {} THEN h
    ELSE [price |-> s[Newest(all)].price,
          bid |-> s[Newest(all)].bid,
          ask |-> s[Newest(all)].ask,
          last |-> IF trades = {} THEN h.last ELSE s[Newest(trades)].last,
          size |-> IF sizes = {} THEN h.size ELSE s[Newest(sizes)].size]

WriteAll(s) == ticker' = [t \in Tokens |-> Written(ticker[t], t, s)]

-----------------------------------------------------------------------------
\* _parse_and_enqueue: the newest update is dropped when the queue is full.
Receive(m) ==
    LET t == m.token
        b == BookAfter(book[t], m)
    IN
    /\ book' = [book EXCEPT ![t] = b]
    /\ \/ /\ Len(queue) < QueueMax
          /\ queue' = Append(queue, UpdateOf(b, m))
          /\ lost' = lost \ {t}
       \/ /\ Len(queue) = QueueMax
          /\ lost' = lost \cup {t}
          /\ UNCHANGED queue
    /\ UNCHANGED <<batch, ticker>>

\* queue.get, then get_nowait until the batch is full or the queue is empty.
Take_FullBatch ==
    /\ batch = <<>>
    /\ Len(queue) >= BatchSize
    /\ batch' = SubSeq(queue, 1, BatchSize)
    /\ queue' = SubSeq(queue, BatchSize + 1, Len(queue))
    /\ UNCHANGED <<book, ticker, lost>>

Take ==
    LET n == IF Len(queue) < BatchSize THEN Len(queue) ELSE BatchSize IN
    /\ batch = <<>>
    /\ queue # <<>>
    /\ batch' = SubSeq(queue, 1, n)
    /\ queue' = SubSeq(queue, n + 1, Len(queue))
    /\ UNCHANGED <<book, ticker, lost>>

Write ==
    /\ batch # <<>>
    /\ WriteAll(batch)
    /\ batch' = <<>>
    /\ UNCHANGED <<book, queue, lost>>

\* The pipeline is no transaction: when it fails, a prefix has been written (all
\* of it, if only the answer is lost).  The batch is given up.  (A restart during a
\* write is this step and then Restart.)
WriteFails ==
    /\ "flush" \in Faults
    /\ batch # <<>>
    /\ \E n \in 0..Len(batch) :
          /\ WriteAll(SubSeq(batch, 1, n))
          /\ lost' = lost \cup {t \in Tokens :
                        Of(t, queue) = {} /\ \E i \in Of(t, batch) : i > n}
    /\ batch' = <<>>
    /\ UNCHANGED <<book, queue>>

Restart ==
    /\ "restart" \in Faults
    /\ book' = [t \in Tokens |-> NoBook]
    /\ queue' = <<>>
    /\ batch' = <<>>
    /\ lost' = {}
    /\ UNCHANGED ticker

\* 48h after the last write of the hash.
Expire(t) ==
    /\ "expire" \in Faults
    /\ ticker[t] # NoTicker
    /\ Of(t, queue) = {} /\ Of(t, batch) = {}
    /\ ticker' = [ticker EXCEPT ![t] = NoTicker]
    /\ lost' = lost \cup {t}
    /\ UNCHANGED <<book, queue, batch>>

Flusher == Take \/ Write \/ WriteFails

Next ==
    \/ \E m \in Messages : Receive(m)
    \/ Flusher
    \/ Restart
    \/ \E t \in Tokens : Expire(t)

Spec == Init /\ [][Next]_vars

\* The event loop runs the flusher whenever it can go on.
FairSpec == Spec /\ WF_vars(Flusher)

-----------------------------------------------------------------------------
Pending(t) == Of(t, queue) # {} \/ Of(t, batch) # {}

InRedis(t) ==
    ticker[t].bid = Known(book[t].bid) /\ ticker[t].ask = Known(book[t].ask)

\* Bid and ask in Redis are those of the book in memory, unless an update of the
\* token is on its way or its newest one was dropped, failed or has expired: no
\* older update is ever written over a newer one.
RedisFollowsBook ==
    \A t \in Tokens :
        book[t] # NoBook => InRedis(t) \/ Pending(t) \/ t \in lost

\* Once the feed is silent, everything that was received is written or given up: no
\* update waits for the next message.
QueueDrains ==
    (<>[][~ \E m \in Messages : Receive(m)]_vars)
      => <>[](queue = <<>> /\ batch = <<>>)
=============================================================================
