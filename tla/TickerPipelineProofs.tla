------------------------- MODULE TickerPipelineProofs -------------------------
(***************************************************************************)
(* Proofs about TickerPipeline: for any tokens and messages and any size   *)
(* of the queue and the batch, Redis follows the book.                     *)
(***************************************************************************)
EXTENDS TickerPipeline, SequenceTheorems, WellFoundedInduction, TLAPS

-----------------------------------------------------------------------------
(* The last of some positions exists. *)

LEMMA NewestExists ==
    ASSUME NEW n \in Nat, NEW I \in SUBSET (1..n), I # {}
    PROVE  Newest(I) \in I /\ \A j \in I : j <= Newest(I)
<1> DEFINE T == {n - i : i \in I}
<1>0. \A i \in I : i \in Int /\ 1 <= i /\ i <= n /\ n - i \in Nat
  OBVIOUS
<1>1. T \subseteq Nat /\ T # {}
  BY <1>0
<1>2. PICK x \in T : \A y \in T : ~ (<<y, x>> \in OpToRel(<, Nat))
  <2>1. IsWellFoundedOn(OpToRel(<, Nat), Nat)
    BY NatLessThanWellFounded
  <2> HIDE DEF T
  <2> QED
    BY <1>1, <2>1, WFMin
<1>3. \A y \in T : ~ (y < x)
  BY <1>1, <1>2 DEF OpToRel
<1>4. PICK i \in I : x = n - i
  BY <1>2
<1>5. \A j \in I : j <= i
  <2> SUFFICES ASSUME NEW j \in I PROVE j <= i
    OBVIOUS
  <2>1. ~ (n - j < n - i)
    BY <1>3, <1>4
  <2>2. i \in Int /\ j \in Int
    BY <1>0
  <2> QED
    BY <2>1, <2>2
<1> QED
  BY <1>5 DEF Newest

LEMMA NewestIs ==
    ASSUME NEW n \in Nat, NEW I \in SUBSET (1..n), NEW i \in I, \A j \in I : j <= i
    PROVE  Newest(I) = i
<1>1. Newest(I) \in I /\ i <= Newest(I)
  BY NewestExists
<1>2. Newest(I) <= i
  BY <1>1
<1>3. i \in 1..n /\ Newest(I) \in 1..n
  BY <1>1
<1> QED
  BY <1>1, <1>2, <1>3

-----------------------------------------------------------------------------
(* Types. *)

Book == [bid : Side, ask : Side]

LEMMA MessageCases ==
    ASSUME NEW m \in Messages
    PROVE  /\ m.token \in Tokens
           /\ \/ m.type \in {"book", "best_bid_ask"} /\ m.bid \in Nat /\ m.ask \in Nat
              \/ m.type = "price_change" /\ m.bid \in Nat /\ m.ask \in Nat
              \/ m.type = "last_trade_price" /\ m.price \in Nat
              \/ m.type = "tick_size_change" /\ m.size \in Nat
<1>1. m \in MessageType
  BY ConstantsAssumption
<1>2. CASE m \in [type : {"book", "best_bid_ask"}, token : Tokens, bid : Nat, ask : Nat]
  BY <1>2
<1>3. CASE m \in [type : {"price_change"}, token : Tokens, side : {"BUY", "SELL"},
                  bid : Nat, ask : Nat]
  BY <1>3
<1>4. CASE m \in [type : {"last_trade_price"}, token : Tokens, price : Nat]
  BY <1>4
<1>5. CASE m \in [type : {"tick_size_change"}, token : Tokens, size : Nat \ {0}]
  BY <1>5
<1> QED
  BY <1>1, <1>2, <1>3, <1>4, <1>5 DEF MessageType

LEMMA MidNat ==
    ASSUME NEW bid \in Side, NEW ask \in Side
    PROVE  Mid(bid, ask) \in Nat
  BY DEF Mid, Side, Missing

LEMMA BookType ==
    ASSUME NEW b \in Book, NEW m \in Messages
    PROVE  BookAfter(b, m) \in Book
<1>1. CASE m.type \in {"book", "best_bid_ask"}
  <2>1. BookAfter(b, m) = [bid |-> m.bid, ask |-> m.ask] /\ m.bid \in Nat /\ m.ask \in Nat
    BY <1>1, MessageCases DEF BookAfter
  <2> QED
    BY <2>1 DEF Book, Side
<1>2. CASE m.type = "price_change"
  <2>1. BookAfter(b, m) = Changed(b, m) /\ m.bid \in Nat /\ m.ask \in Nat
    BY <1>2, MessageCases DEF BookAfter
  <2> QED
    BY <2>1 DEF Book, Side, Changed
<1>3. CASE m.type \in {"last_trade_price", "tick_size_change"}
  BY <1>3 DEF BookAfter
<1> QED
  BY <1>1, <1>2, <1>3, MessageCases

LEMMA UpdateType ==
    ASSUME NEW b \in Book, NEW m \in Messages
    PROVE  UpdateOf(b, m) \in Update
<1>1. Known(b.bid) \in Nat /\ Known(b.ask) \in Nat
  BY DEF Book, Side, Known, Missing
<1>2. PriceOf(b, m) \in Nat
  <2>1. CASE m.type = "last_trade_price"
    BY <2>1, MessageCases DEF PriceOf
  <2>2. CASE m.type = "tick_size_change"
    BY <2>2, MidNat DEF PriceOf, Book
  <2>3. CASE m.type \in {"book", "best_bid_ask", "price_change"}
    <3>1. m.bid \in Side /\ m.ask \in Side
      BY <2>3, MessageCases DEF Side
    <3> QED
      BY <2>3, <3>1, MidNat DEF PriceOf
  <2> QED
    BY <2>1, <2>2, <2>3, MessageCases
<1>3. /\ (IF m.type = "last_trade_price" THEN m.price ELSE Missing) \in Side
      /\ (IF m.type = "tick_size_change" THEN m.size ELSE Missing) \in Side
  BY MessageCases DEF Side
<1> QED
  BY <1>1, <1>2, <1>3, MessageCases DEF UpdateOf, Update

-----------------------------------------------------------------------------
(* The last update of a token in a sequence of updates. *)

LastOf(t, s) == s[Newest(Of(t, s))]

LEMMA OfFacts ==
    ASSUME NEW s \in Seq(Update), NEW t
    PROVE  /\ Len(s) \in Nat
           /\ Of(t, s) \in SUBSET (1..Len(s))
           /\ \A i \in 1..Len(s) : s[i] \in Update
  BY DEF Of

LEMMA LastOfIs ==
    ASSUME NEW s \in Seq(Update), NEW t, NEW i \in Of(t, s),
           \A j \in Of(t, s) : j <= i
    PROVE  LastOf(t, s) = s[i]
<1>1. Newest(Of(t, s)) = i
  BY OfFacts, NewestIs
<1> QED
  BY <1>1 DEF LastOf

LEMMA LastOfExists ==
    ASSUME NEW s \in Seq(Update), NEW t, Of(t, s) # {}
    PROVE  \E i \in Of(t, s) : (\A j \in Of(t, s) : j <= i) /\ LastOf(t, s) = s[i]
<1>1. Newest(Of(t, s)) \in Of(t, s) /\ \A j \in Of(t, s) : j <= Newest(Of(t, s))
  BY OfFacts, NewestExists
<1> QED
  BY <1>1 DEF LastOf

LEMMA LastOfAppend ==
    ASSUME NEW s \in Seq(Update), NEW u \in Update, NEW t
    PROVE  LET a == Append(s, u) IN
           /\ u.token = t => Of(t, a) # {} /\ LastOf(t, a) = u
           /\ u.token # t => /\ Of(t, a) = Of(t, s)
                             /\ Of(t, s) # {} => LastOf(t, a) = LastOf(t, s)
<1> DEFINE a == Append(s, u)
           n == Len(s) + 1
<1>1. /\ a \in Seq(Update) /\ Len(a) = n /\ n \in Nat
      /\ a[n] = u /\ \A i \in 1..Len(s) : a[i] = s[i]
  BY AppendProperties
<1> HIDE DEF a
<1>2. ASSUME u.token = t PROVE Of(t, a) # {} /\ LastOf(t, a) = u
  <2>1. n \in Of(t, a)
    BY <1>1, <1>2 DEF Of
  <2>2. \A j \in Of(t, a) : j <= n
    BY <1>1 DEF Of
  <2> QED
    BY <1>1, <2>1, <2>2, LastOfIs
<1>3. ASSUME u.token # t
      PROVE  /\ Of(t, a) = Of(t, s)
             /\ Of(t, s) # {} => LastOf(t, a) = LastOf(t, s)
  <2>1. Of(t, a) = Of(t, s)
    <3>1. \A i \in 1..n : i # n => i \in 1..Len(s)
      BY OfFacts
    <3>2. \A i \in 1..Len(s) : i \in 1..n
      BY OfFacts
    <3> QED
      BY <1>1, <1>3, <3>1, <3>2 DEF Of
  <2>2. ASSUME Of(t, s) # {} PROVE LastOf(t, a) = LastOf(t, s)
    <3>1. Newest(Of(t, s)) \in 1..Len(s)
      BY <2>2, OfFacts, NewestExists
    <3> QED
      BY <1>1, <2>1, <3>1 DEF LastOf
  <2> QED
    BY <2>1, <2>2
<1> QED
  BY <1>2, <1>3 DEF a

\* What is last in a sequence is last in its second part, or in its first part if
\* there is nothing in the second.
LEMMA LastOfSplit ==
    ASSUME NEW s \in Seq(Update), NEW n \in 0..Len(s), NEW t
    PROVE  LET a == SubSeq(s, 1, n)
               b == SubSeq(s, n + 1, Len(s))
           IN
           /\ a \in Seq(Update) /\ b \in Seq(Update)
           /\ Len(a) = n /\ Len(b) = Len(s) - n
           /\ Of(t, b) # {} => Of(t, s) # {} /\ LastOf(t, b) = LastOf(t, s)
           /\ Of(t, b) = {} => \A i \in Of(t, s) : i <= n
           /\ (\A i \in Of(t, s) : i <= n) =>
                 /\ Of(t, a) = Of(t, s)
                 /\ Of(t, s) # {} => LastOf(t, a) = LastOf(t, s)
<1> DEFINE a == SubSeq(s, 1, n)
           b == SubSeq(s, n + 1, Len(s))
<1>0. Len(s) \in Nat /\ n \in Nat /\ n <= Len(s)
  BY OfFacts
<1>1. a \in Seq(Update) /\ Len(a) = n /\ \A i \in 1..n : a[i] = s[i]
  <2>1. 1 \in 1..Len(s)+1 /\ n \in 1-1..Len(s)
    BY <1>0
  <2>2. /\ a \in Seq(Update) /\ Len(a) = n - 1 + 1
        /\ \A i \in 1..n-1+1 : a[i] = s[1+i-1]
    BY <2>1, SubSeqProperties
  <2>3. n - 1 + 1 = n /\ \A i \in 1..n : 1+i-1 = i
    BY <1>0
  <2> QED
    BY <2>2, <2>3
<1>2. b \in Seq(Update) /\ Len(b) = Len(s) - n /\ \A i \in 1..(Len(s)-n) : b[i] = s[n+i]
  <2>1. n + 1 \in 1..Len(s)+1 /\ Len(s) \in n+1-1..Len(s)
    BY <1>0
  <2>2. /\ b \in Seq(Update) /\ Len(b) = Len(s) - (n+1) + 1
        /\ \A i \in 1..Len(s)-(n+1)+1 : b[i] = s[n+1+i-1]
    BY <2>1, SubSeqProperties
  <2>3. Len(s) - (n+1) + 1 = Len(s) - n /\ \A i \in 1..(Len(s)-n) : n+1+i-1 = n+i
    BY <1>0
  <2> QED
    BY <2>2, <2>3
<1> HIDE DEF a, b
<1>3. \A i \in Of(t, s) : i \in Nat /\ i > n => i - n \in Of(t, b)
  <2> SUFFICES ASSUME NEW i \in Of(t, s), i > n PROVE i - n \in Of(t, b)
    OBVIOUS
  <2>1. i \in 1..Len(s) /\ s[i].token = t
    BY DEF Of
  <2>2. i - n \in 1..(Len(s) - n) /\ n + (i - n) = i
    BY <1>0, <2>1
  <2>3. b[i - n] = s[i]
    BY <1>2, <2>2
  <2> QED
    BY <1>2, <2>1, <2>2, <2>3 DEF Of
<1>4. \A i \in Of(t, b) : i \in 1..(Len(s) - n) /\ n + i \in Of(t, s) /\ b[i] = s[n + i]
  <2> SUFFICES ASSUME NEW i \in Of(t, b)
               PROVE  i \in 1..(Len(s) - n) /\ n + i \in Of(t, s) /\ b[i] = s[n + i]
    OBVIOUS
  <2>1. i \in 1..(Len(s) - n) /\ b[i].token = t
    BY <1>2 DEF Of
  <2>2. b[i] = s[n + i] /\ n + i \in 1..Len(s)
    BY <1>0, <1>2, <2>1
  <2> QED
    BY <2>1, <2>2 DEF Of
<1>5. ASSUME Of(t, b) # {} PROVE Of(t, s) # {} /\ LastOf(t, b) = LastOf(t, s)
  <2>1. PICK i \in Of(t, b) : (\A j \in Of(t, b) : j <= i) /\ LastOf(t, b) = b[i]
    BY <1>2, <1>5, LastOfExists
  <2>2. i \in 1..(Len(s) - n) /\ n + i \in Of(t, s) /\ b[i] = s[n + i]
    BY <1>4, <2>1
  <2>3. ASSUME NEW j \in Of(t, s) PROVE j <= n + i
    <3>1. j \in Nat
      BY OfFacts
    <3>2. CASE j <= n
      BY <1>0, <2>2, <3>1, <3>2
    <3>3. CASE j > n
      <4>1. j - n \in Of(t, b)
        BY <1>3, <3>1, <3>3
      <4>2. j - n <= i
        BY <2>1, <4>1
      <4> QED
        BY <1>0, <2>2, <3>1, <4>2
    <3> QED
      BY <1>0, <3>1, <3>2, <3>3
  <2>4. LastOf(t, s) = s[n + i]
    BY <2>2, <2>3, LastOfIs
  <2> QED
    BY <2>1, <2>2, <2>4
<1>6. ASSUME Of(t, b) = {} PROVE \A i \in Of(t, s) : i <= n
  BY <1>0, <1>3, <1>6, OfFacts
<1>7. ASSUME \A i \in Of(t, s) : i <= n
      PROVE  /\ Of(t, a) = Of(t, s)
             /\ Of(t, s) # {} => LastOf(t, a) = LastOf(t, s)
  <2>1. Of(t, a) = Of(t, s)
    <3>1. \A i \in 1..Len(s) : i <= n => i \in 1..n
      BY <1>0
    <3>2. \A i \in 1..n : i \in 1..Len(s)
      BY <1>0
    <3> QED
      BY <1>1, <1>7, <3>1, <3>2 DEF Of
  <2>2. ASSUME Of(t, s) # {} PROVE LastOf(t, a) = LastOf(t, s)
    <3>1. Newest(Of(t, a)) \in 1..n
      BY <1>1, <2>1, <2>2, OfFacts, NewestExists
    <3> QED
      BY <1>1, <2>1, <3>1 DEF LastOf
  <2> QED
    BY <2>1, <2>2
<1> QED
  BY <1>1, <1>2, <1>5, <1>6, <1>7 DEF a, b

-----------------------------------------------------------------------------
(* What a batch leaves in a hash. *)

Ticker == [price : Side, bid : Side, ask : Side, last : Side, size : Side]

LEMMA WrittenFacts ==
    ASSUME NEW h \in Ticker, NEW s \in Seq(Update), NEW t
    PROVE  /\ Written(h, t, s) \in Ticker
           /\ Of(t, s) = {} => Written(h, t, s) = h
           /\ Of(t, s) # {} => /\ Written(h, t, s).bid = LastOf(t, s).bid
                               /\ Written(h, t, s).ask = LastOf(t, s).ask
<1>1. CASE Of(t, s) = {}
  BY <1>1 DEF Written
<1>2. CASE Of(t, s) # {}
  <2> DEFINE all == Of(t, s)
             trades == {i \in all : s[i].last # Missing}
             sizes == {i \in all : s[i].size # Missing}
             last == IF trades = {} THEN h.last ELSE s[Newest(trades)].last
             size == IF sizes = {} THEN h.size ELSE s[Newest(sizes)].size
  <2>1. Written(h, t, s) = [price |-> s[Newest(all)].price, bid |-> s[Newest(all)].bid,
                            ask |-> s[Newest(all)].ask, last |-> last, size |-> size]
    BY <1>2 DEF Written
  <2>2. s[Newest(all)] \in Update
    BY <1>2, OfFacts, NewestExists
  <2>3. trades \in SUBSET (1..Len(s)) /\ sizes \in SUBSET (1..Len(s)) /\ Len(s) \in Nat
    BY OfFacts
  <2>4. last \in Side
    <3>1. CASE trades = {}
      BY <3>1 DEF Ticker
    <3>2. CASE trades # {}
      <4>1. Newest(trades) \in 1..Len(s)
        BY <2>3, <3>2, NewestExists
      <4>2. s[Newest(trades)] \in Update
        BY <4>1, OfFacts
      <4> QED
        BY <3>2, <4>2 DEF Update
    <3> QED
      BY <3>1, <3>2
  <2>5. size \in Side
    <3>1. CASE sizes = {}
      BY <3>1 DEF Ticker
    <3>2. CASE sizes # {}
      <4>1. Newest(sizes) \in 1..Len(s)
        BY <2>3, <3>2, NewestExists
      <4>2. s[Newest(sizes)] \in Update
        BY <4>1, OfFacts
      <4> QED
        BY <3>2, <4>2 DEF Update
    <3> QED
      BY <3>1, <3>2
  <2> HIDE DEF last, size
  <2>6. Written(h, t, s) \in Ticker
    BY <2>1, <2>2, <2>4, <2>5 DEF Update, Ticker, Side
  <2> QED
    BY <1>2, <2>1, <2>6 DEF LastOf
<1> QED
  BY <1>1, <1>2

LEMMA WriteAllFacts ==
    ASSUME TypeOK, NEW s \in Seq(Update), WriteAll(s)
    PROVE  /\ ticker' \in [Tokens -> Ticker]
           /\ \A t \in Tokens : ticker'[t] = Written(ticker[t], t, s)
<1>1. ticker \in [Tokens -> Ticker]
  BY DEF TypeOK, Ticker
<1>2. \A t \in Tokens : Written(ticker[t], t, s) \in Ticker
  BY <1>1, WrittenFacts
<1> QED
  BY <1>2 DEF WriteAll

-----------------------------------------------------------------------------
(* Types are kept. *)

LEMMA ReceiveFacts ==
    ASSUME TypeOK, NEW m \in Messages, Receive(m)
    PROVE  LET t == m.token
               b == BookAfter(book[t], m)
           IN
           /\ t \in Tokens /\ b \in Book /\ UpdateOf(b, m) \in Update
           /\ UpdateOf(b, m).token = t
           /\ book' = [book EXCEPT ![t] = b]
           /\ \/ /\ queue' = Append(queue, UpdateOf(b, m))
                 /\ Len(queue) < QueueMax
                 /\ lost' = lost \ {t}
              \/ queue' = queue /\ lost' = lost \cup {t}
           /\ UNCHANGED <<batch, ticker>>
<1> DEFINE t == m.token
           b == BookAfter(book[t], m)
<1>1. t \in Tokens
  BY MessageCases
<1>2. b \in Book
  BY <1>1, BookType DEF TypeOK, Book
<1>3. UpdateOf(b, m) \in Update
  BY <1>2, UpdateType
<1>4. UpdateOf(b, m).token = t
  BY DEF UpdateOf
<1> QED
  BY <1>1, <1>2, <1>3, <1>4 DEF Receive

LEMMA TakeFacts ==
    ASSUME TypeOK, Take
    PROVE  \E n \in 0..Len(queue) :
              /\ n <= BatchSize
              /\ batch = <<>>
              /\ batch' = SubSeq(queue, 1, n)
              /\ queue' = SubSeq(queue, n + 1, Len(queue))
              /\ UNCHANGED <<book, ticker, lost>>
<1> DEFINE n == IF Len(queue) < BatchSize THEN Len(queue) ELSE BatchSize
<1>1. Len(queue) \in Nat
  BY DEF TypeOK
<1>2. n \in 0..Len(queue) /\ n <= BatchSize
  BY <1>1, ConstantsAssumption
<1> QED
  BY <1>2 DEF Take

LEMMA TypeNext == TypeOK /\ [Next]_vars => TypeOK'
<1> SUFFICES ASSUME TypeOK, [Next]_vars PROVE TypeOK'
  OBVIOUS
<1>0. queue \in Seq(Update) /\ batch \in Seq(Update) /\ ticker \in [Tokens -> Ticker]
  BY DEF TypeOK, Ticker
<1>1. ASSUME NEW m \in Messages, Receive(m) PROVE TypeOK'
  <2> DEFINE b == BookAfter(book[m.token], m)
  <2>1. /\ m.token \in Tokens /\ b \in Book /\ UpdateOf(b, m) \in Update
        /\ book' = [book EXCEPT ![m.token] = b]
        /\ \/ /\ queue' = Append(queue, UpdateOf(b, m))
              /\ Len(queue) < QueueMax
              /\ lost' = lost \ {m.token}
           \/ queue' = queue /\ lost' = lost \cup {m.token}
        /\ UNCHANGED <<batch, ticker>>
    BY <1>1, ReceiveFacts
  <2> HIDE DEF b
  <2>2. book' \in [Tokens -> [bid : Side, ask : Side]]
    BY <2>1 DEF TypeOK, Book
  <2>3. queue' \in Seq(Update) /\ Len(queue') <= QueueMax
    <3>1. CASE queue' = queue
      BY <3>1 DEF TypeOK
    <3>2. CASE queue' = Append(queue, UpdateOf(b, m)) /\ Len(queue) < QueueMax
      <4>1. queue' \in Seq(Update) /\ Len(queue') = Len(queue) + 1 /\ Len(queue) \in Nat
        BY <1>0, <2>1, <3>2, AppendProperties
      <4> QED
        BY <3>2, <4>1, ConstantsAssumption
    <3> QED
      BY <2>1, <3>1, <3>2
  <2>4. lost' \in SUBSET Tokens
    BY <2>1 DEF TypeOK
  <2> QED
    BY <2>1, <2>2, <2>3, <2>4 DEF TypeOK
<1>2. CASE Take
  <2>1. PICK n \in 0..Len(queue) :
           /\ n <= BatchSize
           /\ batch' = SubSeq(queue, 1, n)
           /\ queue' = SubSeq(queue, n + 1, Len(queue))
           /\ UNCHANGED <<book, ticker, lost>>
    BY <1>2, TakeFacts
  <2>2. /\ batch' \in Seq(Update) /\ queue' \in Seq(Update)
        /\ Len(batch') = n /\ Len(queue') = Len(queue) - n
    BY <1>0, <2>1, LastOfSplit
  <2>3. Len(queue') <= QueueMax
    BY <2>1, <2>2, ConstantsAssumption DEF TypeOK
  <2> QED
    BY <2>1, <2>2, <2>3 DEF TypeOK
<1>3. CASE Write
  <2>1. ticker' \in [Tokens -> Ticker]
    BY <1>0, <1>3, WriteAllFacts DEF Write
  <2>2. batch' \in Seq(Update) /\ Len(batch') <= BatchSize
    BY <1>3, ConstantsAssumption DEF Write
  <2> QED
    BY <1>3, <2>1, <2>2 DEF Write, TypeOK, Ticker
<1>4. CASE WriteFails
  <2>1. PICK n \in 0..Len(batch) : WriteAll(SubSeq(batch, 1, n))
    BY <1>4 DEF WriteFails
  <2>2. SubSeq(batch, 1, n) \in Seq(Update)
    BY <1>0, LastOfSplit
  <2>3. ticker' \in [Tokens -> Ticker]
    BY <2>1, <2>2, WriteAllFacts
  <2>4. batch' \in Seq(Update) /\ Len(batch') <= BatchSize
    BY <1>4, ConstantsAssumption DEF WriteFails
  <2>5. lost' \in SUBSET Tokens
    BY <1>4 DEF WriteFails, TypeOK
  <2> QED
    BY <1>4, <2>3, <2>4, <2>5 DEF WriteFails, TypeOK, Ticker
<1>5. CASE Restart
  <2>1. /\ <<>> \in Seq(Update) /\ Len(<<>>) = 0
        /\ NoBook \in [bid : Side, ask : Side]
    BY DEF NoBook, Side
  <2> QED
    BY <1>5, <2>1, ConstantsAssumption DEF Restart, TypeOK
<1>6. ASSUME NEW t \in Tokens, Expire(t) PROVE TypeOK'
  <2>1. NoTicker \in Ticker
    BY DEF NoTicker, Ticker, Side
  <2>2. ticker' \in [Tokens -> Ticker]
    BY <1>0, <1>6, <2>1 DEF Expire
  <2> QED
    BY <1>6, <2>2 DEF Expire, TypeOK, Ticker
<1>7. CASE UNCHANGED vars
  BY <1>7 DEF vars, TypeOK
<1> QED
  BY <1>1, <1>2, <1>3, <1>4, <1>5, <1>6, <1>7 DEF Next, Flusher

LEMMA TypeInit == Init => TypeOK
<1>1. NoBook \in [bid : Side, ask : Side] /\ NoTicker \in Ticker
  BY DEF NoBook, NoTicker, Ticker, Side
<1>2. <<>> \in Seq(Update) /\ Len(<<>>) = 0
  OBVIOUS
<1> QED
  BY <1>1, <1>2, ConstantsAssumption DEF Init, TypeOK, Ticker

\* Every variable keeps its type: the queue never holds more than QUEUE_MAX_SIZE
\* updates, nor the flusher more than BATCH_SIZE.
THEOREM TypeCorrect == Spec => []TypeOK
  BY TypeInit, TypeNext, PTL DEF Spec

-----------------------------------------------------------------------------
(* Redis follows the book.  RedisFollowsBook says nothing of what is pending; it is *)
(* kept because the last pending update of a token whose newest update was not      *)
(* given up carries the book's quote, wherever it is.                               *)

Fits(u, b) == u.bid = Known(b.bid) /\ u.ask = Known(b.ask)

Carried(t) ==
    /\ Of(t, queue) # {} => Fits(LastOf(t, queue), book[t])
    /\ Of(t, queue) = {} /\ Of(t, batch) # {} => Fits(LastOf(t, batch), book[t])
    /\ Of(t, queue) = {} /\ Of(t, batch) = {} /\ book[t] # NoBook =>
          Fits(ticker[t], book[t])

CarryInv == \A t \in Tokens \ lost : Carried(t)

LEMMA OfEmpty == \A t : Of(t, <<>>) = {}
  BY DEF Of

LEMMA CarryInit == Init => CarryInv
  BY OfEmpty DEF Init, CarryInv, Carried

LEMMA ReceiveCarries ==
    ASSUME TypeOK, CarryInv, NEW m \in Messages, Receive(m)
    PROVE  CarryInv'
<1> SUFFICES ASSUME NEW x \in Tokens, x \notin lost' PROVE Carried(x)'
  BY DEF CarryInv
<1> DEFINE t == m.token
           b == BookAfter(book[t], m)
           u == UpdateOf(b, m)
<1>1. /\ t \in Tokens /\ u \in Update /\ u.token = t
      /\ book' = [book EXCEPT ![t] = b]
      /\ \/ queue' = Append(queue, u) /\ lost' = lost \ {t}
         \/ queue' = queue /\ lost' = lost \cup {t}
      /\ UNCHANGED <<batch, ticker>>
  BY ReceiveFacts
<1>2. Fits(u, b)
  BY DEF Fits, UpdateOf
<1>3. book'[t] = b /\ (x # t => book'[x] = book[x])
  BY <1>1 DEF TypeOK
<1>4. queue \in Seq(Update)
  BY DEF TypeOK
<1> HIDE DEF t, b, u
<1>5. CASE x = t
  <2>1. queue' = Append(queue, u)
    BY <1>1, <1>5
  <2>2. Of(x, queue') # {} /\ LastOf(x, queue') = u
    BY <1>1, <1>4, <1>5, <2>1, LastOfAppend
  <2> QED
    BY <1>2, <1>3, <1>5, <2>2 DEF Carried
<1>6. CASE x # t
  <2>1. x \notin lost /\ book'[x] = book[x]
    BY <1>1, <1>3, <1>6
  <2>2. /\ Of(x, queue') = Of(x, queue)
        /\ Of(x, queue) # {} => LastOf(x, queue') = LastOf(x, queue)
    <3>1. CASE queue' = queue
      BY <3>1
    <3>2. CASE queue' = Append(queue, u)
      BY <1>1, <1>4, <1>6, <3>2, LastOfAppend
    <3> QED
      BY <1>1, <3>1, <3>2
  <2>3. Carried(x)
    BY <2>1 DEF CarryInv
  <2> QED
    BY <1>1, <2>1, <2>2, <2>3 DEF Carried
<1> QED
  BY <1>5, <1>6

LEMMA TakeCarries ==
    ASSUME TypeOK, CarryInv, Take
    PROVE  CarryInv'
<1> SUFFICES ASSUME NEW t \in Tokens, t \notin lost' PROVE Carried(t)'
  BY DEF CarryInv
<1>1. PICK n \in 0..Len(queue) :
         /\ batch = <<>>
         /\ batch' = SubSeq(queue, 1, n)
         /\ queue' = SubSeq(queue, n + 1, Len(queue))
         /\ UNCHANGED <<book, ticker, lost>>
  BY TakeFacts
<1>2. Carried(t) /\ queue \in Seq(Update)
  BY <1>1 DEF CarryInv, TypeOK
<1>3. /\ Of(t, queue') # {} =>
            Of(t, queue) # {} /\ LastOf(t, queue') = LastOf(t, queue)
      /\ Of(t, queue') = {} =>
            /\ Of(t, batch') = Of(t, queue)
            /\ Of(t, queue) # {} => LastOf(t, batch') = LastOf(t, queue)
  BY <1>1, <1>2, LastOfSplit
<1>4. Of(t, batch) = {}
  BY <1>1, OfEmpty
<1> QED
  BY <1>1, <1>2, <1>3, <1>4 DEF Carried

\* Write and WriteFails: what is not written of the batch is given up.
LEMMA PrefixCarries ==
    ASSUME TypeOK, CarryInv, NEW n \in 0..Len(batch),
           WriteAll(SubSeq(batch, 1, n)),
           \A t \in Tokens \ lost' :
               /\ t \notin lost
               /\ Of(t, queue) = {} => \A i \in Of(t, batch) : i <= n,
           batch' = <<>>, UNCHANGED <<book, queue>>
    PROVE  CarryInv'
<1> SUFFICES ASSUME NEW t \in Tokens, t \notin lost' PROVE Carried(t)'
  BY DEF CarryInv
<1> DEFINE a == SubSeq(batch, 1, n)
<1>1. Carried(t) /\ batch \in Seq(Update) /\ ticker[t] \in Ticker
  BY DEF CarryInv, TypeOK, Ticker
<1>2. Of(t, batch') = {}
  BY OfEmpty
<1>3. CASE Of(t, queue) # {}
  BY <1>1, <1>3 DEF Carried
<1>4. CASE Of(t, queue) = {}
  <2>1. /\ a \in Seq(Update) /\ Of(t, a) = Of(t, batch)
        /\ Of(t, batch) # {} => LastOf(t, a) = LastOf(t, batch)
    BY <1>1, <1>4, LastOfSplit
  <2>2. ticker'[t] = Written(ticker[t], t, a)
    BY <2>1, WriteAllFacts
  <2>3. CASE Of(t, batch) = {}
    <3>1. ticker'[t] = ticker[t]
      BY <1>1, <2>1, <2>2, <2>3, WrittenFacts
    <3> QED
      BY <1>1, <1>2, <1>4, <2>3, <3>1 DEF Carried
  <2>4. CASE Of(t, batch) # {}
    <3> HIDE DEF a
    <3>0. Of(t, a) # {} /\ LastOf(t, a) = LastOf(t, batch)
      BY <2>1, <2>4
    <3>1. /\ ticker'[t].bid = LastOf(t, batch).bid
          /\ ticker'[t].ask = LastOf(t, batch).ask
      BY <1>1, <2>1, <2>2, <3>0, WrittenFacts
    <3> QED
      BY <1>1, <1>2, <1>4, <2>4, <3>1 DEF Carried, Fits
  <2> QED
    BY <2>3, <2>4
<1> QED
  BY <1>3, <1>4

LEMMA WriteCarries ==
    ASSUME TypeOK, CarryInv, Write \/ WriteFails
    PROVE  CarryInv'
<1>1. batch \in Seq(Update) /\ Len(batch) \in Nat
  BY DEF TypeOK
<1>2. CASE Write
  <2>1. SubSeq(batch, 1, Len(batch)) = batch /\ Len(batch) \in 0..Len(batch)
    BY <1>1, SubSeqFull
  <2>2. \A t : \A i \in Of(t, batch) : i <= Len(batch)
    BY <1>1 DEF Of
  <2> QED
    BY <1>2, <2>1, <2>2, PrefixCarries DEF Write
<1>3. CASE WriteFails
  <2>1. PICK n \in 0..Len(batch) :
           /\ WriteAll(SubSeq(batch, 1, n))
           /\ lost' = lost \cup {t \in Tokens :
                         Of(t, queue) = {} /\ \E i \in Of(t, batch) : i > n}
    BY <1>3 DEF WriteFails
  <2>2. ASSUME NEW t \in Tokens \ lost'
        PROVE  t \notin lost /\ (Of(t, queue) = {} => \A i \in Of(t, batch) : i <= n)
    <3>1. \A i \in Of(t, batch) : i \in Nat /\ n \in Nat
      BY <1>1 DEF Of
    <3> QED
      BY <2>1, <3>1
  <2> QED
    BY <1>3, <2>1, <2>2, PrefixCarries DEF WriteFails
<1> QED
  BY <1>2, <1>3

LEMMA CarryNext == TypeOK /\ CarryInv /\ [Next]_vars => CarryInv'
<1> SUFFICES ASSUME TypeOK, CarryInv, [Next]_vars PROVE CarryInv'
  OBVIOUS
<1>1. CASE Restart
  BY <1>1, OfEmpty DEF Restart, CarryInv, Carried
<1>2. ASSUME NEW t \in Tokens, Expire(t) PROVE CarryInv'
  <2>1. \A x \in Tokens : x # t => ticker'[x] = ticker[x]
    BY <1>2 DEF Expire, TypeOK
  <2> QED
    BY <1>2, <2>1 DEF Expire, CarryInv, Carried
<1>3. CASE UNCHANGED vars
  BY <1>3 DEF vars, CarryInv, Carried
<1> QED
  BY <1>1, <1>2, <1>3, ReceiveCarries, TakeCarries, WriteCarries DEF Next, Flusher

\* The bid and ask in Redis are those of the book, unless an update is on its way or
\* the token's newest one was dropped at a full queue, lost with its batch, or has
\* expired: the pipeline never leaves an older quote over a newer one.
THEOREM RedisCurrent == Spec => []RedisFollowsBook
<1>1. CarryInv => RedisFollowsBook
  BY DEF CarryInv, Carried, Fits, RedisFollowsBook, InRedis, Pending
<1> QED
  BY <1>1, TypeInit, TypeNext, CarryInit, CarryNext, PTL DEF Spec
===============================================================================
