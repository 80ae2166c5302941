--------------------------- MODULE GroupAlertsProofs ---------------------------
(***************************************************************************)
(* Proofs about GroupAlerts: for any number of groups, markets, runs and   *)
(* failures, a committed alert has its key, and a key stands for one alert *)
(* at most, or one of each run in flight if runs of the kind overlap.      *)
(***************************************************************************)
EXTENDS GroupAlerts, FiniteSetTheorems, TLAPS

Steps == {"idle", "market", "quote", "get", "set"}

\* A run that does something has a kind, and a market when it is in a loop over
\* groups.
RunOK(q) ==
    /\ q.step # "idle" => q.kind \in Kinds
    /\ q.step \in {"get", "set"} => q.at # {}

RunsOK == \A r \in Runs : RunOK(run[r])

TypeInv == TypeOK /\ RunsOK

-----------------------------------------------------------------------------
(* The operators on runs. *)

LEMMA DoingFacts ==
    ASSUME NEW q \in Run, NEW step \in Steps, NEW at \in SUBSET Markets,
           NEW todo \in SUBSET Groups, NEW group \in SUBSET Groups
    PROVE  LET d == Doing(q, step, at, todo, group) IN
           /\ d \in Run
           /\ d.kind = q.kind /\ d.pend = q.pend
           /\ d.step = step /\ d.at = at /\ d.group = group
  BY DEF Doing, Run, Steps

\* A run that goes on with the same kind and messages, outside of "set".
GoesOn(q, next) ==
    /\ next \in Run
    /\ next.kind = q.kind /\ next.pend = q.pend
    /\ next.step \in {"market", "quote", "get"}
    /\ next.step = "get" => next.at # {}

LEMMA NextMarketGoesOn ==
    ASSUME NEW q \in Run, NEW m
    PROVE  GoesOn(q, NextMarket(q, m))
<1> DEFINE d == Doing(q, "market", {}, {}, {})
<1>1. d \in Run /\ d.kind = q.kind /\ d.pend = q.pend /\ d.step = "market"
  BY DoingFacts DEF Steps
<1>2. NextMarket(q, m) = [d EXCEPT !.markets = @ \ {m}]
  BY DEF NextMarket
<1> HIDE DEF d
<1>3. NextMarket(q, m) \in Run
  BY <1>1, <1>2 DEF Run
<1> QED
  BY <1>1, <1>2, <1>3 DEF GoesOn, Run

LEMMA WithGroupsGoesOn ==
    ASSUME NEW q \in Run, NEW m \in Markets, NEW groups \in SUBSET Groups
    PROVE  GoesOn(q, WithGroups(q, m, groups))
<1>1. CASE groups = {}
  BY <1>1, NextMarketGoesOn DEF WithGroups
<1>2. CASE groups # {}
  BY <1>2, DoingFacts DEF WithGroups, GoesOn, Steps
<1> QED
  BY <1>1, <1>2

LEMMA NextGroupGoesOn ==
    ASSUME NEW q \in Run, NEW g \in Groups, q.at # {}
    PROVE  GoesOn(q, NextGroup(q, g))
<1>1. CASE q.todo \subseteq {g}
  BY <1>1, NextMarketGoesOn DEF NextGroup
<1>2. CASE ~ (q.todo \subseteq {g})
  <2>1. q.at \in SUBSET Markets /\ q.todo \ {g} \in SUBSET Groups
    BY DEF Run
  <2> QED
    BY <1>2, <2>1, DoingFacts DEF NextGroup, GoesOn, Steps
<1> QED
  BY <1>1, <1>2

LEMMA NewRunFacts ==
    ASSUME NEW k \in Kinds, NEW msgs \in SUBSET Shares, NEW markets \in SUBSET Markets
    PROVE  LET n == NewRun(k, msgs, markets) IN
           n \in Run /\ RunOK(n) /\ n.kind = k /\ n.pend = {} /\ n.step = "market"
  BY DEF NewRun, Run, RunOK, Kinds

LEMMA NoRunFacts ==
    NoRun \in Run /\ RunOK(NoRun) /\ NoRun.kind = "none" /\ NoRun.pend = {}
      /\ NoRun.step = "idle"
<1> DEFINE n == NewRun("none", {}, {})
<1>1. n \in Run /\ n.kind = "none" /\ n.pend = {}
  BY DEF NewRun, Run
<1> HIDE DEF n
<1>2. NoRun = [n EXCEPT !.step = "idle"]
  BY DEF NoRun, n
<1>3. NoRun \in Run
  BY <1>1, <1>2 DEF Run
<1> QED
  BY <1>1, <1>2, <1>3 DEF RunOK, Run

-----------------------------------------------------------------------------
(* The steps of a run.  Most of them only move the run: it starts, ends without a *)
(* commit, or goes on.                                                           *)

Moves(r, q) ==
    /\ q \in Run /\ RunOK(q)
    /\ run' = [run EXCEPT ![r] = q]
    /\ q.step # "set"
    /\ \/ q.pend = {} /\ (q.kind = "none" \/ MayStart(r, q.kind))
       \/ q.pend = run[r].pend /\ q.kind = run[r].kind

Quiet(r) ==
    /\ \E q : Moves(r, q)
    /\ UNCHANGED <<tables, dedup, sent>>
    /\ failures' \in 0..MaxFailures

Pair(r, g) == <<g, AtMarket(run[r])>>

\* GetKey where there is no key.
Claim(r, g) ==
    /\ run[r].step = "get"
    /\ g \in run[r].todo
    /\ Pair(r, g) \notin dedup[run[r].kind]
    /\ Continue(r, Doing(run[r], "set", run[r].at, run[r].todo, {g}))
    /\ UNCHANGED <<dedup, sent>>

LEMMA GoesOnMoves ==
    ASSUME TypeInv, NEW r \in Runs, run[r].kind \in Kinds,
           NEW next, GoesOn(run[r], next),
           Continue(r, next), UNCHANGED <<dedup, sent>>
    PROVE  Quiet(r)
<1>1. RunOK(next) /\ next.step # "set"
  BY DEF GoesOn, RunOK
<1>2. Moves(r, next)
  BY <1>1 DEF GoesOn, Moves, Continue
<1>3. failures' \in 0..MaxFailures
  BY DEF Continue, TypeInv, TypeOK
<1> QED
  BY <1>2, <1>3 DEF Quiet, Continue

LEMMA StartQuiet ==
    ASSUME TypeInv, NEW r \in Runs, NEW k \in Kinds, Start(r, k)
    PROVE  Quiet(r)
<1>1. PICK msgs \in SUBSET Shares, markets \in SUBSET Markets :
         /\ MayStart(r, k)
         /\ Continue(r, NewRun(k, msgs, markets))
         /\ UNCHANGED <<dedup, sent>>
  <2>1. CASE k = "price"
    <3>1. PriceStart(r) /\ k # "resolution"
      BY <2>1 DEF Start
    <3>2. recent \in SUBSET Shares
      BY DEF TypeInv, TypeOK
    <3>3. {s.market : s \in recent} \in SUBSET Markets
      BY <3>2, ConstantsAssumption
    <3> QED
      BY <2>1, <3>1, <3>2, <3>3 DEF PriceStart
  <2>2. CASE k = "resolution"
    <3>1. ResolutionStart(r)
      BY <2>2 DEF Start
    <3>2. Selected \in SUBSET Markets
      BY DEF Selected
    <3> QED
      BY <2>2, <3>1, <3>2 DEF ResolutionStart
  <2> QED
    BY <2>1, <2>2 DEF Kinds
<1> DEFINE n == NewRun(k, msgs, markets)
<1>2. n \in Run /\ RunOK(n) /\ n.kind = k /\ n.pend = {} /\ n.step = "market"
  BY <1>1, NewRunFacts
<1>3. run' = [run EXCEPT ![r] = n] /\ UNCHANGED <<tables, failures>>
  BY <1>1 DEF Continue
<1> HIDE DEF n
<1>4. Moves(r, n)
  BY <1>1, <1>2, <1>3 DEF Moves
<1>5. failures' \in 0..MaxFailures
  BY <1>3 DEF TypeInv, TypeOK
<1> QED
  BY <1>1, <1>3, <1>4, <1>5 DEF Quiet

LEMMA ReadQuiet ==
    ASSUME TypeInv, NEW r \in Runs, NEW m \in Markets,
           PriceReadMarket(r, m) \/ PriceReadQuote(r, m) \/ ResolutionReadMessages(r, m)
    PROVE  Quiet(r)
<1>1. run[r] \in Run
  BY DEF TypeInv, TypeOK
<1>2. GoesOn(run[r], NextMarket(run[r], m))
  BY <1>1, NextMarketGoesOn
<1>3. CASE PriceReadMarket(r, m)
  <2>1. run[r].kind \in Kinds
    BY <1>3 DEF PriceReadMarket, At, Kinds
  <2>2. GoesOn(run[r], Doing(run[r], "quote", {m}, {}, {}))
    BY <1>1, DoingFacts DEF GoesOn, Steps
  <2> QED
    BY <1>2, <1>3, <2>1, <2>2, GoesOnMoves DEF PriceReadMarket
<1>4. CASE PriceReadQuote(r, m)
  <2>1. run[r].kind \in Kinds
    BY <1>4 DEF PriceReadQuote, At, Kinds
  <2>2. PICK alerted \in SUBSET Groups :
           /\ \/ Continue(r, NextMarket(run[r], m))
              \/ Continue(r, WithGroups(run[r], m, alerted))
           /\ UNCHANGED <<dedup, sent>>
    <3> DEFINE ofMarket == {s \in run[r].msgs : s.market = m}
               groups == {s.group : s \in ofMarket}
    <3>1. ofMarket \in SUBSET Shares
      BY <1>1 DEF Run
    <3>2. groups \in SUBSET Groups
      BY <3>1, ConstantsAssumption
    <3>3. CASE quote[m] = NoQuote
      <4>1. Continue(r, NextMarket(run[r], m)) /\ UNCHANGED <<dedup, sent>>
        BY <1>4, <3>3 DEF PriceReadQuote
      <4> QED
        BY <4>1, <3>2
    <3>4. CASE quote[m] # NoQuote
      <4>1. PICK first \in [groups -> ofMarket] :
               Continue(r, WithGroups(run[r], m,
                   {g \in groups : Moved(quote[m], first[g].price)}))
        BY <1>4, <3>4 DEF PriceReadQuote
      <4>2. {g \in groups : Moved(quote[m], first[g].price)} \in SUBSET Groups
        BY <3>2
      <4>3. UNCHANGED <<dedup, sent>>
        BY <1>4 DEF PriceReadQuote
      <4> QED
        BY <4>1, <4>2, <4>3
    <3> QED
      BY <3>3, <3>4
  <2>3. GoesOn(run[r], WithGroups(run[r], m, alerted))
    BY <1>1, WithGroupsGoesOn
  <2> QED
    BY <1>2, <2>1, <2>2, <2>3, GoesOnMoves
<1>5. CASE ResolutionReadMessages(r, m)
  <2> DEFINE groups == {s.group : s \in {x \in shares : x.market = m}}
  <2>1. run[r].kind \in Kinds
    BY <1>5 DEF ResolutionReadMessages, At, Kinds
  <2>2. groups \in SUBSET Groups
    BY ConstantsAssumption DEF TypeInv, TypeOK
  <2>3. Continue(r, WithGroups(run[r], m, groups)) /\ UNCHANGED <<dedup, sent>>
    BY <1>5 DEF ResolutionReadMessages
  <2> HIDE DEF groups
  <2>4. GoesOn(run[r], WithGroups(run[r], m, groups))
    BY <1>1, <2>2, WithGroupsGoesOn
  <2> QED
    BY <2>1, <2>3, <2>4, GoesOnMoves
<1> QED
  BY <1>3, <1>4, <1>5

LEMMA FailureQuiet ==
    ASSUME TypeInv, NEW r \in Runs,
           Abort(r) \/ \E m \in Markets : PriceFails(r, m)
    PROVE  Quiet(r)
<1>1. /\ failures < MaxFailures /\ failures' = failures + 1
      /\ UNCHANGED <<tables, dedup, sent>>
  BY DEF Abort, PriceFails
<1>2. failures' \in 0..MaxFailures
  BY <1>1, ConstantsAssumption DEF TypeInv, TypeOK
<1>3. CASE Abort(r)
  <2>1. Moves(r, NoRun)
    BY <1>3, NoRunFacts DEF Abort, Moves
  <2> QED
    BY <1>1, <1>2, <2>1 DEF Quiet
<1>4. ASSUME NEW m \in Markets, PriceFails(r, m) PROVE Quiet(r)
  <2> DEFINE next == NextMarket(run[r], m)
  <2>1. GoesOn(run[r], next)
    BY NextMarketGoesOn DEF TypeInv, TypeOK
  <2>2. run[r].kind \in Kinds /\ run' = [run EXCEPT ![r] = next]
    BY <1>4 DEF PriceFails, At, Kinds
  <2> HIDE DEF next
  <2>3. Moves(r, next)
    BY <2>1, <2>2 DEF GoesOn, Moves, RunOK
  <2> QED
    BY <1>1, <1>2, <2>3 DEF Quiet
<1> QED
  BY <1>3, <1>4

LEMMA GetKeyCases ==
    ASSUME TypeInv, NEW r \in Runs, NEW g \in Groups, GetKey(r, g)
    PROVE  Quiet(r) \/ Claim(r, g)
<1>1. CASE Pair(r, g) \in dedup[run[r].kind]
  <2>1. run[r] \in Run /\ run[r].kind \in Kinds /\ run[r].at # {}
    BY DEF TypeInv, TypeOK, RunsOK, RunOK, GetKey
  <2>2. GoesOn(run[r], NextGroup(run[r], g))
    BY <2>1, NextGroupGoesOn
  <2>3. Continue(r, NextGroup(run[r], g)) /\ UNCHANGED <<dedup, sent>>
    BY <1>1 DEF GetKey, Pair
  <2> QED
    BY <2>1, <2>2, <2>3, GoesOnMoves
<1>2. CASE Pair(r, g) \notin dedup[run[r].kind]
  BY <1>2 DEF GetKey, Claim, Pair
<1> QED
  BY <1>1, <1>2

-----------------------------------------------------------------------------
(* Types. *)

\* What happens around the jobs, and a step of nobody.
Around ==
    \/ \E x \in Shares : Share(x) \/ Age(x) \/ DeleteMessage(x)
    \/ \E m \in Markets :
          \/ \E p \in Quotes \cup {NoQuote} : Trade(m, p)
          \/ Resolve(m)
          \/ TimePasses(m)
    \/ UNCHANGED vars

LEMMA NextCases ==
    ASSUME TypeInv, [Next]_vars
    PROVE  \/ \E r \in Runs :
                 \/ Quiet(r)
                 \/ \E g \in Groups : Claim(r, g) \/ SetKey(r, g)
                 \/ Commit(r)
           \/ \E k \in Kinds, p \in Pairs : Expire(k, p)
           \/ Around
<1>1. CASE \E r \in Runs, k \in Kinds : Start(r, k)
  BY <1>1, StartQuiet
<1>2. CASE \E r \in Runs : Step(r)
  <2>1. PICK r \in Runs : Step(r)
    BY <1>2
  <2>2. CASE \E m \in Markets :
                \/ PriceReadMarket(r, m)
                \/ PriceReadQuote(r, m)
                \/ ResolutionReadMessages(r, m)
    BY <2>2, ReadQuiet
  <2>3. CASE \E g \in Groups : GetKey(r, g)
    BY <2>3, GetKeyCases
  <2>4. CASE (\E g \in Groups : SetKey(r, g)) \/ Commit(r)
    BY <2>4
  <2> QED
    BY <2>1, <2>2, <2>3, <2>4 DEF Step
<1>3. CASE \E r \in Runs : Abort(r) \/ \E m \in Markets : PriceFails(r, m)
  BY <1>3, FailureQuiet
<1>4. CASE \E k \in Kinds, p \in Pairs : Expire(k, p)
  BY <1>4
<1>5. CASE Around
  BY <1>5
<1> QED
  BY <1>1, <1>2, <1>3, <1>4, <1>5 DEF Next, Around

LEMMA RunType ==
    ASSUME TypeInv, NEW r \in Runs, NEW q \in Run, RunOK(q),
           run' = [run EXCEPT ![r] = q]
    PROVE  run' \in [Runs -> Run] /\ RunsOK'
<1>1. run \in [Runs -> Run]
  BY DEF TypeInv, TypeOK
<1>2. run' \in [Runs -> Run]
  BY <1>1
<1>3. ASSUME NEW x \in Runs PROVE RunOK(run'[x])
  <2>1. run'[x] = IF x = r THEN q ELSE run[x]
    BY <1>1
  <2> QED
    BY <2>1 DEF TypeInv, RunsOK
<1> QED
  BY <1>2, <1>3 DEF RunsOK, RunOK

LEMMA ClaimType ==
    ASSUME TypeInv, NEW r \in Runs, NEW g \in Groups, Claim(r, g)
    PROVE  LET q == Doing(run[r], "set", run[r].at, run[r].todo, {g}) IN
           /\ q \in Run /\ RunOK(q)
           /\ q.kind = run[r].kind /\ q.pend = run[r].pend
           /\ q.at = run[r].at /\ q.group = {g}
<1>1. /\ run[r] \in Run /\ run[r].step = "get"
      /\ run[r].kind \in Kinds /\ run[r].at # {}
  BY DEF TypeInv, TypeOK, RunsOK, RunOK, Claim
<1>2. run[r].at \in SUBSET Markets /\ run[r].todo \in SUBSET Groups
  BY <1>1 DEF Run
<1> QED
  BY <1>1, <1>2, DoingFacts DEF RunOK, Steps

\* The run after SetKey.
Told(r, g) == [NextGroup(run[r], g) EXCEPT !.pend = @ \cup {Pair(r, g)}]

LEMMA SetKeyType ==
    ASSUME TypeInv, NEW r \in Runs, NEW g \in Groups, SetKey(r, g)
    PROVE  /\ run[r].kind \in Kinds /\ run[r].step = "set" /\ run[r].group = {g}
           /\ Pair(r, g) \in Pairs
           /\ Told(r, g) \in Run /\ RunOK(Told(r, g))
           /\ Told(r, g).kind = run[r].kind /\ Told(r, g).step # "set"
           /\ Told(r, g).pend = run[r].pend \cup {Pair(r, g)}
           /\ run' = [run EXCEPT ![r] = Told(r, g)]
           /\ UNCHANGED <<tables, sent, failures>>
           /\ dedup' = [dedup EXCEPT ![run[r].kind] = @ \cup {Pair(r, g)}]
<1>1. /\ run[r] \in Run /\ run[r].kind \in Kinds /\ run[r].at # {}
      /\ run[r].step = "set" /\ run[r].group = {g}
  BY DEF TypeInv, TypeOK, RunsOK, RunOK, SetKey
<1>2. Pair(r, g) \in Pairs
  BY <1>1 DEF Pair, Pairs, AtMarket, Run
<1> DEFINE next == NextGroup(run[r], g)
<1>3. GoesOn(run[r], next)
  BY <1>1, NextGroupGoesOn
<1>4. Told(r, g) = [next EXCEPT !.pend = @ \cup {Pair(r, g)}]
  BY DEF Told
<1> HIDE DEF next
<1>5. next \in Run /\ next.step \in {"market", "quote", "get"}
      /\ next.kind = run[r].kind /\ next.pend = run[r].pend
      /\ (next.step = "get" => next.at # {})
  BY <1>3 DEF GoesOn
<1>6. Told(r, g) \in Run
  BY <1>2, <1>4, <1>5 DEF Run
<1>7. /\ Told(r, g).kind = next.kind /\ Told(r, g).step = next.step
      /\ Told(r, g).at = next.at
      /\ Told(r, g).pend = next.pend \cup {Pair(r, g)}
  BY <1>4, <1>5 DEF Run
<1>8. RunOK(Told(r, g))
  BY <1>1, <1>5, <1>7 DEF RunOK
<1> QED
  BY <1>1, <1>2, <1>5, <1>6, <1>7, <1>8 DEF SetKey, Continue, Told, Pair

LEMMA CommitSent ==
    ASSUME TypeInv, NEW r \in Runs, Commit(r)
    PROVE  /\ run[r].kind \in Kinds
           /\ sent' \in [Kinds -> [Pairs -> Nat]]
           /\ \A k \in Kinds, p \in Pairs :
                sent'[k][p] = sent[k][p]
                  + IF k = run[r].kind /\ p \in run[r].pend THEN 1 ELSE 0
<1>1. run[r].kind \in Kinds
  BY DEF Commit, TypeInv, RunsOK, RunOK
<1>2. sent \in [Kinds -> [Pairs -> Nat]]
  BY DEF TypeInv, TypeOK
<1> DEFINE row == [p \in Pairs |->
                     sent[run[r].kind][p] + IF p \in run[r].pend THEN 1 ELSE 0]
<1>3. sent' = [sent EXCEPT ![run[r].kind] = row]
  BY DEF Commit
<1>4. row \in [Pairs -> Nat]
  BY <1>1, <1>2
<1>5. \A p \in Pairs :
         row[p] = sent[run[r].kind][p] + IF p \in run[r].pend THEN 1 ELSE 0
  OBVIOUS
<1> HIDE DEF row
<1>6. sent' \in [Kinds -> [Pairs -> Nat]]
  BY <1>2, <1>3, <1>4
<1>7. ASSUME NEW k \in Kinds, NEW p \in Pairs
      PROVE  sent'[k][p] = sent[k][p]
               + IF k = run[r].kind /\ p \in run[r].pend THEN 1 ELSE 0
  <2>1. CASE k = run[r].kind
    BY <1>2, <1>3, <1>5, <2>1
  <2>2. CASE k # run[r].kind
    <3>1. sent'[k] = sent[k] /\ sent[k][p] \in Nat
      BY <1>2, <1>3, <2>2
    <3> QED
      BY <3>1, <2>2
  <2> QED
    BY <2>1, <2>2
<1> QED
  BY <1>1, <1>6, <1>7

LEMMA TypeNext == TypeInv /\ [Next]_vars => TypeInv'
<1> SUFFICES ASSUME TypeInv, [Next]_vars PROVE TypeInv'
  OBVIOUS
<1>1. ASSUME NEW r \in Runs, Quiet(r) PROVE TypeInv'
  <2>1. PICK q : Moves(r, q)
    BY <1>1 DEF Quiet
  <2>2. run' \in [Runs -> Run] /\ RunsOK'
    BY <2>1, RunType DEF Moves
  <2> QED
    BY <1>1, <2>2 DEF Quiet, TypeInv, TypeOK, tables
<1>2. ASSUME NEW r \in Runs, NEW g \in Groups, Claim(r, g) PROVE TypeInv'
  <2> DEFINE q == Doing(run[r], "set", run[r].at, run[r].todo, {g})
  <2>1. q \in Run /\ RunOK(q)
    BY <1>2, ClaimType
  <2>2. run' = [run EXCEPT ![r] = q] /\ UNCHANGED <<tables, dedup, sent, failures>>
    BY <1>2 DEF Claim, Continue
  <2> HIDE DEF q
  <2>3. run' \in [Runs -> Run] /\ RunsOK'
    BY <2>1, <2>2, RunType
  <2> QED
    BY <2>2, <2>3 DEF TypeInv, TypeOK, tables
<1>3. ASSUME NEW r \in Runs, NEW g \in Groups, SetKey(r, g) PROVE TypeInv'
  <2>1. /\ Told(r, g) \in Run /\ RunOK(Told(r, g)) /\ Pair(r, g) \in Pairs
        /\ run' = [run EXCEPT ![r] = Told(r, g)]
        /\ UNCHANGED <<tables, sent, failures>>
        /\ dedup' = [dedup EXCEPT ![run[r].kind] = @ \cup {Pair(r, g)}]
    BY <1>3, SetKeyType
  <2>2. run' \in [Runs -> Run] /\ RunsOK'
    BY <2>1, RunType
  <2>3. dedup' \in [Kinds -> SUBSET Pairs]
    BY <2>1 DEF TypeInv, TypeOK
  <2> QED
    BY <2>1, <2>2, <2>3 DEF TypeInv, TypeOK, tables
<1>4. ASSUME NEW r \in Runs, Commit(r) PROVE TypeInv'
  <2>1. /\ run' = [run EXCEPT ![r] = NoRun]
        /\ UNCHANGED <<tables, dedup, failures>>
    BY <1>4 DEF Commit, Continue
  <2>2. run' \in [Runs -> Run] /\ RunsOK'
    BY <2>1, NoRunFacts, RunType
  <2>3. sent' \in [Kinds -> [Pairs -> Nat]]
    BY <1>4, CommitSent
  <2> QED
    BY <2>1, <2>2, <2>3 DEF TypeInv, TypeOK, tables
<1>5. ASSUME NEW k \in Kinds, NEW p \in Pairs, Expire(k, p) PROVE TypeInv'
  <2>1. dedup' \in [Kinds -> SUBSET Pairs]
    BY <1>5 DEF Expire, TypeInv, TypeOK
  <2>2. sent' \in [Kinds -> [Pairs -> Nat]]
    BY <1>5 DEF Expire, TypeInv, TypeOK
  <2> QED
    BY <1>5, <2>1, <2>2 DEF Expire, TypeInv, TypeOK, RunsOK, RunOK, tables
<1>6. CASE Around
  <2>1. UNCHANGED <<dedup, sent, run, failures>>
    BY <1>6 DEF Around, Share, Age, DeleteMessage, Trade, Resolve, TimePasses, vars
  <2>2. shares' \in SUBSET Shares /\ recent' \in SUBSET shares'
    BY <1>6 DEF Around, Share, Age, DeleteMessage, Trade, Resolve, TimePasses, vars,
                tables, TypeInv, TypeOK
  <2>3. status' \in [Markets -> {"open", "resolved"}]
    BY <1>6 DEF Around, Share, Age, DeleteMessage, Trade, Resolve, TimePasses, vars,
                tables, TypeInv, TypeOK
  <2>4. window' \in [Markets -> Windows]
    BY <1>6 DEF Around, Share, Age, DeleteMessage, Trade, Resolve, TimePasses, vars,
                tables, TypeInv, TypeOK, Windows
  <2>5. quote' \in [Markets -> Quotes \cup {NoQuote}]
    BY <1>6 DEF Around, Share, Age, DeleteMessage, Trade, Resolve, TimePasses, vars,
                tables, TypeInv, TypeOK
  <2> QED
    BY <2>1, <2>2, <2>3, <2>4, <2>5 DEF TypeInv, TypeOK, RunsOK, RunOK
<1> QED
  BY <1>1, <1>2, <1>3, <1>4, <1>5, <1>6, NextCases

LEMMA TypeInit == Init => TypeInv
<1> SUFFICES ASSUME Init PROVE TypeInv
  OBVIOUS
<1>1. run \in [Runs -> Run] /\ RunsOK
  BY NoRunFacts DEF Init, RunsOK
<1> QED
  BY <1>1, ConstantsAssumption DEF Init, TypeInv, TypeOK, Windows

\* Every variable keeps its type.
THEOREM TypeCorrect == Spec => []TypeOK
<1>1. TypeInv => TypeOK
  BY DEF TypeInv
<1> QED
  BY <1>1, TypeInit, TypeNext, PTL DEF Spec

-----------------------------------------------------------------------------
(* Keys.  A run holds a pair from the GET that found no key until its message is *)
(* committed or lost; PendKeyed: by then the key is set.  The alerts that a key  *)
(* stands for and the runs that hold its pair are together within the limit,     *)
(* since no run can begin to hold a pair that has a key.                         *)

Limit(k) == IF k \in Overlap THEN Cardinality(Runs) ELSE 1

Holds(q, k, p) ==
    /\ q.kind = k
    /\ \/ p \in q.pend
       \/ q.step = "set" /\ \E g \in q.group : p = <<g, AtMarket(q)>>

HoldersOf(f, k, p) == {r \in Runs : Holds(f[r], k, p)}

PendKeyed ==
    \A r \in Runs : \A p \in run[r].pend :
        run[r].kind \in Kinds => p \in dedup[run[r].kind]

Alone ==
    \A q, r \in Runs :
        run[q].kind = run[r].kind /\ run[r].kind \in Kinds \ Overlap => q = r

Bounded ==
    \A k \in Kinds, p \in Pairs :
        sent[k][p] + Cardinality(HoldersOf(run, k, p)) <= Limit(k)

KeyInv == PendKeyed /\ SentKeyed /\ Alone /\ Bounded

LEMMA HoldersCard ==
    ASSUME NEW T \in SUBSET Runs, NEW U \in SUBSET T
    PROVE  /\ IsFiniteSet(T) /\ Cardinality(T) \in Nat /\ Cardinality(U) \in Nat
           /\ Cardinality(U) <= Cardinality(T)
  BY FS_Subset, FS_CardinalityType, ConstantsAssumption

LEMMA SentNat ==
    ASSUME TypeInv, NEW k \in Kinds, NEW p \in Pairs
    PROVE  sent[k][p] \in Nat
  BY DEF TypeInv, TypeOK

LEMMA LimitNat == \A k \in Kinds : Limit(k) \in Nat
  BY HoldersCard DEF Limit

\* A run that holds no more than before leaves the bound as it is.
LEMMA BoundedKept ==
    ASSUME TypeInv, Bounded, NEW r \in Runs, NEW q, NEW k \in Kinds, NEW p \in Pairs,
           run' = [run EXCEPT ![r] = q],
           Holds(q, k, p) => Holds(run[r], k, p)
    PROVE  sent[k][p] + Cardinality(HoldersOf(run', k, p)) <= Limit(k)
<1>1. \A x \in Runs : run'[x] = IF x = r THEN q ELSE run[x]
  BY DEF TypeInv, TypeOK
<1>2. HoldersOf(run', k, p) \subseteq HoldersOf(run, k, p)
  BY <1>1 DEF HoldersOf
<1>3. HoldersOf(run, k, p) \in SUBSET Runs
  BY DEF HoldersOf
<1>4. /\ Cardinality(HoldersOf(run', k, p)) <= Cardinality(HoldersOf(run, k, p))
      /\ Cardinality(HoldersOf(run', k, p)) \in Nat
      /\ Cardinality(HoldersOf(run, k, p)) \in Nat
  BY <1>2, <1>3, HoldersCard
<1>5. sent[k][p] + Cardinality(HoldersOf(run, k, p)) <= Limit(k)
  BY DEF Bounded
<1> QED
  BY <1>4, <1>5, SentNat, LimitNat

LEMMA KeyInit == Init => KeyInv
<1> SUFFICES ASSUME Init PROVE KeyInv
  OBVIOUS
<1>1. \A r \in Runs : run[r].kind = "none" /\ run[r].pend = {}
  BY NoRunFacts DEF Init
<1>2. ASSUME NEW k \in Kinds, NEW p \in Pairs
      PROVE  sent[k][p] + Cardinality(HoldersOf(run, k, p)) <= Limit(k)
  <2>1. HoldersOf(run, k, p) = {}
    BY <1>1 DEF HoldersOf, Holds, Kinds
  <2>2. Cardinality(HoldersOf(run, k, p)) = 0
    BY <2>1, FS_EmptySet
  <2>3. sent[k][p] = 0
    BY DEF Init
  <2> QED
    BY <2>2, <2>3, LimitNat
<1>3. PendKeyed /\ Alone
  BY <1>1 DEF PendKeyed, Alone, Kinds
<1>4. SentKeyed
  BY DEF Init, SentKeyed
<1> QED
  BY <1>2, <1>3, <1>4 DEF KeyInv, Bounded

LEMMA QuietKeeps ==
    ASSUME TypeInv, KeyInv, NEW r \in Runs, Quiet(r)
    PROVE  KeyInv'
<1>1. PICK q : Moves(r, q)
  BY DEF Quiet
<1>2. UNCHANGED <<dedup, sent>>
  BY DEF Quiet
<1>3. \A x \in Runs : run'[x] = IF x = r THEN q ELSE run[x]
  BY <1>1 DEF Moves, TypeInv, TypeOK
<1>4. PendKeyed'
  BY <1>1, <1>2, <1>3 DEF KeyInv, PendKeyed, Moves
<1>5. SentKeyed'
  BY <1>2 DEF KeyInv, SentKeyed
<1>6. Alone'
  <2>1. CASE q.kind \in {run[r].kind, "none"}
    BY <1>3, <2>1 DEF KeyInv, Alone, Kinds
  <2>2. CASE MayStart(r, q.kind)
    BY <1>3, <2>2 DEF KeyInv, Alone, MayStart
  <2> QED
    BY <1>1, <2>1, <2>2 DEF Moves
<1>7. ASSUME NEW k \in Kinds, NEW p \in Pairs
      PROVE  sent'[k][p] + Cardinality(HoldersOf(run', k, p)) <= Limit(k)
  <2>1. Holds(q, k, p) => Holds(run[r], k, p)
    BY <1>1 DEF Holds, Moves
  <2> QED
    BY <1>1, <1>2, <2>1, BoundedKept DEF KeyInv, Moves
<1> QED
  BY <1>4, <1>5, <1>6, <1>7 DEF KeyInv, Bounded

LEMMA ClaimKeeps ==
    ASSUME TypeInv, KeyInv, NEW r \in Runs, NEW g \in Groups, Claim(r, g)
    PROVE  KeyInv'
<1> DEFINE q == Doing(run[r], "set", run[r].at, run[r].todo, {g})
<1>1. /\ q.kind = run[r].kind /\ q.pend = run[r].pend
      /\ q.at = run[r].at /\ q.group = {g}
  BY ClaimType
<1>2. /\ run' = [run EXCEPT ![r] = q] /\ UNCHANGED <<dedup, sent>>
      /\ Pair(r, g) \notin dedup[run[r].kind]
  BY DEF Claim, Continue
<1> HIDE DEF q
<1>3. \A x \in Runs : run'[x] = IF x = r THEN q ELSE run[x]
  BY <1>2 DEF TypeInv, TypeOK
<1>4. PendKeyed'
  BY <1>1, <1>2, <1>3 DEF KeyInv, PendKeyed
<1>5. SentKeyed'
  BY <1>2 DEF KeyInv, SentKeyed
<1>6. Alone'
  BY <1>1, <1>3 DEF KeyInv, Alone
<1>7. ASSUME NEW k \in Kinds, NEW p \in Pairs
      PROVE  sent'[k][p] + Cardinality(HoldersOf(run', k, p)) <= Limit(k)
  <2>1. CASE k = run[r].kind /\ p = Pair(r, g)
    <3>1. sent'[k][p] = 0
      BY <1>2, <2>1, SentNat DEF KeyInv, SentKeyed
    <3>2. HoldersOf(run', k, p) \in SUBSET Runs
      BY DEF HoldersOf
    <3>3. CASE k \in Overlap
      BY <3>1, <3>2, <3>3, HoldersCard DEF Limit
    <3>4. CASE k \notin Overlap
      <4>1. HoldersOf(run', k, p) \subseteq {r}
        BY <1>1, <1>3, <1>6, <2>1, <3>4 DEF HoldersOf, Holds, Alone
      <4>2. Cardinality({r}) = 1
        BY FS_Singleton
      <4>3. /\ Cardinality(HoldersOf(run', k, p)) \in Nat
            /\ Cardinality(HoldersOf(run', k, p)) <= Cardinality({r})
        BY <4>1, HoldersCard
      <4> QED
        BY <3>1, <3>4, <4>2, <4>3 DEF Limit
    <3> QED
      BY <3>3, <3>4
  <2>2. CASE ~ (k = run[r].kind /\ p = Pair(r, g))
    <3>1. AtMarket(q) = AtMarket(run[r])
      BY <1>1 DEF AtMarket
    <3>2. Holds(q, k, p) => Holds(run[r], k, p)
      BY <1>1, <2>2, <3>1 DEF Holds, Pair
    <3> QED
      BY <1>2, <3>2, BoundedKept DEF KeyInv
  <2> QED
    BY <2>1, <2>2
<1> QED
  BY <1>4, <1>5, <1>6, <1>7 DEF KeyInv, Bounded

LEMMA SetKeyKeeps ==
    ASSUME TypeInv, KeyInv, NEW r \in Runs, NEW g \in Groups, SetKey(r, g)
    PROVE  KeyInv'
<1> DEFINE q == Told(r, g)
<1>1. /\ run[r].kind \in Kinds /\ run[r].step = "set" /\ run[r].group = {g}
      /\ q.kind = run[r].kind /\ q.step # "set"
      /\ q.pend = run[r].pend \cup {Pair(r, g)}
      /\ run' = [run EXCEPT ![r] = q]
      /\ UNCHANGED sent
      /\ dedup' = [dedup EXCEPT ![run[r].kind] = @ \cup {Pair(r, g)}]
  BY SetKeyType
<1> HIDE DEF q
<1>2. \A x \in Runs : run'[x] = IF x = r THEN q ELSE run[x]
  BY <1>1 DEF TypeInv, TypeOK
<1>3. /\ \A k \in Kinds : dedup[k] \subseteq dedup'[k]
      /\ Pair(r, g) \in dedup'[run[r].kind]
  BY <1>1 DEF TypeInv, TypeOK
<1>4. PendKeyed'
  BY <1>1, <1>2, <1>3 DEF KeyInv, PendKeyed
<1>5. SentKeyed'
  BY <1>1, <1>3 DEF KeyInv, SentKeyed
<1>6. Alone'
  BY <1>1, <1>2 DEF KeyInv, Alone
<1>7. ASSUME NEW k \in Kinds, NEW p \in Pairs
      PROVE  sent'[k][p] + Cardinality(HoldersOf(run', k, p)) <= Limit(k)
  <2>1. Holds(q, k, p) => Holds(run[r], k, p)
    BY <1>1 DEF Holds, Pair
  <2> QED
    BY <1>1, <2>1, BoundedKept DEF KeyInv
<1> QED
  BY <1>4, <1>5, <1>6, <1>7 DEF KeyInv, Bounded

LEMMA CommitKeeps ==
    ASSUME TypeInv, KeyInv, NEW r \in Runs, Commit(r)
    PROVE  KeyInv'
<1>1. /\ run[r].kind \in Kinds
      /\ \A k \in Kinds, p \in Pairs :
           sent'[k][p] = sent[k][p]
             + IF k = run[r].kind /\ p \in run[r].pend THEN 1 ELSE 0
  BY CommitSent
<1>2. run' = [run EXCEPT ![r] = NoRun] /\ UNCHANGED dedup
  BY DEF Commit, Continue
<1>3. \A x \in Runs : run'[x] = IF x = r THEN NoRun ELSE run[x]
  BY <1>2 DEF TypeInv, TypeOK
<1>4. PendKeyed'
  BY <1>2, <1>3, NoRunFacts DEF KeyInv, PendKeyed
<1>5. SentKeyed'
  <2> SUFFICES ASSUME NEW k \in Kinds, NEW p \in Pairs, sent'[k][p] > 0
               PROVE  p \in dedup'[k]
    BY DEF SentKeyed
  <2>1. CASE k = run[r].kind /\ p \in run[r].pend
    BY <1>2, <2>1 DEF KeyInv, PendKeyed
  <2>2. CASE ~ (k = run[r].kind /\ p \in run[r].pend)
    <3>1. sent[k][p] > 0
      BY <1>1, <2>2, SentNat
    <3> QED
      BY <1>2, <3>1 DEF KeyInv, SentKeyed
  <2> QED
    BY <2>1, <2>2
<1>6. Alone'
  BY <1>3, NoRunFacts DEF KeyInv, Alone, Kinds
<1>7. ASSUME NEW k \in Kinds, NEW p \in Pairs
      PROVE  sent'[k][p] + Cardinality(HoldersOf(run', k, p)) <= Limit(k)
  <2>1. ~ Holds(NoRun, k, p)
    BY NoRunFacts DEF Holds, Kinds
  <2>2. sent[k][p] + Cardinality(HoldersOf(run', k, p)) <= Limit(k)
    BY <1>2, <2>1, BoundedKept DEF KeyInv
  <2>3. CASE k = run[r].kind /\ p \in run[r].pend
    <3> DEFINE T == HoldersOf(run, k, p)
               U == HoldersOf(run', k, p)
    <3>1. T \in SUBSET Runs /\ r \in T
      BY <2>3 DEF HoldersOf, Holds
    <3>2. U \in SUBSET (T \ {r})
      BY <1>3, <2>1 DEF HoldersOf
    <3>3. T \ {r} \in SUBSET Runs /\ T \in SUBSET T
      BY <3>1
    <3>4. sent[k][p] + Cardinality(T) <= Limit(k)
      BY DEF KeyInv, Bounded
    <3>5. sent'[k][p] = sent[k][p] + 1 /\ sent[k][p] \in Nat
      BY <1>1, <2>3, SentNat
    <3> HIDE DEF T, U
    <3>6. Cardinality(U) <= Cardinality(T \ {r}) /\ Cardinality(U) \in Nat
      BY <3>2, <3>3, HoldersCard
    <3>7. IsFiniteSet(T) /\ Cardinality(T) \in Nat
      BY <3>1, <3>3, HoldersCard
    <3>8. Cardinality(T \ {r}) = Cardinality(T) - 1
      BY <3>1, <3>7, FS_RemoveElement
    <3>9. sent'[k][p] + Cardinality(U) <= Limit(k)
      BY <3>4, <3>5, <3>6, <3>7, <3>8, LimitNat
    <3> QED
      BY <3>9 DEF U
  <2>4. CASE ~ (k = run[r].kind /\ p \in run[r].pend)
    <3>1. sent'[k][p] = sent[k][p]
      BY <1>1, <2>4, SentNat
    <3> QED
      BY <2>2, <3>1
  <2> QED
    BY <2>3, <2>4
<1> QED
  BY <1>4, <1>5, <1>6, <1>7 DEF KeyInv, Bounded

LEMMA ExpireKeeps ==
    ASSUME TypeInv, KeyInv, NEW x \in Kinds, NEW y \in Pairs, Expire(x, y)
    PROVE  KeyInv'
<1>1. /\ \A r \in Runs : run[r].kind = x => y \notin run[r].pend
      /\ dedup' = [dedup EXCEPT ![x] = @ \ {y}]
      /\ sent' = [sent EXCEPT ![x][y] = 0]
      /\ UNCHANGED run
  BY DEF Expire
<1>2. \A k \in Kinds, p \in Pairs :
         sent'[k][p] = IF k = x /\ p = y THEN 0 ELSE sent[k][p]
  BY <1>1 DEF TypeInv, TypeOK
<1>3. \A k \in Kinds, p \in Pairs :
         p \in dedup'[k] <=> p \in dedup[k] /\ ~ (k = x /\ p = y)
  BY <1>1 DEF TypeInv, TypeOK
<1>4. PendKeyed'
  <2> SUFFICES ASSUME NEW r \in Runs, NEW p \in run[r].pend, run[r].kind \in Kinds
               PROVE  p \in dedup'[run[r].kind]
    BY <1>1 DEF PendKeyed
  <2>1. p \in Pairs
    BY DEF TypeInv, TypeOK, Run
  <2>2. p \in dedup[run[r].kind]
    BY DEF KeyInv, PendKeyed
  <2> QED
    BY <1>1, <1>3, <2>1, <2>2
<1>5. SentKeyed'
  BY <1>2, <1>3 DEF KeyInv, SentKeyed
<1>6. Alone'
  BY <1>1 DEF KeyInv, Alone
<1>7. ASSUME NEW k \in Kinds, NEW p \in Pairs
      PROVE  sent'[k][p] + Cardinality(HoldersOf(run', k, p)) <= Limit(k)
  <2>1. HoldersOf(run, k, p) \in SUBSET Runs
    BY DEF HoldersOf
  <2>2. Cardinality(HoldersOf(run, k, p)) \in Nat
    BY <2>1, HoldersCard
  <2>3. sent[k][p] + Cardinality(HoldersOf(run, k, p)) <= Limit(k)
    BY DEF KeyInv, Bounded
  <2>4. sent'[k][p] \in Nat /\ sent'[k][p] <= sent[k][p]
    BY <1>2, SentNat
  <2> QED
    BY <1>1, <2>2, <2>3, <2>4, SentNat, LimitNat
<1> QED
  BY <1>4, <1>5, <1>6, <1>7 DEF KeyInv, Bounded

LEMMA KeyNext == TypeInv /\ KeyInv /\ [Next]_vars => KeyInv'
<1> SUFFICES ASSUME TypeInv, KeyInv, [Next]_vars PROVE KeyInv'
  OBVIOUS
<1>1. CASE Around
  <2>1. UNCHANGED <<dedup, sent, run>>
    BY <1>1 DEF Around, Share, Age, DeleteMessage, Trade, Resolve, TimePasses, vars
  <2> QED
    BY <2>1 DEF KeyInv, PendKeyed, SentKeyed, Alone, Bounded
<1> QED
  BY <1>1, NextCases, QuietKeeps, ClaimKeeps, SetKeyKeeps, CommitKeeps, ExpireKeeps

LEMMA KeyInvariant == Spec => []KeyInv
  BY TypeInit, TypeNext, KeyInit, KeyNext, PTL DEF Spec

\* A committed alert has its key, however many runs overlap or die between the key
\* (redis.set in check_price_alerts) and the commit.
THEOREM AlertsKeyed == Spec => []SentKeyed
<1>1. KeyInv => SentKeyed
  BY DEF KeyInv
<1> QED
  BY <1>1, KeyInvariant, PTL

\* While a key lives, it stands for one alert, or for at most as many as there are
\* runs in flight if runs of its kind overlap, although GET and SET are two commands.
THEOREM AlertsLimited == Spec => []AlertsPerKey
<1>1. TypeInv /\ KeyInv => AlertsPerKey
  <2> SUFFICES ASSUME TypeInv, KeyInv, NEW k \in Kinds, NEW p \in Pairs
               PROVE  sent[k][p] <= Limit(k)
    BY DEF AlertsPerKey, Limit
  <2>1. HoldersOf(run, k, p) \in SUBSET Runs
    BY DEF HoldersOf
  <2>2. Cardinality(HoldersOf(run, k, p)) \in Nat
    BY <2>1, HoldersCard
  <2>3. sent[k][p] + Cardinality(HoldersOf(run, k, p)) <= Limit(k)
    BY DEF KeyInv, Bounded
  <2> QED
    BY <2>2, <2>3, SentNat, LimitNat
<1> QED
  BY <1>1, TypeInit, TypeNext, KeyInvariant, PTL DEF Spec
===============================================================================
