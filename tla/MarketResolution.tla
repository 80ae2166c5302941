--------------------------- MODULE MarketResolution ---------------------------
(***************************************************************************)
(* How the status and result of Polymarket markets get into the markets    *)
(* table.  Four writers, none of which takes a lock or guards its UPDATE:  *)
(*   - path A: a market_resolved message of the CLOB WebSocket names the   *)
(*     winner (_apply_ws_resolution of workers/polymarket/stream.py);      *)
(*   - path B: a trade at a settlement price makes the market a candidate  *)
(*     that the Gamma API confirms (_check_and_update_market_resolution);  *)
(*   - the reconciliation cron, in a process of its own, checks the LIMIT  *)
(*     least recently updated markets against the Gamma API                *)
(*     (run_polymarket_state_reconciliation of workers/polymarket/ingest.py); *)
(*   - a catalogue sync upserts what the Gamma API lists.                  *)
(* Paths A and B are scheduled by the flusher of ticker updates, after it  *)
(* has flushed a batch, and run as tasks under a semaphore.                *)
(***************************************************************************)
EXTENDS Naturals, FiniteSets

CONSTANTS
    Markets,      \* the markets of the table
    Outcomes,     \* the names a winner may have
    Traded,       \* those with a 24h volume: the cron's volume refresh touches them
    Streamed,     \* those a sync covers and the WebSocket is subscribed to
    Slots,        \* permits of _lifecycle_semaphore (3 in the code)
    Crons,        \* reconciliation runs that may overlap (2 min period, 5 min timeout)
    Limit,        \* LIMIT of the cron's query (200 in the code)
    BatchSize,    \* markets per Gamma call of the cron (20 in the code)
    Events        \* what may happen around the code

ASSUME ConstantsAssumption ==
    /\ IsFiniteSet(Markets)
    /\ Outcomes \cap {"open", "closed", "none"} = {}
    /\ Traded \subseteq Markets
    /\ Streamed \subseteq Markets
    /\ Limit \in Nat \ {0}
    /\ BatchSize \in Nat \ {0}
    /\ Events \subseteq {"resolved", "nowinner", "trade", "tick", "sync",
                         "restart", "fail"}

VARIABLES
    venue,           \* external: the state of each market at Polymarket
    status, result,  \* markets.status, markets.result
    updatedAt,       \* markets.updated_at, as the number of older markets
    wsResolutions,   \* _ws_resolutions
    candidates,      \* _resolution_candidates
    ticks,           \* whether the ticker queue holds updates
    flusher,         \* _redis_flusher: waiting for a batch, or in the pipeline
    waiting,         \* resolution tasks waiting for the semaphore
    task,            \* task[s]: the task that holds permit s
    cron,            \* cron[c]: a run of the reconciliation
    sync             \* the catalogue sync: the market it is about to upsert

rows == <<status, result, updatedAt>>
feed == <<wsResolutions, candidates, ticks>>
vars == <<venue, status, result, updatedAt, wsResolutions, candidates, ticks,
          flusher, waiting, task, cron, sync>>

-----------------------------------------------------------------------------
Venues == {"open", "closed"} \cup Outcomes
Results == Outcomes \cup {"none"}
Statuses == {"active", "closed", "resolved"}
Terminal == {"resolved", "canceled"}

\* What a writer is about to put into a row.
Writes == [status : Statuses, result : Results]

Jobs == [path : {"A", "B"}, market : Markets, outcome : Results]

Verdict_ClosedIsFinal(v) ==
    [status |-> IF v = "open" THEN "active" ELSE "resolved",
     result |-> IF v \in Outcomes THEN v ELSE "none"]

Verdict_FirstToken(v) ==
    [status |-> IF v \in Outcomes THEN "resolved"
                ELSE IF v = "closed" THEN "closed" ELSE "active",
     result |-> IF v = "open" THEN "none" ELSE CHOOSE o \in Outcomes : TRUE]

\* What the code makes of Gamma's answer: a winning token means resolved, else
\* closed, archived or inactive means closed.
Verdict(v) ==
    [status |-> IF v \in Outcomes THEN "resolved"
                ELSE IF v = "closed" THEN "closed" ELSE "active",
     result |-> IF v \in Outcomes THEN v ELSE "none"]

IdleTask == [step |-> "idle"]
TaskAt(step, j) == [step |-> step, job |-> j]
Checking(j, seen) == [step |-> "gamma", job |-> j, seen |-> seen]
Writing(j, w) == [step |-> "update", job |-> j, write |-> w]

Tasks ==
    {IdleTask}
    \cup [step : {"select"}, job : Jobs]
    \cup [step : {"gamma"}, job : Jobs, seen : Statuses]
    \cup [step : {"update"}, job : Jobs, write : Writes]

\* db_status_map, the markets still to ask Gamma for, the updates and the
\* volume_data gathered so far.
NoRun == [step |-> "idle"]
Run(step, seen, todo, updates, volumes) ==
    [step |-> step, seen |-> seen, todo |-> todo, updates |-> updates,
     volumes |-> volumes]

Runs ==
    {NoRun} \cup
    [step : {"call", "update", "volume"}, seen : [Markets -> Statuses],
     todo : SUBSET Markets, updates : SUBSET (Markets \X Writes),
     volumes : SUBSET Markets]

NoSync == [step |-> "idle"]
Syncs == {NoSync} \cup [step : {"upsert"}, market : Markets,
                        status : {"active", "closed"}]

TypeOK ==
    /\ venue \in [Markets -> Venues]
    /\ status \in [Markets -> Statuses]
    /\ result \in [Markets -> Results]
    /\ updatedAt \in [Markets -> Nat]
    /\ wsResolutions \in SUBSET (Markets \X Outcomes)
    /\ candidates \in SUBSET Markets
    /\ ticks \in BOOLEAN
    /\ flusher \in {"wait", "pipe"}
    /\ waiting \in SUBSET Jobs
    /\ task \in [Slots -> Tasks]
    /\ cron \in [Crons -> Runs]
    /\ sync \in Syncs

\* The catalogue has been synced while the markets were trading.
Init ==
    /\ venue = [m \in Markets |-> "open"]
    /\ status = [m \in Markets |-> "active"]
    /\ result = [m \in Markets |-> "none"]
    /\ updatedAt = [m \in Markets |-> 0]
    /\ wsResolutions = {}
    /\ candidates = {}
    /\ ticks = FALSE
    /\ flusher = "wait"
    /\ waiting = {}
    /\ task = [s \in Slots |-> IdleTask]
    /\ cron = [c \in Crons |-> NoRun]
    /\ sync = NoSync

\* updated_at := now for the markets of S; only the order of the times counts.
Touch(S) ==
    [m \in Markets |->
        IF m \in S THEN Cardinality(Markets \ S)
        ELSE Cardinality({n \in Markets \ S : updatedAt[n] < updatedAt[m]})]

-----------------------------------------------------------------------------
(* Polymarket: a market stops trading, then a winner is reported; neither is *)
(* ever taken back.                                                          *)
VenueMoves(m) ==
    /\ \/ venue[m] = "open" /\ venue' = [venue EXCEPT ![m] = "closed"]
       \/ /\ venue[m] = "closed"
          /\ \E o \in Outcomes : venue' = [venue EXCEPT ![m] = o]
    /\ UNCHANGED <<rows, feed, flusher, waiting, task, cron, sync>>

(* Messages of the WebSocket. *)
MarketResolved(m) ==
    /\ m \in Streamed
    /\ \/ /\ "resolved" \in Events /\ venue[m] \in Outcomes
          /\ wsResolutions' = wsResolutions \cup {<<m, venue[m]>>}
          /\ UNCHANGED candidates
       \/ /\ "nowinner" \in Events /\ venue[m] # "open"
          /\ candidates' = candidates \cup {m}
          /\ UNCHANGED wsResolutions
    /\ UNCHANGED <<venue, rows, ticks, flusher, waiting, task, cron, sync>>

\* A trade at a settlement price happens in any state of the market.
SettlementTrade(m) ==
    /\ "trade" \in Events /\ m \in Streamed
    /\ candidates' = candidates \cup {m}
    /\ ticks' = TRUE
    /\ UNCHANGED <<venue, rows, wsResolutions, flusher, waiting, task, cron, sync>>

Ticker ==
    /\ "tick" \in Events
    /\ ticks' = TRUE
    /\ UNCHANGED <<venue, rows, wsResolutions, candidates, flusher, waiting,
                   task, cron, sync>>

-----------------------------------------------------------------------------
(* _redis_flusher *)
TakeBatch ==
    /\ flusher = "wait" /\ ticks
    /\ ticks' = FALSE
    /\ flusher' = "pipe"
    /\ UNCHANGED <<venue, rows, wsResolutions, candidates, waiting, task, cron,
                   sync>>

\* Phases 3 and 4: every pending resolution becomes a task.
Flushed ==
    /\ flusher = "pipe"
    /\ flusher' = "wait"
    /\ waiting' = waiting
          \cup {[path |-> "A", market |-> r[1], outcome |-> r[2]] : r \in wsResolutions}
          \cup {[path |-> "B", market |-> m, outcome |-> "none"] : m \in candidates}
    /\ wsResolutions' = {}
    /\ candidates' = {}
    /\ UNCHANGED <<venue, rows, ticks, task, cron, sync>>

\* Redis raises: the batch is lost, phases 3 and 4 are skipped this time.
FlushFails ==
    /\ "fail" \in Events
    /\ flusher = "pipe"
    /\ flusher' = "wait"
    /\ UNCHANGED <<venue, rows, feed, waiting, task, cron, sync>>

-----------------------------------------------------------------------------
(* Paths A and B *)
Becomes(s, t) == task' = [task EXCEPT ![s] = t]

Acquire(s) ==
    /\ task[s].step = "idle"
    /\ \E j \in waiting :
          /\ waiting' = waiting \ {j}
          /\ Becomes(s, TaskAt("select", j))
    /\ UNCHANGED <<venue, rows, feed, flusher, cron, sync>>

SelectMarket(s) ==
    LET j == task[s].job
        now == status[j.market]
    IN
    /\ task[s].step = "select"
    /\ \/ now \in Terminal /\ Becomes(s, IdleTask)
       \/ /\ now \notin Terminal /\ j.path = "A"
          /\ Becomes(s, Writing(j, [status |-> "resolved", result |-> j.outcome]))
       \/ /\ now \notin Terminal /\ j.path = "B"
          /\ Becomes(s, Checking(j, now))
    /\ UNCHANGED <<venue, rows, feed, flusher, waiting, cron, sync>>

AskGamma_NoStillActive(s) ==
    LET j == task[s].job
        v == venue[j.market]
        new == IF v = "open" THEN [status |-> "closed", result |-> "none"]
               ELSE Verdict(v)
    IN
    /\ task[s].step = "gamma"
    /\ Becomes(s, IF new.status = task[s].seen THEN IdleTask ELSE Writing(j, new))
    /\ UNCHANGED <<venue, rows, feed, flusher, waiting, cron, sync>>

\* Still trading, or nothing new: the task ends.
AskGamma(s) ==
    LET j == task[s].job
        new == Verdict(venue[j.market])
    IN
    /\ task[s].step = "gamma"
    /\ Becomes(s, IF new.status \in {"active", task[s].seen}
                  THEN IdleTask ELSE Writing(j, new))
    /\ UNCHANGED <<venue, rows, feed, flusher, waiting, cron, sync>>

UpdateMarket(s) ==
    LET m == task[s].job.market
        w == task[s].write
    IN
    /\ task[s].step = "update"
    /\ status' = [status EXCEPT ![m] = w.status]
    /\ result' = [result EXCEPT ![m] = w.result]
    /\ updatedAt' = Touch({m})
    /\ Becomes(s, IdleTask)
    /\ UNCHANGED <<venue, feed, flusher, waiting, cron, sync>>

\* Any exception or a non-200 answer ends the task; nobody repeats it.
TaskFails(s) ==
    /\ "fail" \in Events
    /\ task[s].step # "idle"
    /\ Becomes(s, IdleTask)
    /\ UNCHANGED <<venue, rows, feed, flusher, waiting, cron, sync>>

\* The API process restarts: queue, sets and tasks are gone.
Restart ==
    /\ "restart" \in Events
    /\ wsResolutions' = {}
    /\ candidates' = {}
    /\ ticks' = FALSE
    /\ flusher' = "wait"
    /\ waiting' = {}
    /\ task' = [s \in Slots |-> IdleTask]
    /\ sync' = NoSync
    /\ UNCHANGED <<venue, rows, cron>>

-----------------------------------------------------------------------------
(* run_polymarket_state_reconciliation *)
OpenMarkets_ActiveOnly == {m \in Markets : status[m] = "active"}

OpenMarkets == {m \in Markets : status[m] \notin Terminal}

\* ORDER BY updated_at LIMIT: no market left out is older than a chosen one.
Oldest(S) ==
    /\ S \subseteq OpenMarkets /\ S # {}
    /\ S = OpenMarkets \/ Cardinality(S) = Limit
    /\ Cardinality(S) <= Limit
    /\ \A m \in S, n \in OpenMarkets \ S : updatedAt[m] <= updatedAt[n]

\* db_status_map, for the markets still to ask Gamma for.
Kept(seen, S) == [m \in Markets |-> IF m \in S THEN seen[m] ELSE "active"]

CronSelect(c) ==
    /\ cron[c].step = "idle"
    /\ \E S \in SUBSET Markets :
          /\ Oldest(S)
          /\ cron' = [cron EXCEPT ![c] = Run("call", Kept(status, S), S, {}, {})]
    /\ UNCHANGED <<venue, rows, feed, flusher, waiting, task, sync>>

\* The changes that the answers about A bring.
Changes(A, seen) ==
    {<<m, Verdict(venue[m])>> : m \in {n \in A : Verdict(venue[n]).status # seen[n]}}

\* One Gamma call for a batch, answered for the markets of A: a failed call is
\* skipped (A empty), and an answer may leave markets out.
CronCall(c, B, A) ==
    LET q == cron[c]
        todo == q.todo \ B
        updates == q.updates \cup Changes(A, q.seen)
    IN
    /\ q.step = "call"
    /\ B \subseteq q.todo /\ B # {} /\ A \subseteq B
    /\ B = q.todo \/ Cardinality(B) = BatchSize
    /\ Cardinality(B) <= BatchSize
    /\ cron' = [cron EXCEPT ![c] =
          Run(IF todo # {} THEN "call" ELSE IF updates # {} THEN "update" ELSE "volume",
              Kept(q.seen, todo), todo, updates, q.volumes \cup A)]
    /\ UNCHANGED <<venue, rows, feed, flusher, waiting, task, sync>>

\* The updates are one transaction (executemany), and so is the volume refresh.
Changed(q) == {m \in Markets : \E w \in Writes : <<m, w>> \in q.updates}
NewWrite(q, m) == CHOOSE w \in Writes : <<m, w>> \in q.updates

CronUpdate(c) ==
    LET q == cron[c] IN
    /\ q.step = "update"
    /\ status' = [m \in Markets |->
                     IF m \in Changed(q) THEN NewWrite(q, m).status ELSE status[m]]
    /\ result' = [m \in Markets |->
                     IF m \in Changed(q) THEN NewWrite(q, m).result ELSE result[m]]
    /\ updatedAt' = Touch(Changed(q))
    /\ cron' = [cron EXCEPT ![c] = Run("volume", q.seen, {}, {}, q.volumes)]
    /\ UNCHANGED <<venue, feed, flusher, waiting, task, sync>>

CronVolume(c) ==
    /\ cron[c].step = "volume"
    /\ updatedAt' = Touch(cron[c].volumes \cap Traded)
    /\ cron' = [cron EXCEPT ![c] = NoRun]
    /\ UNCHANGED <<venue, status, result, feed, flusher, waiting, task, sync>>

\* job_timeout, an exception, a restart of the arq worker.
CronAbort(c) ==
    /\ "fail" \in Events
    /\ cron[c].step # "idle"
    /\ cron' = [cron EXCEPT ![c] = NoRun]
    /\ UNCHANGED <<venue, rows, feed, flusher, waiting, task, sync>>

-----------------------------------------------------------------------------
(* run_polymarket_dev_sync: what Gamma lists is fetched, then upserted market *)
(* by market.  The upsert knows no winner and leaves result alone.            *)
SyncFetch(m) ==
    /\ "sync" \in Events /\ m \in Streamed
    /\ sync.step = "idle"
    /\ sync' = [step |-> "upsert", market |-> m,
                status |-> IF venue[m] = "open" THEN "active" ELSE "closed"]
    /\ UNCHANGED <<venue, rows, feed, flusher, waiting, task, cron>>

SyncUpsert ==
    /\ sync.step = "upsert"
    /\ status' = [status EXCEPT ![sync.market] = sync.status]
    /\ updatedAt' = Touch({sync.market})
    /\ sync' = NoSync
    /\ UNCHANGED <<venue, result, feed, flusher, waiting, task, cron>>

-----------------------------------------------------------------------------
StreamStep(s) ==
    \/ Acquire(s) \/ SelectMarket(s) \/ AskGamma(s) \/ UpdateMarket(s)

CronStep(c) ==
    \/ CronSelect(c) \/ CronUpdate(c) \/ CronVolume(c)
    \/ \E B \in SUBSET Markets : \E A \in SUBSET B : CronCall(c, B, A)

Next ==
    \/ \E m \in Markets :
          VenueMoves(m) \/ MarketResolved(m) \/ SettlementTrade(m) \/ SyncFetch(m)
    \/ Ticker \/ TakeBatch \/ Flushed \/ FlushFails
    \/ \E s \in Slots : StreamStep(s) \/ TaskFails(s)
    \/ \E c \in Crons : CronStep(c) \/ CronAbort(c)
    \/ Restart \/ SyncUpsert

Spec == Init /\ [][Next]_vars

\* arq starts the cron every two minutes and a run that is not killed ends;
\* Gamma, asked about a market again and again, answers in the end.  Nothing is
\* assumed of the stream, its tasks or a sync: they need not go on at all.
CronAnswers(m) ==
    \E c \in Crons :
       /\ cron[c].step = "call" /\ m \in cron[c].todo
       /\ \E B \in SUBSET cron[c].todo : \E A \in SUBSET B :
             m \in A /\ CronCall(c, B, A)

Fairness ==
    /\ \A c \in Crons : WF_vars(CronStep(c))
    /\ \A m \in Markets : SF_vars(CronAnswers(m))

FairSpec == Spec /\ Fairness

-----------------------------------------------------------------------------
\* Whatever message, task, cron run and sync overlap, a result in the table is
\* the winner that Polymarket reported.
ResultTruthful == \A m \in Markets : result[m] # "none" => result[m] = venue[m]

\* A market that the table calls resolved has its winner, although status and
\* result are written by four writers and one of them writes status alone.
ResolvedHasWinner ==
    \A m \in Markets : status[m] = "resolved" => result[m] # "none"

\* A trade at a settlement price does not close a market that still trades.
NeverClosedEarly ==
    \A m \in Markets : status[m] # "active" => venue[m] # "open"

\* A market with a winner is resolved in the table for good in the end, though
\* pending resolutions are lost, a path B that asked before the winner writes
\* "closed" over it, a sync takes the status back and runs overlap: the cron
\* repairs all of it.  Two things must stop at some time: syncs, each of which
\* takes the status back, and runs that are killed.  And there must be fewer
\* markets without volume than LIMIT: as many are all that the cron ever selects.
Calm == <>[][~ (SyncUpsert \/ \E c \in Crons : CronAbort(c))]_vars

Converges ==
    Calm => \A m \in Markets : venue[m] \in Outcomes ~> [](status[m] = "resolved")
=============================================================================
