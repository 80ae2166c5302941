# Alpha backend: a TLA+ verification project

The repository is the backend of a prediction-market app: a FastAPI process
that serves the app and streams prices from Polymarket, an arq worker that runs
cron jobs, PostgreSQL as the source of truth and Redis for prices, caches and
counters. This directory models the parts of it in which several requests,
tasks, processes or retries meet over shared state, checks the models with TLC
on small instances, and proves what matters most with TLAPS for instances of
every size.

Paths below are relative to the repository.

## 1. The system

| Component | Code | State it keeps | Operations |
|---|---|---|---|
| Group membership and roles | `app/services/groups.py`, `app/api/routes/v1/groups.py` | rows of `group_memberships`, `groups.member_count`, `is_deleted`; Redis set `group_members:{id}` | create, join, invite link, leave, kick, change role, delete |
| Group directory | the same files | `groups.slug`, `invite_code` | slug check-then-insert, invite code generation, discover |
| Messages and unread counters | `app/services/groups.py`, `app/api/routes/v1/messages.py` | `group_messages`, Redis member set, `unread:{group}:{user}` | send with fan-out, mark as read, list, delete |
| Group alerts | `app/workers/group_alerts.py` | Redis dedup keys, system messages | price alerts, resolution alerts |
| Polymarket resolution | `app/workers/polymarket/stream.py`, `.../ingest.py` | `markets.status`, `result`, `updated_at`; in-memory candidates and resolutions | paths A and B, reconciliation cron, dev sync |
| Polymarket tickers | `app/workers/polymarket/stream.py` | order book dict, bounded queue, Redis hashes and live buffers | parse, enqueue, flush |
| Polymarket WebSocket | `app/workers/polymarket/stream.py` 803-1005 | token list, backoff | connect, receive, resubscribe |
| Polymarket catalogue and tags | `app/workers/polymarket/ingest.py`, `app/workers/taxonomy.py` | series, events, markets, outcomes, `platform_tags`, the published token list | paging by offset, upserts, retries under a semaphore, diverse selection |
| Kalshi sync, OHLCV | `app/workers/kalshi/ingest.py` | the same tables, the time of the last delta run in memory, 1m candles | full sync, delta sync, DEV_MODE sync, aggregation |
| Kalshi stream | `app/workers/kalshi/stream.py` | as the Polymarket tickers | its start is commented out in `app/main.py` |
| Charts and candlesticks | `app/services/candlesticks.py`, `app/services/polymarket/price_data.py` | live candle in Redis, cached history | upsert (Lua), merge, stitch |
| Orders and API keys | `app/services/order.py`, `app/services/polymarket/wallet.py` | cached tick size, neg_risk and fee rate; the encrypted key in `accounts` | derive or create a key, amounts, prepare, submit, cancel |
| Approvals and Safe deployment | `app/services/approvals.py`, `app/services/polymarket/wallet.py` | jobs at the relayer | submit once, poll |
| Users and follows | `app/api/routes/v1/users.py` | `users`, `accounts`, `user_follows` | login and registration, username, follow, unfollow |
| Read API, positions, token checks | the remaining routes and services | none of their own | queries |

How they interact: the API process and the arq worker share PostgreSQL and
Redis and nothing else. Inside the API process everything is asyncio: between
two `await`s any other coroutine may run. Group membership writes the database
and then Redis; the fan-out of messages reads Redis and falls back to the
database. The stream's receive loop hands ticker updates to the flusher over a
bounded queue and resolutions over two in-memory containers; the flusher starts
tasks; these, the cron and a sync write the same columns of `markets` without
locks. Sessions are READ COMMITTED with `expire_on_commit=False`
(`app/core/database.py`), so a SELECT sees the last commit and a loaded
attribute is never refreshed.

What is hard here, and what the properties aim at (`PROJECT.json` lists every
hazard at its line): check-then-act over two statements; database and Redis
written in two steps; stale reads across HTTP calls; a cache whose partial
content counts as a hit; unguarded UPDATEs of several writers; work queued in
memory and lost in a restart; a `LIMIT` that may starve; polling that gives up.

## 2. Plan

Order: what decides who belongs to a group (many actors, no locks) comes first,
then what decides how a market ended, since both are the state that every other
part relies on.

1. `MembershipTable`, `GroupMembership`: abstract table, endpoints, refinement,
   proofs. *Done.*
2. `GroupMessaging`: composes messages with `GroupMembership`. *Done.*
3. `MarketResolution`: four writers of a market's status, proofs. *Done.*
4. `GroupAlerts`: two cron jobs, keys set before the commit. *Done.* Later: fed by
   `MarketResolution` instead of by an environment that resolves markets.
5. `TickerPipeline`: order book, queue that drops the newest, flusher, Redis hash,
   proofs. *Done.*
6. `StreamConnection`: connect, silence, resubscription, backoff, proofs. *Done.*
7. `KalshiSync`: three kinds of runs over the same tables, pages that fail, the
   window of the delta sync, proofs. *Done.*
8. `TagTaxonomy`, `PolymarketCatalogue`: the tag sync and the catalogue syncs,
   which write the same tags, proofs. *Done.*
9. `UserAccounts`, `OrderFlow`, `RelayPromise`, `RelayerJobs`, composed in
   `Trading`: the requests of a user who trades, and what they may conclude from
   an answer, proofs. *Done.*
10. `GroupDirectory`, `Candlesticks`, `Pagination`: slugs and invite codes; merge,
    stitch and cursors as operators against reference definitions. Not begun.

Every safety invariant, action property and refinement that a run checks is now
a theorem too (section 5). Theorems that may follow: what holds of the member set
and the fan-out when requests do overlap, beyond `OnlyPastMembersCounted`; an
abstract specification of the catalogue's tables that the syncs implement.

## 3. What is modelled

### `MembershipTable` (abstract) and `GroupMembership`

`MembershipTable` says what the rows of one group promise: a row enters as
`member`, at most one per user; the owner's row is immutable; a deleted group
stays deleted; `member_count` rises only with a new row and by one, and may fall
without one (`Drift`, the defect the count suffers from).

`GroupMembership` has a slot `req[w]` for every request in flight. A request
goes through named steps, one per database statement or Redis command, and keeps
in its slot what it has read (`crole`, `trole`, `row`).

| Variable | Code |
|---|---|
| `role[u]`, `rowId[u]` | the `group_memberships` row of `u` and its identity |
| `count`, `deleted` | `groups.member_count`, `groups.is_deleted` |
| `cache` | Redis set `group_members:{id}` |
| `unread[u]` | Redis counter `unread:{id}:{u}` |
| `req[w]` | a coroutine of an endpoint |

| Actions | Code |
|---|---|
| `JoinReadGroup`, `InviteReadMembership`, `AddSelect`, `AddCommit`, `AddToMemberSet` | `join_public_group`, `join_via_invite`, `add_member` |
| `ReadGroup`, `ReadCaller` | `get_group_or_404_authorized`, `assert_min_role` |
| `ReadTarget`, `SetRole`, `DeleteGroup` | `update_member_role`, `kick_member`, `delete_group` |
| `RemoveSelect`, `RemoveCommit`, `RemoveFromMemberSet`, `ClearUnread` | `remove_member` |
| `Abort`, `ExpireMemberSet` | a request that dies; the 24 h TTL |

A transaction that flushes and commits without another request's statement in
between having an effect is one action. What the ORM does is modelled: an UPDATE
of an unchanged attribute writes nothing, an UPDATE by id of a vanished row
raises, a DELETE of a vanished row is a warning, the unique constraint surfaces
at the autoflush.

### `GroupMessaging`

EXTENDS `GroupMembership` with slots `post[p]` for `send_message` and
`mark_group_read`; a step of the composition is a step of `GroupMembership` or
of a post. The fan-out is taken apart into SMEMBERS, the SELECT of a rebuild,
the SADD that stores it, and the MULTI of INCRs. `owed` is a history variable:
the rows that a committed message has to be counted for.

### `MarketResolution`

`venue[m]` is the truth at Polymarket (external: open, closed, then a winner,
never taken back). `wsResolutions`, `candidates`, `ticks`, `flusher`, `waiting`
and `task[s]` are the API process, lost in a `Restart`; `cron[c]` is a run of
the reconciliation in the arq worker; `sync` the dev sync. `updatedAt` is the
order of the `updated_at` column: `Touch(S)` moves the markets of `S` to the
end, so the numbers stay below the number of markets. The semaphore is the set
`Slots`: a task runs when it holds one. Tasks that wait are a set: two waiting
checks of one market count as one, which the next trade makes two again.

### `GroupAlerts`

`run[r]` is a run of `check_price_alerts` or `check_resolution_alerts` with what
it has selected and what it has added to its transaction (`pend`). GET and SET
of a key are two steps; `Commit` is the end of the run, after all keys.
`Abort` is an exception, the timeout or a restart of the worker: keys stay,
messages do not. `sent` is a history variable, reset when the key expires.

Clock times are reduced to the comparisons the queries make: `recent` (younger
than 24 h), `window` (where `resolve_time` lies), `dedup` (keys not expired).
Around the jobs, `Share`, `DeleteMessage`, `Trade` and `Resolve` stand for the
message endpoints, the ticker hash and the writers of a market's status.

What modelling showed: `resolve_time` is never set for a Polymarket market, so
that its resolution is announced to nobody, and it is the announced end for a
Kalshi market, so that one resolved early is announced until three minutes after
that end; the metadata of a trade has no `market_id`, so that the branch that
marks trade messages as resolved is never taken; of several shares of a market
in a group only one, in no defined order, is compared with the price.

### `TickerPipeline`

`book` is `_orderbook_state`, `queue` the bounded `asyncio.Queue`, `batch` what
the flusher has taken, `ticker` the Redis hash. `Receive` is
`_parse_and_enqueue` with its five handlers of price messages: there is no await
in it. Prices are ticks and mid-prices half ticks. A side that is missing in
memory (`Missing`) differs from one that is the string "0", which
`_get_mid_price` takes for a price. `Written` gives a hash after the HSETs of a
sequence of updates. `lost` is a history variable: the tokens whose newest update
was dropped, failed or has expired.

### `StreamConnection`

`conn` is where `run_polymarket_ws` is in its loop, `active` its
`active_token_ids`, `subscribed` what the server has been told, `listed` what
the database lists at the moment. A load of the list returns `listed` or, after
an error, nothing, which the loop takes for "keep the list".

### `KalshiSync`

A run (`Full`, `Delta`, `Dev`) is a job of the arq worker or a request to
`/dev/sync/kalshi`. `step[j]` is its place in the code: series, then per page
fetch, events, markets, outcomes, the last two with a fallback row by row when
the statement for the page fails. Runs share the tables and nothing else.

A row is modelled by the state of the market that its answer reported (0: no
row), because every column is a function of that answer: `rowOf[m]` for the market
row, `outcomeOf[m][s]` for its outcome rows. `venue[m]` is the state at Kalshi.
What a delta run asks for (`min_updated_ts`) is the set `window`; `fresh[j]`
collects what changes after the run took its clock, and becomes the next window.
`held[j]` is the page in the memory of a run.

| Actions | Code |
|---|---|
| `StartFull`, `StartDelta`, `StartDev`, `SyncSeries`, `SyncDevSeries` | `run_kalshi_full_sync`, `kalshi_state_reconciliation`, `run_kalshi_dev_sync`, `sync_series` |
| `FetchEvents`, `FetchMarkets`, `FetchOpenEvents`, `FetchNested` and their failures | the paged calls of `app/services/kalshi.py` |
| `UpsertEvents` | `_upsert_events_returning`, whose failed rows take their markets along |
| `MarketsBatch`, `MarketsBatchFails`, `MarketRow`, `SkipMarketRow` | `_upsert_markets_batch` |
| `OutcomesBatch`, `OutcomesBatchFails`, `OutcomeRow`, `SkipOutcomeRow` | `_upsert_outcomes_batch` |
| `FinishRun`, `PublishTargets`, `RunDies`, `Restart` | the ends of the runs |

`suspect` and `rivals` are history variables. A market is suspect once a row of it
was skipped, its page failed, a run that held it died or another run held it at
the same time; it ceases to be when a current answer is written by a run that had
it alone. The properties say that nothing is lost, torn or taken back for any
other reason, and `Mirrors` that the full sync repairs all of these, where it gets.

`FetchEvents` reads the pages in the order of the cursor, each run from the first
one on (`IsNextPage`; `Position` is Kalshi's order, assumed not to change during a
run). No run remembers how far an earlier one came, and the worker cuts every job
off after 300 seconds (`core/arq_worker.py` 140), which `RunDies` does at any step.
So the full sync promises nothing of a market whose page it never reaches, and the
premise of `Mirrors` is about that page, market by market: some full run fetches
it again and again. It is not enough that runs start, or fetch the first page,
again and again: TLC then answers with `StartFull`, `SyncSeries`, the first page,
its events, `RunDies`, repeated for ever, and the second page is never asked for.
The DEV_MODE sync takes one page of an event's markets (`get_markets_raw` with
`limit=200`, `ingest.py` 1149, ignores the cursor): `FetchNested` takes as many as
a page holds.

The docstring of `get_markets_raw` (`app/services/kalshi.py` 222) and the comment
at `ingest.py` 1084 say that the SDK's model refuses nested markets whose prices
are null. The SDK is not part of the repository, so the model has both worlds
(`rejects`). Where it does refuse them, the full sync (`ingest.py` 772) and the
delta sync (1229), which do not go around it, stop at the first page with such a
market in every run, and so never reach that page nor those behind it.

### `TagTaxonomy` and `PolymarketCatalogue`

`TagTaxonomy` is the table `platform_tags` with its two kinds of writers, both
through `upsert_platform_tag`: the tag sync, with its fetches of children (three
permits, six attempts each), and the tags of an event. `PolymarketCatalogue`
EXTENDS it with the syncs of series, events and markets. `run[r]` is a sync; each
action is one await of it: a page, the row of a series, an event, a tag, a market,
the outcomes of that market (`pending` until then), the derived categories. A
statement for outcomes that fails or is cut off leaves a market without them
(`outcomeRow`: `"lost"`), and a failure is swallowed: its tokens are in the list of
the run all the same. The list of active series at
Polymarket may change between two pages. The DEV_MODE sync takes what
`SelectDiverse` selects and publishes the tokens it has written.

`SelectDiverse` is `_select_diverse_series` as an operator. Both sorts of the code
are stable, so that a series is selected in the round that is the number of series
of its bucket that are `Ahead` of it: with more volume, or as much and before it on
the page. Within a round the bucket keys are in order (`Sooner`). `Diverse` says what
the docstring promises of a selection; `DevSyncDiverse` asks it of what a DEV_MODE
sync selects and, since two series cannot show much, of every page of four
candidates in two buckets.
`behind` and `cut` are history variables: the series that slid behind the offset,
and those whose last processing was cut short.

What modelling showed: `run_polymarket_full_sync` and the tag sync have no caller
at this commit; while events are synced the links of their tags are emptied until
the next tag sync; the fallbacks of two DEV_MODE syncs that end at once each
extend the token list, so that it has its tokens twice; the tokens published may be
of a market that has no outcomes in the table (`Referential` names that exception
and allows no other).

### `UserAccounts`, `OrderFlow`, `RelayerJobs`, `Trading`

`call[w]` is a request that a worker handles: it authenticates, reads and commits
in different steps, and nothing is locked. A commit may be refused, or done
although the client saw an error (`Outcomes`).

| Variable | Code |
|---|---|
| `users`, `accounts`, `follows` | the tables, by wallet |
| `clobKey`, `creds`, `key` | the key that works at the CLOB, its copy in `accounts`, the one a call has in hand |
| `param`, `cache`, `quote` | tick size and fee rate at the CLOB, in Redis, as fetched by a call |
| `amounts` | what `prepare_order` gives to sign |
| `order` | signed orders at the CLOB |
| `job`, `polls`, `onChain`, `pending` | jobs at the relayer, and what they set on chain |

`UserAccounts` has login, follow, unfollow and the change of a username;
`OrderFlow` the storing of an API key, the three concurrent fetches of
`prepare_order` with their caches, the amounts, submission and cancellation;
`RelayerJobs` the submit and poll loops of approvals and of a Safe's deployment.
`Trading` composes them: they meet in the user's row and in the workers.

A float is modelled as the integer number of units it stands for and a noise of
-1, 0 or 1 (below, at or above it by a rounding error). `RoundProduct` is the
rounding in two steps of `_get_buy_amounts`: up, four decimals further on than the
last one that stays, which is to absorb an error below, and then down. It absorbs it
only while the error is less than one of those decimals, that is for products of
fewer than some 3 * 10^11 units of the last decimal that stays, at every tick size
(about 300 thousand dollars at 0.0001, 300 million at 0.1): the constant `Absorbed`.
From there on the dollars may come out one unit short: 1 500 000 shares at
0.57 and tick size 0.0001 make 854 999.999999 dollars. `RoundSize` has one step
only and may lose a hundredth of a share (`order.py` 106). `MaxSize` stands for a
billion shares; the API has no upper limit, but beyond it doubles do not hold the
amounts in millionths and nothing is claimed.

`RelayPromise` is the abstract specification of what an answer about a third
party's effect means: "done" that it is there, "failed" that this attempt will
never bring it, anything else nothing. `RelayerJobs` implements it
(`RelayPromised`), with the exception named in it: a body that is not JSON raises a
`ValueError`, which the routes answer with 400 like a failed job, although the job
may be mined (`approvals.py` 140).

What modelling showed beside this: the older route `/auth/register` always raises
before it writes; `deploy_safe` is called by no route; a follow whose commit fails
for any reason is answered `already_following`; a call that creates a key replaces
the one that a call before it may still store.

## 4. What is checked

Symmetry is used in safety runs only. CHECK_DEADLOCK is off only where the
system may stop: once every market is resolved the cron finds nothing to do, and
once every bounded counter is used up nothing is left to call.

| Run | Question | Bounds |
|---|---|---|
| `group_concurrent` | one owner, the count never above the rows, how far overlapping joins overrun the cap, refinement, under overlap, aborts, expiry and deletion | 3 users, cap 2, 2 requests at once, one row per user; without kick, which from its SELECT on takes the steps of leave (`msg_serial` has it) |
| `msg_serial` | what holds when membership requests do not overlap: complete member set, role rules, every fan-out reaches every settled member | 4 users, 1 membership request next to 1 post, cap 3 |
| `msg_heals` | nobody is counted who never was a member; liveness: a former member leaves the member set for good | 2 users, 1 post, 1 request, keys that expire |
| `res_safety` | the table says nothing Polymarket has not reported | 1 market, 2 outcomes, 2 permits, 2 overlapping cron runs, a sync, all events |
| `res_converges` | liveness: once syncs stop, every market with a winner is resolved for good, despite lost candidates, stale writes of path B and what syncs took back | 2 markets of which 1 is streamed and synced, LIMIT 1, 1 per Gamma call, 1 permit, 1 cron run, trades, syncs, restarts |
| `alerts` | no committed alert without its key, alerts per key, what stays true is alerted despite runs that die | 1 group, 1 market, 2 shares, 2 runs, 1 failure |
| `ticker` | Redis follows the book, a silent feed drains | 2 tokens, 4 messages, queue and batch of 2, all faults |
| `stream_connection` | the loop ends up subscribed to the listed tokens | 3 tokens, backoff up to 5 |
| `kalshi_sync` | references, agreement of rows, no update lost between two windows, rows go back only when shared; liveness: the tables come to mirror Kalshi | 2 events on 2 pages, the market on the second, 2 states besides unlisted, 2 outcomes, 1 run of each kind, all faults, as often as they like |
| `catalogue` | references, categories, tag links, paging by offset, diverse selection, the semaphore; liveness: the tag sync ends | 2 series and events, 1 market, 3 tags, page of 1, 1 permit, 2 attempts, 1 full or 2 DEV_MODE syncs, 1 fault of any kind |
| `trading` | one row per user, email and name; answers are true; keys, amounts, orders; refinement of `RelayPromise`; liveness: caches heal | 2 workers, 2 Privy users, 3 wallets, nine mixes of endpoints, 2 keys, 2 polls, tick sizes of 1 and 2 decimals and an unknown one |

The bounds: every race found in these components needs two requests and one or
two users beside the owner; a third slot only repeats what one of the two does.
The properties of `MarketResolution` speak of one market at a time and only
`LIMIT` relates markets, so more than one market appears where `LIMIT` matters.
A key belongs to one group and one market, so `alerts` has one of each; its two
shares have prices of which one quote has moved from both and the other from one.
Resolution runs may overlap (every 2 minutes, up to 5 minutes long), price runs
(every 5) do not. In `ticker` one token gets snapshots, the other one-sided
changes and tick sizes, so that a side of a book may be missing; a queue of two
is full, empty, and holds two updates of one token or one of each.
`MaxFailures`, `QueueMax`, `BatchSize` and `MaxBackoff` are parameters.
`MaxRows` (rows a user is given) and `MaxUnread` bound counters; both sit in the
guards of `Call` and `PostCall`, so no request is cut off half way.

In `kalshi_sync` one market suffices, since every property speaks of one market;
it is on the second page of events, and all that the first page, whose event has no
markets, does to it is that a run has to get past it. Faults are unbounded there, so
that runs overlap and die again and again; `Last` bounds the states of a market,
the last one being settled with null prices. In `catalogue` `MaxMishaps` is one
fault per behaviour, of any kind and at any place: each property names the single
faults that excuse it, so a second one could only excuse more. The list of series
may start with either, both or none of them. One series has
categories of its own and the other one has them from an event; the tag of that
event is found below two listed tags. In `trading` the constant `Offers` names
which endpoints a behaviour calls, for which wallets and with which rows at the
start: endpoints that write the same rows are in one of them together. `MaxKeys`,
`MaxParam` and `MaxPolls` (24 in the code) bound counters; a loop of two polls has
a first, a last and a late answer. `Prices` and `Sizes` are 0.50 and 0.57 dollars,
0.29 and 1.005 shares, so that a price fits one tick size and not the other and a
size has a digit to round away. `Absorbed` is set to 5000 units, between
the products of these (the largest is 5700), so that both sides of it happen.

One run ends in a violation, a disagreement of the code with its own document
(quoted under "findings" of `PROJECT.json`): in `msg_fanout_expiry` a join after the
member set expired makes a set of one, and messages are counted for nobody else.

Other disagreements that the models show, with no run of their own:

* two removals of one membership decrement `member_count` twice
  (`app/services/groups.py` 330, against `GROUPS.md` 42): the count is not exact,
  and `CountNeverAbove` is what remains;
* the reconciliation cron reads the 200 least recently updated markets
  (`ingest.py` 1206) and a market without volume or change keeps its place, so that
  as many of these as the LIMIT are all it ever checks, although its docstring
  (1174) says "all active markets": `Converges` needs more traded markets;
* path B writes `closed` over a resolution that came while it asked Gamma
  (`stream.py` 609), although the comment at 566 says "Skip markets already
  terminal": `Converges` says that the cron repairs it, and what a sync takes back
  (`ingest.py` 657) too, once syncs stop.

`AdminOnlyByOwner` holds in `msg_serial` and fails as soon as `Workers` has two
elements: an admin removes somebody whom the owner has just made an admin. The cap
itself fails with two as well: in `group_concurrent` two joins find room for one
and a private group of 2 gets 3 members. `OvershootBounded` says how far this
goes: requests that have found room count as if they had inserted already. Both
are proved for any number of users and messages and any cap (section 5).

A type invariant is checked in the two largest compositions (`catalogue`,
`trading`), and proved for every component.

### Fairness

`GroupMessaging`: weak fairness of each request's steps (the event loop, the
database and Redis make progress) and of the expiry of the member set (Redis
expires a key that nobody writes; joins are bounded). It is checked without
requests that die: one that dies between SADD and EXPIRE would leave a key
without TTL. Clients are not obliged to do anything.

`MarketResolution`: weak fairness of each cron run (arq starts it every two
minutes), strong fairness of Gamma answering about each market it is asked about
again and again. Nothing is assumed of messages, the flusher, the tasks and syncs:
they may stop at any step. `Converges` has the premise `Calm`: at some time syncs
stop, each of which takes a resolution back until the next run of the cron, and
runs are no longer killed. Its run leaves failures out (event `fail`), since a
restart already loses whatever a failure does; `res_safety` has them.

`GroupAlerts`: strong fairness of starting each kind of run (the cron enqueues
them for ever and arq takes what is enqueued in order of time, so that one kind
does not keep the other from a slot), weak fairness of a run's steps and of the
expiry of a key. At most `MaxFailures` runs die: if every run died nothing
would ever be alerted.

`TickerPipeline`: weak fairness of the flusher, a task of the event loop that
catches every exception.

`StreamConnection`: the loop goes on, and what may fail does not fail every time
(strong fairness of connecting, subscribing, a connection that lives for 30
minutes, a database that answers). Messages need only come to a connection that is
subscribed to a token that still trades. That is why `SubscriptionConverges`
has the premise that the process always knows one: without it TLC finds the
process that starts with an empty list, or whose tokens have all been resolved,
and that from then on replaces silent connections with the same list, although
the comment at `stream.py` line 872 says "reconnect with fresh token list".

`KalshiSync`: strong fairness of the statements of the full sync (the series, the
events of a page, its markets, their outcomes): the database does not fail for good,
and not every run that has fetched a page is cut off before it has written it.
Nothing is assumed of starting a run or of its fetches, since `job_timeout` may cut
each run off at the same page; that the page of a market is reached again and again
is the premise of `Mirrors`. Kalshi changes a market only `Last` times.

`PolymarketCatalogue`: weak fairness of the steps of a tag sync in flight; Polymarket
may answer 429 for ever. `Trading`: weak fairness of each worker's call and of the
expiry of the three cached parameters, whose TTLs nothing renews.

## 5. What is proved

All proofs hold for every value of the constants under the named assumptions of the
modules, which TLC evaluates for the instances: `ConstantsAssumption` (finite sets
of users, requests, runs and markets, where the module needs them finite; positive
caps, LIMIT and sizes of queue and batch), `MessagingAssumption`,
`TagConstantsAssumption`, `CatalogueAssumption` (each market has an event, each event a
series, volumes are numbers, pages are not empty), `AccountConstantsAssumption`,
`OffersAssumption` (the users at the start obey the unique columns of their table),
`OrderConstantsAssumption` and `RelayerConstantsAssumption`. The method is the same
throughout: an invariant that is inductive, one lemma per action or per kind of
action, and a theorem per property that follows from it.

`GroupMembershipProofs`

* `TypeCorrect`: the types, by a lemma per kind of step (`KeepType`, `GotoType`,
  `ReplyType`) and one step per action.
* `OwnerKept` and `ImplementsTable`: the invariant `OwnerInv` adds to
  `OneOwner` that no request that is about to commit a role change or a removal
  has the owner as its target (`CommitTarget`): checks and commit are different
  steps, so that `OneOwner` alone is not inductive. The same lemma
  (`NextTable`) gives that each step is a step of `MembershipTable`.
* `CountKept`: `member_count` never exceeds the rows. A join adds a row and one;
  a removal takes away at most one row and always one, unless the count is zero.
* `OvershootKept`: the count and the requests that have passed the capacity check
  and not yet committed are at most `max_members` plus the number of other
  requests that can be in flight. The bound is inductive as it stands, since it
  counts those requests (`Admitted`).

and of its composition with messages (`GroupMessaging`):

* `MessagesKeepTable`: sends, fan-outs and reads take no step of the table
  (`MsgStep`), so that the refinement and the bound on the overshoot carry over.
* `OnlyPastMembers`: whatever overlaps, dies or expires. `CountedInv` follows those
  who are on their way into the member set: the requests about to SADD, and the
  lists that a fan-out has read and not stored yet. A row once given has a number,
  and numbers are never taken back (`PastStays`).
* `AdminKept`, under `OneAtATime` (one membership request in flight): `SerialInv`
  says that what a request has read of two roles is still what the table holds
  when it commits.
* `MemberSetKept` and `FanoutKept`, under `OneAtATime` and `NoLoss` (no request dies,
  no key expires): `DeliveryInv` adds that the users to whom a posted message is due
  are in the member set until the fan-out reads it, and then in what it read
  (`FanSlot`). The number of posts is arbitrary, and they overlap with everything.

The two hypotheses are about the constants `Workers` and `Faults`, `MsgSerial.cfg`
meets both, and without them the properties are false: two overlapping requests
break the role rules, a request that dies between its commit and SADD leaves a hole
in the set, and what an expiry does is the run `msg_fanout_expiry`.

`MarketResolutionProofs`

* `TypeCorrect`.
* `ResultsTrue`, `ResolvedComplete`, `NotClosedEarly`: `TruthInv` says of every
  write that is on its way (in a task, in the updates of a cron run, in the
  sync) that Polymarket has reported what it says (`Backed`). Since nothing is
  ever taken back at Polymarket, what was backed when it was read is backed when
  it is written (`BackedStays`): stale writes can lose a resolution, but never
  invent one.

`GroupAlertsProofs`

* `TypeCorrect`, for which a run in a loop over groups must have a market
  (`RunsOK`). Most steps of a run only move it (`Quiet`), so that the later
  lemmas deal with one such step and four others.
* `AlertsKeyed` and `AlertsLimited`: `KeyInv` says that messages in a transaction
  have their keys (`PendKeyed`), that runs of a kind that does not overlap are
  alone, and that the alerts a key stands for and the runs that hold its pair
  (from the GET that found no key on) are together within the limit
  (`Bounded`). A run begins to hold a pair only where there is no key, and then
  there are no alerts to count.

`TickerPipelineProofs`

* `TypeCorrect`: among others, the bounds of queue and batch.
* `RedisCurrent`: `CarryInv` says where the quote of the book is: in the last
  update of the token in the queue, or else in the batch, or else in Redis. The
  lemmas `LastOfAppend`, `LastOfSplit` and `WrittenFacts` say what becomes of the
  last update when a sequence is appended to, divided and written; that a last
  one exists is well-foundedness of the natural numbers (`NewestExists`).

`StreamConnectionProofs`

* `TypeCorrect` and `SubscriptionKnown`; both are inductive as they stand.

`KalshiSyncProofs` (for any number of runs of each kind, also for delta runs that
overlap, which the run does not have)

* `TypeCorrect`, for which the rows still to go need a type per kind of fallback
  (`LeftTyped`) and what is to be fetched one per kind of run (`TodoTyped`).
* `ReferencesKept`: `LinkInv` says of everything a run holds that it is no newer
  than Kalshi and that its event has a row, except between the fetch of a page and
  the upsert of its events (`HeldLinked`); a delta run gets that from the map it
  loaded (`MapLinked`), since event rows are never deleted.
* `RowsGoForward`: two runs that hold a market know each other (`Shared`), so that
  a run whose answer is older than the row knows a rival (`Overtaken`).
* `NothingBetweenWindows`: `WindowInv` alone is not inductive, for a delta run
  replaces the window when it ends. `RunInv` says, for each delta run in flight, that
  what is behind is suspect, changed since the run took its clock, is still to be
  fetched by it, or is in its hands with the current answer: at its end only the
  first two are left. With the clock taken later, changes during the run would be
  in none of them.
* `OutcomesFollowMarkets`: `HeldIsRow` and `SidesDone` say how far a run has got
  between its two statements, row by row.

`PolymarketCatalogueProofs` (any catalogue, any number of syncs and faults; the run
has two series and one fault)

* `SelectionDiverse`: for all pages, buckets, volumes, rounds and numbers of places.
  There is no induction in it: `Ranking` says that counting what comes before an
  element numbers a finite total order without gaps (an injection between finite
  sets of one size is onto). Used for each bucket it gives the rounds (`Rounds`), used
  for what is left after the last round it gives the turns (`Turns`). What is taken
  of a bucket are its first rounds, without gaps (`TakenOfBucket`), and all five
  promises follow by comparing rounds. `DevSyncsDiverse` carries it over to the sync.
* `LinksKept`: `TagInv` adds to the property that children are asked for of listed
  tags only. It also has the permits: fetches in flight are finitely many and one
  begins only below the limit (`HoldingStep`).
* `TypesKept`, `ReferencesKept`: `ShapeInv` says what a run has in hand at each of its
  awaits, `GroundInv` that below each row it may still write lies the row that this
  one refers to. Neither suffices without the other. `OutcomeInv` says what becomes of
  a market's second statement: it was attempted, or is the next one of a run
  (`pending`), and a run has collected the tokens of no other market.
* `BareExplained`: `BareInv` says of a series without category that a run at work on
  it will still give it one (`WillCategorise`), or that it is in `cut`.
* `SkippedExplained`: `Covered` says of the series that stayed active that those
  before the offset were seen or slid there, and that there are no others after a
  short page. When a series leaves the list every place behind it moves by one
  (`RemoveAt`), which is where series slide.

`TradingProofs`; the invariant is a conjunction of parts that rest on each other:

* `TablesInv`, `CallInv`, `FetchInv`, `JobInv` give `TypeCorrect`. Each has more than
  types: a key is stored for a user who has an account, polls are counted, a mined
  job has its effect on chain.
* `RegisteredOnceAlways`: the unique columns are what the commit enforces
  (`TablesInv`); that one login at most is told it is new is `NewOnce`: whoever is told
  so has inserted the row, and rows stay (`NewInserted`).
* `AnswersTrueAlways`: `SeenInv` says that a call's history holds what is so now and
  what it has read, so that an answer based on a read was so when it was read.
* `KeyFollowsAlways`: `KeyInv` says that a call which stores keys holds the CLOB's
  key, that no other such call of the wallet is in flight, or that the wallet has
  gone astray (a call failed halfway or two overlapped).
* `AmountsExactAlways`: `Exact` is proved of `AmountsOf` for each number of decimals
  and all prices, sizes and rounding noise, from what the two steps of rounding can
  make of a product (`RoundProductNear`: itself, or one unit less from `Absorbed` on);
  the products are linear once the power of ten is a number.
* `OrdersReportedAlways`: every step of a call that is not about orders leaves them
  and who was told (`OrdersKept`).
* `RelayPromiseKept`: every step of `Trading` maps to a step of `RelayPromise` or a
  stutter, given `JobInv`: a job that has been mined has its effect on chain.

## 6. Only model-checked, and not modelled

Only model-checked: liveness (`StaleSetHeals`, `Converges`, `MovedAlerted`,
`ResolvedAlerted`, `QueueDrains`, `SubscriptionConverges`, `Mirrors`, `TagSyncEnds`,
`CachesHeal`), since fairness needs ENABLED, which is out of the prover's reach.
Everything else the passing runs check is proved. The two theorems `MemberSetKept` and
`FanoutKept` hold under the hypotheses named with them, as does `AdminKept`.

Not modelled, as components: the group directory (slugs, invite codes, discovery:
single statements behind unique constraints), charts and candlesticks (reads that
merge two sources), the aggregation of Kalshi's OHLCV and volumes and the Kalshi
stream (its task is commented out, so that neither has data), the read API and
positions (no state of their own), migrations (run by hand), the process and its
pools beyond the fairness and the restarts they give. Address derivation and
signatures are hashes.

Of the modelled components: `update_group`, message validation, listing and
deletion; `last_read_at`, which nothing reads; volumes in Redis; the live buffer,
whose list is not trimmed while ticks keep coming; the texts of alerts;
multivariate series; the columns of catalogue rows beyond the state they were
built from; `sports_metadata`; the signing messages; user listings and profile
fields. SADD and EXPIRE are one action.
