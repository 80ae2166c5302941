------------------------------ MODULE KalshiSync ------------------------------
(***************************************************************************)
(* How the catalogue of Kalshi gets into the tables series, events,        *)
(* markets and market_outcomes (workers/kalshi/ingest.py):                 *)
(*   - the full sync, every 15 minutes: series, then every page of events  *)
(*     with their markets (run_kalshi_full_sync);                          *)
(*   - the delta sync, every minute: the markets updated since the run     *)
(*     before it (kalshi_state_reconciliation);                            *)
(*   - the DEV_MODE sync, started by POST /dev/sync/kalshi in place of the *)
(*     two others (run_kalshi_dev_sync).                                   *)
(* Each run fetches a page, then writes its rows in statements of their    *)
(* own: events, markets, outcomes.  No run takes a lock, compares the age  *)
(* of what it writes with the row, or waits for another run.               *)
(*                                                                         *)
(* What a row contains is a function of the venue's answer it was built    *)
(* from, so a row is modelled by the state of the market that answer       *)
(* reported: 0 (not listed, or no row), 1, ... up to Last (settled).       *)
(* Multivariate series, which every run leaves out, are not modelled.      *)
(***************************************************************************)
EXTENDS Naturals, FiniteSets

CONSTANTS
    Series, Events, Markets,
    Sides,            \* the outcomes of a market: yes and no, or one other
    SeriesOf,         \* the series of an event
    EventOf,          \* the event of a market
    Position,         \* external: the order in which Kalshi lists the events
    Last,             \* the last state of a market at Kalshi
    Full, Delta, Dev, \* the runs of each kind that may be in flight together
    PageSize,         \* events or markets per page
    NullPriced,       \* external: states of a market whose prices are null
    Faults            \* which faults may happen

ASSUME ConstantsAssumption ==
    /\ SeriesOf \in [Events -> Series]
    /\ EventOf \in [Markets -> Events]
    /\ Position \in [Events -> Nat]
    /\ \A e, f \in Events : Position[e] = Position[f] => e = f
    /\ Last \in Nat \ {0}
    /\ PageSize \in Nat \ {0}
    /\ NullPriced \subseteq 1..Last
    /\ Full \cap Delta = {} /\ Full \cap Dev = {} /\ Delta \cap Dev = {}
    /\ Faults \subseteq {"fetch", "row", "die", "restart"}

VARIABLES
    mode,         \* DEV_MODE or not
    venue,        \* external: the state of each market at Kalshi
    rejects,      \* external: whether the SDK's model rejects null prices
    seriesRows,   \* the series that have a row
    eventLink,    \* event rows: absent, or with (linked) or without a series
    rowOf,        \* the state each market row was written from, 0: no row
    outcomeOf,    \* the same for each outcome row
    window,       \* the markets updated since _last_reconciliation_ts
    targets,      \* DEV_TARGET_MARKETS
    step,         \* per run: what it does next
    todo,         \* per run: what it has not fetched yet
    known,        \* per run: series_map or event_map, as loaded
    page,         \* per run: the events of the page at hand
    held,         \* per run: the markets of the page at hand, as answered
    left,         \* per run: rows still to go in a row-by-row fallback
    fresh,        \* per delta run: markets updated since its now_ts
    gathered,     \* per dev run: new_target_markets
    \* history, read by no action of the code:
    rivals,       \* per run: held markets that another run held meanwhile
    suspect       \* markets whose rows may lag or disagree, see below

tables == <<seriesRows, eventLink, rowOf, outcomeOf>>
local == <<step, todo, known, page, held, left, fresh, gathered>>
vars == <<mode, venue, rejects, tables, window, targets, local, rivals, suspect>>

-----------------------------------------------------------------------------
Jobs == Full \cup Delta \cup Dev
States == 0..Last
Active(v) == v \in 1..(Last - 1)
MarketsOf(E) == {m \in Markets : EventOf[m] \in E}
\* An event is listed with its first market, one that has none is listed as it is.
Listed == {e \in Events : \/ \E m \in MarketsOf({e}) : venue[m] # 0
                          \/ MarketsOf({e}) = {}}
OpenEvents == {EventOf[m] : m \in {n \in Markets : Active(venue[n])}}
Held(j) == {m \in Markets : held[j][m] # 0}
Nothing == [m \in Markets |-> 0]

TypeOK ==
    /\ mode \in {"prod", "dev"}
    /\ venue \in [Markets -> States]
    /\ rejects \in BOOLEAN
    /\ seriesRows \in SUBSET Series
    /\ eventLink \in [Events -> {"absent", "orphan", "linked"}]
    /\ rowOf \in [Markets -> States]
    /\ outcomeOf \in [Markets -> [Sides -> States]]
    /\ window \in SUBSET Markets
    /\ targets \in SUBSET Markets
    /\ step \in [Jobs -> {"idle", "series", "fetch", "events", "nested",
                          "markets", "marketrows", "outcomes", "outcomerows"}]
    /\ todo \in [Jobs -> SUBSET (Events \cup Markets)]
    /\ known \in [Jobs -> SUBSET (Series \cup Events)]
    /\ page \in [Jobs -> SUBSET Events]
    /\ held \in [Jobs -> [Markets -> States]]
    /\ left \in [Jobs -> SUBSET (Markets \cup (Markets \X Sides))]
    /\ fresh \in [Jobs -> SUBSET Markets]
    /\ gathered \in [Jobs -> SUBSET Markets]
    /\ rivals \in [Jobs -> SUBSET Markets]
    /\ suspect \in SUBSET Markets

\* Migrations have run, nothing has been synced; the first delta run looks
\* two minutes back, so what is listed longer is left to the full sync.
Init ==
    /\ mode \in {"prod", "dev"}
    /\ venue \in [Markets -> {0, 1}]
    /\ rejects \in BOOLEAN /\ (rejects => mode = "prod")
    /\ seriesRows = {}
    /\ eventLink = [e \in Events |-> "absent"]
    /\ rowOf = Nothing
    /\ outcomeOf = [m \in Markets |-> [s \in Sides |-> 0]]
    /\ window = {}
    /\ targets = {}
    /\ step = [j \in Jobs |-> "idle"]
    /\ todo = [j \in Jobs |-> {}]
    /\ known = [j \in Jobs |-> {}]
    /\ page = [j \in Jobs |-> {}]
    /\ held = [j \in Jobs |-> Nothing]
    /\ left = [j \in Jobs |-> {}]
    /\ fresh = [j \in Jobs |-> {}]
    /\ gathered = [j \in Jobs |-> {}]
    /\ rivals = [j \in Jobs |-> {}]
    /\ suspect = {m \in Markets : venue[m] # 0}

-----------------------------------------------------------------------------
(* Kalshi: a market is listed, changes, is settled, perhaps amended.         *)
VenueMoves(m) ==
    /\ venue[m] < Last
    /\ venue' = [venue EXCEPT ![m] = @ + 1]
    /\ window' = window \cup {m}
    /\ fresh' = [d \in Jobs |-> IF d \in Delta /\ step[d] # "idle"
                                THEN fresh[d] \cup {m} ELSE fresh[d]]
    /\ UNCHANGED <<mode, rejects, tables, targets, step, todo, known, page, held, left,
                   gathered, rivals, suspect>>

-----------------------------------------------------------------------------
(* The start of a run, and its series.                                       *)
StartFull(j) ==
    /\ j \in Full /\ mode = "prod" /\ step[j] = "idle"
    /\ step' = [step EXCEPT ![j] = "series"]
    /\ UNCHANGED <<mode, venue, rejects, tables, window, targets, todo, known, page, held,
                   left, fresh, gathered, rivals, suspect>>

StartDev(j) ==
    /\ j \in Dev /\ mode = "dev" /\ step[j] = "idle"
    /\ step' = [step EXCEPT ![j] = "series"]
    /\ gathered' = [gathered EXCEPT ![j] = {}]
    /\ UNCHANGED <<mode, venue, rejects, tables, window, targets, todo, known, page, held,
                   left, fresh, rivals, suspect>>

\* now_ts is taken before the first page is asked for; the event map is loaded once.
StartDelta(j) ==
    /\ j \in Delta /\ mode = "prod" /\ step[j] = "idle"
    /\ step' = [step EXCEPT ![j] = "fetch"]
    /\ todo' = [todo EXCEPT ![j] = window]
    /\ known' = [known EXCEPT ![j] = {e \in Events : eventLink[e] # "absent"}]
    /\ fresh' = [fresh EXCEPT ![j] = {}]
    /\ UNCHANGED <<mode, venue, rejects, tables, window, targets, page, held, left, gathered,
                   rivals, suspect>>

\* The list of series cannot be fetched: the sync is given up.
SeriesFail(j) ==
    /\ "fetch" \in Faults
    /\ step[j] = "series"
    /\ step' = [step EXCEPT ![j] = "idle"]
    /\ UNCHANGED <<mode, venue, rejects, tables, window, targets, todo, known, page, held,
                   left, fresh, gathered, rivals, suspect>>

WriteSeries(S) == seriesRows' = seriesRows \cup S

\* S: the series whose batch succeeds; when none does the full sync stops.
SyncSeries(j, S) ==
    /\ j \in Full /\ step[j] = "series"
    /\ S = Series \/ "row" \in Faults
    /\ WriteSeries(S)
    /\ IF S = {}
       THEN /\ step' = [step EXCEPT ![j] = "idle"]
            /\ UNCHANGED <<todo, known>>
       ELSE /\ step' = [step EXCEPT ![j] = "fetch"]
            /\ known' = [known EXCEPT ![j] = seriesRows']
            /\ todo' = [todo EXCEPT ![j] = Listed]
    /\ UNCHANGED <<mode, venue, rejects, eventLink, rowOf, outcomeOf, window, targets, page,
                   held, left, fresh, gathered, rivals, suspect>>

\* The DEV_MODE sync has a statement per series and goes on without those that fail.
SyncDevSeries(j, S) ==
    /\ j \in Dev /\ step[j] = "series"
    /\ S = Series \/ "row" \in Faults
    /\ WriteSeries(S)
    /\ step' = [step EXCEPT ![j] = "fetch"]
    /\ known' = [known EXCEPT ![j] = seriesRows']
    /\ todo' = [todo EXCEPT ![j] = OpenEvents]
    /\ UNCHANGED <<mode, venue, rejects, eventLink, rowOf, outcomeOf, window, targets, page,
                   held, left, fresh, gathered, rivals, suspect>>

-----------------------------------------------------------------------------
(* Pages.  M: the markets whose state the run now takes in hand.             *)
IsPage(j, P) ==
    /\ step[j] = "fetch"
    /\ P \subseteq todo[j] /\ P # {}
    /\ Cardinality(P) <= PageSize

\* The pages of events come by cursor, each run from the first one on.
IsNextPage(j, P) ==
    /\ IsPage(j, P)
    /\ Cardinality(P) = PageSize \/ P = todo[j]
    /\ \A e \in P, f \in todo[j] \ P : Position[e] < Position[f]

\* The comment of get_markets_raw says of the SDK's Market model that it refuses
\* null prices; the SDK is not part of the repository, so both are possible.
Rejected(M) == rejects /\ \E m \in M : venue[m] \in NullPriced

\* From a cache that may be one change old.
TakeInHand_Cached(j, M) ==
    /\ \E age \in {0, 1} :
        held' = [held EXCEPT ![j] = [m \in Markets |->
                    IF m \in M THEN (IF venue[m] > age THEN venue[m] - age ELSE venue[m])
                    ELSE held[j][m]]]
    /\ rivals' = [k \in Jobs |->
            IF k = j THEN rivals[j] \cup {m \in M : \E i \in Jobs \ {j} : held[i][m] # 0}
            ELSE rivals[k] \cup (M \cap Held(k))]

TakeInHand(j, M) ==
    /\ held' = [held EXCEPT ![j] = [m \in Markets |-> IF m \in M THEN venue[m]
                                                      ELSE held[j][m]]]
    /\ rivals' = [k \in Jobs |->
            IF k = j THEN rivals[j] \cup {m \in M : \E i \in Jobs \ {j} : held[i][m] # 0}
            ELSE rivals[k] \cup (M \cap Held(k))]

\* The full sync asks for open markets only.
FetchEvents_OpenOnly(j, P) ==
    /\ j \in Full
    /\ IsNextPage(j, P)
    /\ ~Rejected(MarketsOf(P))
    /\ todo' = [todo EXCEPT ![j] = @ \ P]
    /\ page' = [page EXCEPT ![j] = P]
    /\ TakeInHand(j, {m \in MarketsOf(P) : Active(venue[m])})
    /\ step' = [step EXCEPT ![j] = "events"]
    /\ UNCHANGED <<mode, venue, rejects, tables, window, targets, known, left, fresh, gathered,
                   suspect>>

\* A page of events with their markets.
FetchEvents(j, P) ==
    /\ j \in Full
    /\ IsNextPage(j, P)
    /\ ~Rejected(MarketsOf(P))
    /\ todo' = [todo EXCEPT ![j] = @ \ P]
    /\ page' = [page EXCEPT ![j] = P]
    /\ TakeInHand(j, MarketsOf(P))
    /\ step' = [step EXCEPT ![j] = "events"]
    /\ UNCHANGED <<mode, venue, rejects, tables, window, targets, known, left, fresh, gathered,
                   suspect>>

\* A page of updated markets; those of events the map does not know are skipped.
FetchMarkets(j, P) ==
    /\ j \in Delta
    /\ IsPage(j, P)
    /\ ~Rejected(P)
    /\ todo' = [todo EXCEPT ![j] = @ \ P]
    /\ LET M == {m \in P : EventOf[m] \in known[j]} IN
        /\ TakeInHand(j, M)
        /\ suspect' = suspect \cup (P \ M)
    /\ step' = [step EXCEPT ![j] = "markets"]
    /\ UNCHANGED <<mode, venue, rejects, tables, window, targets, known, page, left, fresh,
                   gathered>>

\* A page of the open events of one series, without their markets.
FetchOpenEvents(j, P) ==
    /\ j \in Dev
    /\ IsPage(j, P)
    /\ \A e, f \in P : SeriesOf[e] = SeriesOf[f]
    /\ todo' = [todo EXCEPT ![j] = @ \ P]
    /\ page' = [page EXCEPT ![j] = P]
    /\ step' = [step EXCEPT ![j] = "events"]
    /\ UNCHANGED <<mode, venue, rejects, tables, window, targets, known, held, left, fresh,
                   gathered, rivals, suspect>>

\* A page cannot be fetched, or the SDK rejects it: the run ends as if it had been
\* the last one; a delta run moves its window on all the same.
FetchFails(j) ==
    /\ j \in Full \cup Delta
    /\ step[j] = "fetch" /\ todo[j] # {}
    /\ \/ "fetch" \in Faults
       \/ \E P \in SUBSET todo[j] :
            \/ j \in Full /\ IsNextPage(j, P) /\ Rejected(MarketsOf(P))
            \/ j \in Delta /\ IsPage(j, P) /\ Rejected(P)
    /\ step' = [step EXCEPT ![j] = "idle"]
    /\ todo' = [todo EXCEPT ![j] = {}]
    /\ IF j \in Delta
       THEN window' = fresh[j] /\ suspect' = suspect \cup todo[j]
       ELSE UNCHANGED <<window, suspect>>
    /\ UNCHANGED <<mode, venue, rejects, tables, targets, known, page, held, left, fresh,
                   gathered, rivals>>

\* The DEV_MODE sync goes on with the next series.
FetchOpenFails(j, s) ==
    /\ "fetch" \in Faults
    /\ j \in Dev
    /\ step[j] = "fetch" /\ todo[j] # {}
    /\ todo' = [todo EXCEPT ![j] = {e \in @ : SeriesOf[e] # s}]
    /\ UNCHANGED <<mode, venue, rejects, tables, window, targets, step, known, page, held,
                   left, fresh, gathered, rivals, suspect>>

-----------------------------------------------------------------------------
(* Events.  S: those whose statement succeeds; the markets of the others are *)
(* skipped.                                                                  *)
EventRow(j, e) == IF SeriesOf[e] \in known[j] THEN "linked" ELSE "orphan"

UpsertEvents_KeepMarkets(j, S) ==
    /\ step[j] = "events"
    /\ S \subseteq page[j] /\ (S = page[j] \/ "row" \in Faults)
    /\ eventLink' = [e \in Events |-> IF e \in S THEN EventRow(j, e) ELSE eventLink[e]]
    /\ page' = [page EXCEPT ![j] = S]
    /\ step' = [step EXCEPT ![j] = IF j \in Dev THEN "nested" ELSE "markets"]
    /\ UNCHANGED <<mode, venue, rejects, seriesRows, rowOf, outcomeOf, window, targets, todo,
                   known, held, left, fresh, gathered, rivals, suspect>>

UpsertEvents(j, S) ==
    /\ step[j] = "events"
    /\ S \subseteq page[j] /\ (S = page[j] \/ "row" \in Faults)
    /\ eventLink' = [e \in Events |-> IF e \in S THEN EventRow(j, e) ELSE eventLink[e]]
    /\ page' = [page EXCEPT ![j] = S]
    /\ held' = [held EXCEPT ![j] = [m \in Markets |-> IF EventOf[m] \in S
                                                      THEN held[j][m] ELSE 0]]
    /\ rivals' = [rivals EXCEPT ![j] = {m \in @ : EventOf[m] \in S}]
    /\ step' = [step EXCEPT ![j] = IF j \in Dev THEN "nested" ELSE "markets"]
    /\ UNCHANGED <<mode, venue, rejects, seriesRows, rowOf, outcomeOf, window, targets, todo,
                   known, left, fresh, gathered, suspect>>

\* The DEV_MODE sync asks for the markets of each event, or skips them on an error.
\* It takes one page of them: the cursor is ignored.
FetchNested(j, e) ==
    /\ step[j] = "nested" /\ e \in page[j]
    /\ page' = [page EXCEPT ![j] = @ \ {e}]
    /\ LET listed == {m \in MarketsOf({e}) : venue[m] # 0} IN
        \E M \in SUBSET listed :
            /\ M = listed \/ Cardinality(M) = PageSize
            /\ Cardinality(M) <= PageSize
            /\ TakeInHand(j, M)
            /\ gathered' = [gathered EXCEPT ![j] = @ \cup {m \in M : Active(venue[m])}]
    /\ UNCHANGED <<mode, venue, rejects, tables, window, targets, step, todo, known, left,
                   fresh, suspect>>

FetchNestedFails(j, e) ==
    /\ "fetch" \in Faults
    /\ step[j] = "nested" /\ e \in page[j]
    /\ page' = [page EXCEPT ![j] = @ \ {e}]
    /\ UNCHANGED <<mode, venue, rejects, tables, window, targets, step, todo, known, held,
                   left, fresh, gathered, rivals, suspect>>

-----------------------------------------------------------------------------
(* Markets: one statement for the page; when it fails, one per row, and a    *)
(* row whose statement fails is skipped.  The history: a market ceases to be *)
(* suspect when the answer written is current and no other run held it.      *)
AllFetched(j) == step[j] = "markets" \/ (step[j] = "nested" /\ page[j] = {})

WriteMarkets(j, M) ==
    /\ rowOf' = [m \in Markets |-> IF m \in M THEN held[j][m] ELSE rowOf[m]]
    /\ suspect' = (suspect \ {m \in M : held[j][m] = venue[m]}) \cup (M \cap rivals[j])

MarketsBatch(j) ==
    /\ AllFetched(j) /\ Held(j) # {}
    /\ WriteMarkets(j, Held(j))
    /\ step' = [step EXCEPT ![j] = "outcomes"]
    /\ UNCHANGED <<mode, venue, rejects, seriesRows, eventLink, outcomeOf, window, targets,
                   todo, known, page, held, left, fresh, gathered, rivals>>

MarketsBatchFails(j) ==
    /\ "row" \in Faults
    /\ AllFetched(j) /\ Held(j) # {}
    /\ left' = [left EXCEPT ![j] = Held(j)]
    /\ step' = [step EXCEPT ![j] = "marketrows"]
    /\ UNCHANGED <<mode, venue, rejects, tables, window, targets, todo, known, page, held,
                   fresh, gathered, rivals, suspect>>

MarketRow(j, m) ==
    /\ step[j] = "marketrows" /\ m \in left[j]
    /\ WriteMarkets(j, {m})
    /\ left' = [left EXCEPT ![j] = @ \ {m}]
    /\ UNCHANGED <<mode, venue, rejects, seriesRows, eventLink, outcomeOf, window, targets,
                   step, todo, known, page, held, fresh, gathered, rivals>>

SkipMarketRow(j, m) ==
    /\ step[j] = "marketrows" /\ m \in left[j]
    /\ left' = [left EXCEPT ![j] = @ \ {m}]
    /\ suspect' = suspect \cup {m}
    /\ UNCHANGED <<mode, venue, rejects, tables, window, targets, step, todo, known, page,
                   held, fresh, gathered, rivals>>

-----------------------------------------------------------------------------
(* Outcomes of the markets of the page that have a row, written the same way. *)
RowsWritten(j) ==
    \/ step[j] = "outcomes"
    \/ step[j] = "marketrows" /\ left[j] = {}

WriteOutcomes_DoNothing(j, R) ==
    outcomeOf' = [m \in Markets |-> [s \in Sides |->
                    IF <<m, s>> \in R /\ outcomeOf[m][s] = 0 THEN held[j][m]
                    ELSE outcomeOf[m][s]]]

WriteOutcomes(j, R) ==
    outcomeOf' = [m \in Markets |-> [s \in Sides |-> IF <<m, s>> \in R THEN held[j][m]
                                                     ELSE outcomeOf[m][s]]]

\* The page is done with.
Release(j) ==
    /\ held' = [held EXCEPT ![j] = Nothing]
    /\ rivals' = [rivals EXCEPT ![j] = {}]
    /\ page' = [page EXCEPT ![j] = {}]
    /\ step' = [step EXCEPT ![j] = "fetch"]

OutcomesBatch(j) ==
    /\ RowsWritten(j)
    /\ WriteOutcomes(j, {m \in Held(j) : rowOf[m] # 0} \X Sides)
    /\ suspect' = suspect \cup rivals[j]
    /\ Release(j)
    /\ UNCHANGED <<mode, venue, rejects, seriesRows, eventLink, rowOf, window, targets, todo,
                   known, left, fresh, gathered>>

OutcomesBatchFails(j) ==
    /\ "row" \in Faults
    /\ RowsWritten(j)
    /\ left' = [left EXCEPT ![j] = {m \in Held(j) : rowOf[m] # 0} \X Sides]
    /\ step' = [step EXCEPT ![j] = "outcomerows"]
    /\ UNCHANGED <<mode, venue, rejects, tables, window, targets, todo, known, page, held,
                   fresh, gathered, rivals, suspect>>

OutcomeRow(j, r) ==
    /\ step[j] = "outcomerows" /\ r \in left[j]
    /\ WriteOutcomes(j, {r})
    /\ left' = [left EXCEPT ![j] = @ \ {r}]
    /\ suspect' = suspect \cup ({r[1]} \cap rivals[j])
    /\ UNCHANGED <<mode, venue, rejects, seriesRows, eventLink, rowOf, window, targets, step,
                   todo, known, page, held, fresh, gathered, rivals>>

SkipOutcomeRow(j, r) ==
    /\ step[j] = "outcomerows" /\ r \in left[j]
    /\ left' = [left EXCEPT ![j] = @ \ {r}]
    /\ suspect' = suspect \cup {r[1]}
    /\ UNCHANGED <<mode, venue, rejects, tables, window, targets, step, todo, known, page,
                   held, fresh, gathered, rivals>>

NextPage(j) ==
    /\ \/ step[j] = "outcomerows" /\ left[j] = {}
       \/ AllFetched(j) /\ Held(j) = {}
    /\ Release(j)
    /\ UNCHANGED <<mode, venue, rejects, tables, window, targets, todo, known, left, fresh,
                   gathered, suspect>>

-----------------------------------------------------------------------------
(* The end of a run: no further page, or an exception or the job timeout.    *)
\* now_ts taken at the end of the run.
FinishRun_LateClock(j) ==
    /\ j \in Full \cup Delta
    /\ step[j] = "fetch" /\ todo[j] = {}
    /\ step' = [step EXCEPT ![j] = "idle"]
    /\ window' = IF j \in Delta THEN {} ELSE window
    /\ UNCHANGED <<mode, venue, rejects, tables, targets, todo, known, page, held, left, fresh,
                   gathered, rivals, suspect>>

\* A delta run leaves its now_ts for the next.
FinishRun(j) ==
    /\ j \in Full \cup Delta
    /\ step[j] = "fetch" /\ todo[j] = {}
    /\ step' = [step EXCEPT ![j] = "idle"]
    /\ window' = IF j \in Delta THEN fresh[j] ELSE window
    /\ UNCHANGED <<mode, venue, rejects, tables, targets, todo, known, page, held, left, fresh,
                   gathered, rivals, suspect>>

\* The DEV_MODE sync replaces the list of target markets.
PublishTargets(j) ==
    /\ j \in Dev
    /\ step[j] = "fetch" /\ todo[j] = {}
    /\ step' = [step EXCEPT ![j] = "idle"]
    /\ targets' = gathered[j]
    /\ UNCHANGED <<mode, venue, rejects, tables, window, todo, known, page, held, left, fresh,
                   gathered, rivals, suspect>>

RunDies(j) ==
    /\ "die" \in Faults
    /\ step[j] # "idle"
    /\ step' = [step EXCEPT ![j] = "idle"]
    /\ todo' = [todo EXCEPT ![j] = {}]
    /\ page' = [page EXCEPT ![j] = {}]
    /\ held' = [held EXCEPT ![j] = Nothing]
    /\ left' = [left EXCEPT ![j] = {}]
    /\ rivals' = [rivals EXCEPT ![j] = {}]
    /\ suspect' = suspect \cup Held(j)
    /\ UNCHANGED <<mode, venue, rejects, tables, window, targets, known, fresh, gathered>>

\* The process ends, with _last_reconciliation_ts and every run.  W: the markets
\* updated in the two minutes before the first delta run after it.
Restart(W) ==
    /\ "restart" \in Faults
    /\ W \subseteq {m \in Markets : venue[m] # 0}
    /\ step' = [j \in Jobs |-> "idle"]
    /\ todo' = [j \in Jobs |-> {}]
    /\ known' = [j \in Jobs |-> {}]
    /\ page' = [j \in Jobs |-> {}]
    /\ held' = [j \in Jobs |-> Nothing]
    /\ left' = [j \in Jobs |-> {}]
    /\ fresh' = [j \in Jobs |-> {}]
    /\ gathered' = [j \in Jobs |-> {}]
    /\ window' = W
    /\ targets' = {}
    /\ rivals' = [j \in Jobs |-> {}]
    /\ suspect' = suspect \cup (window \ W) \cup UNION {Held(j) : j \in Jobs}
    /\ UNCHANGED <<mode, venue, rejects, tables>>

-----------------------------------------------------------------------------
Fetches(j) ==
    \/ \E P \in SUBSET todo[j] :
        FetchEvents(j, P) \/ FetchMarkets(j, P) \/ FetchOpenEvents(j, P)
    \/ FetchFails(j)
    \/ \E s \in Series : FetchOpenFails(j, s)
    \/ \E e \in page[j] : FetchNested(j, e) \/ FetchNestedFails(j, e)

Writes(j) ==
    \/ \E S \in SUBSET page[j] : UpsertEvents(j, S)
    \/ MarketsBatch(j) \/ MarketsBatchFails(j)
    \/ \E m \in left[j] : MarketRow(j, m) \/ SkipMarketRow(j, m)
    \/ OutcomesBatch(j) \/ OutcomesBatchFails(j)
    \/ \E r \in left[j] : OutcomeRow(j, r) \/ SkipOutcomeRow(j, r)

\* A run that is in flight does something.
Proceeds(j) ==
    \/ SeriesFail(j)
    \/ \E S \in SUBSET Series : SyncSeries(j, S) \/ SyncDevSeries(j, S)
    \/ Fetches(j)
    \/ Writes(j)
    \/ NextPage(j)
    \/ FinishRun(j) \/ PublishTargets(j)

Next ==
    \/ \E m \in Markets : VenueMoves(m)
    \/ \E j \in Jobs :
        \/ StartFull(j) \/ StartDelta(j) \/ StartDev(j)
        \/ Proceeds(j)
        \/ RunDies(j)
    \/ \E W \in SUBSET Markets : Restart(W)

Spec == Init /\ [][Next]_vars

\* The database does not fail for good, nor is a run cut off every time between the
\* fetch of a page and its statements: one that is due over and over succeeds at some
\* time.  No run has to start or to fetch anything: job_timeout may cut each of them
\* off at the same page.
StatementsSucceed(j) ==
    /\ SF_vars(SyncSeries(j, Series))
    /\ \A m \in Markets :
        /\ SF_vars(EventOf[m] \in page[j] /\ UpsertEvents(j, page[j]))
        /\ SF_vars(m \in Held(j) /\ MarketsBatch(j))
        /\ SF_vars(m \in Held(j) /\ OutcomesBatch(j))

FairSpec == Spec /\ \A j \in Full : StatementsSucceed(j)

-----------------------------------------------------------------------------
(* Properties.                                                               *)

\* Foreign keys and provenance: a market row has its event's row, outcome rows
\* their market's, and no row says what Kalshi had not reported.
Referential ==
    \A m \in Markets :
        /\ rowOf[m] <= venue[m]
        /\ rowOf[m] # 0 => eventLink[EventOf[m]] # "absent"
        /\ \A s \in Sides : outcomeOf[m][s] <= venue[m]
        /\ \A s \in Sides : outcomeOf[m][s] # 0 => rowOf[m] # 0

\* The outcome rows (is_winner) say what the market row (status, result) says,
\* except while one run is between the two statements, or after two runs held
\* the market together, a row was skipped or a run was cut short.
OutcomesAgree ==
    \A m \in Markets, s \in Sides :
        \/ outcomeOf[m][s] = rowOf[m]
        \/ m \in suspect
        \/ \E j \in Jobs : m \in Held(j)
                           /\ step[j] \in {"marketrows", "outcomes", "outcomerows"}

\* A market row that is behind Kalshi is in the window the next delta run will
\* ask for, or is one of the suspects: listed before the window, of an event
\* without a row, on a page that failed, skipped, held by two runs, or lost with
\* the process.  No update falls between two windows.
StaleIsAccounted ==
    \A m \in Markets :
        rowOf[m] < venue[m] => \/ m \in window \cup suspect
                               \/ mode = "dev"

\* A market row only goes back to an older answer when two runs held the market.
GoesBackOnlyWhenShared ==
    [][\A m \in Markets : rowOf'[m] < rowOf[m] => m \in suspect']_vars

Fetched(m) == \E j \in Full : \E P \in SUBSET todo[j] :
                EventOf[m] \in P /\ FetchEvents(j, P)

Mirrored(m) ==
    /\ rowOf[m] = venue[m]
    /\ \A s \in Sides : outcomeOf[m][s] = venue[m]
    /\ eventLink[EventOf[m]] = "linked"

\* Once Kalshi is quiet, the tables come to say of a market what Kalshi says, for
\* good, if full syncs get as far as its page again and again: these repair whatever
\* the delta runs lost, tore or took back.  The pages are read from the first one on,
\* so a market behind a page that cannot be fetched, is rejected by the SDK, or is
\* where job_timeout cuts the run off every time, has no such promise.
Mirrors == \A m \in Markets : []<><<Fetched(m)>>_vars => <>[]Mirrored(m)
=============================================================================
