------------------------- MODULE PolymarketCatalogue -------------------------
(***************************************************************************)
(* How the catalogue of Polymarket gets into series, events, markets and   *)
(* their tags (workers/polymarket/ingest.py):                              *)
(*   - the full sync pages through the active series of the Gamma API by   *)
(*     offset (run_polymarket_full_sync), the tag sync follows of its own; *)
(*     both are entry points that no cron calls at present;                *)
(*   - the DEV_MODE sync takes a diverse selection of one large page       *)
(*     (run_polymarket_dev_sync, POST /dev/sync/polymarket) and publishes  *)
(*     the tokens of what it wrote.                                        *)
(* A series is processed in one await after another: its row, its events   *)
(* with their tags, their markets, and the categories derived from the     *)
(* events.  Status and result of a market are in MarketResolution.         *)
(***************************************************************************)
EXTENDS TagTaxonomy, Sequences, SequencesExt

CONSTANTS
    Series, Events, Markets,
    SeriesOf, EventOf,
    TagsOf,          \* the tags of an event, which also give it a category
    OwnCategories,   \* the series that come with categories of their own
    Bucket, Volume,  \* of a series: (category, format) and 24h volume
    PageSize,        \* series per page (100 in the code)
    MaxTotal,        \* _DEV_SERIES_TARGET (20 in the code)
    MaxPerBucket,    \* _DEV_PER_BUCKET (2 in the code)
    MaxEvents,       \* the DEV_MODE cap of events per series (4 in the code)
    FullRuns, DevRuns

ASSUME CatalogueAssumption ==
    /\ IsFiniteSet(Series) /\ IsFiniteSet(Markets)
    /\ FullRuns \cap DevRuns = {}
    /\ SeriesOf \in [Events -> Series] /\ EventOf \in [Markets -> Events]
    /\ TagsOf \in [Events -> SUBSET Tags]
    /\ OwnCategories \subseteq Series
    /\ Bucket \in [Series -> Nat] /\ Volume \in [Series -> Nat]
    /\ PageSize \in Nat \ {0} /\ MaxTotal \in Nat \ {0}
    /\ MaxPerBucket \in Nat /\ MaxEvents \in Nat

VARIABLES
    devMode,      \* DEV_MODE
    listed,       \* external: the active series, in the order of the Gamma API
    seriesRow,    \* a series row without (bare) or with categories
    eventRow,     \* the events that have a row
    marketRow,    \* the markets that have a row
    outcomeRow,   \* whether a market has its outcomes' rows; "lost" is without them
                  \* like "none", since their statement failed or was not reached
    pending,      \* per run: the market whose row it wrote, its outcomes next
    devTokens,    \* POLYMARKET_DEV_TOKEN_IDS, one token per market
    run,          \* run[r]: a sync in flight
    \* history, read by no action of the code:
    behind,       \* per run: series that stayed active, were seen, slid behind
    cut           \* series whose last processing saw no event with a tag through

tables == <<seriesRow, eventRow, marketRow>>
outcomes == <<outcomeRow, pending>>
vars == <<devMode, listed, tables, outcomes, devTokens, run, behind, cut, tagVars>>

-----------------------------------------------------------------------------
Runs == FullRuns \cup DevRuns

Idle == [step |-> "idle", offset |-> 0, batch |-> <<>>, short |-> FALSE,
         events |-> {}, tags |-> {}, markets |-> {}, categories |-> FALSE,
         found |-> {}, tokens |-> {}]

EventsIn(s) == {e \in Events : SeriesOf[e] = s}
MarketsIn(e) == {m \in Markets : EventOf[m] = e}
Lesser(a, b) == IF a < b THEN a ELSE b
Before(q, offset) == ToSet(SubSeq(q, 1, Lesser(offset, Len(q))))

TypeOK ==
    /\ TagTypeOK
    /\ devMode \in BOOLEAN
    /\ listed \in Seq(Series) /\ IsInjective(listed)
    /\ seriesRow \in [Series -> {"absent", "bare", "categorised"}]
    /\ eventRow \in SUBSET Events
    /\ marketRow \in SUBSET Markets
    /\ outcomeRow \in [Markets -> {"none", "lost", "rows"}]
    /\ pending \in [Runs -> SUBSET Markets]
    /\ devTokens \in Seq(Markets)
    /\ run \in [Runs -> [step : {"idle", "page", "series", "events", "fallback"},
                         offset : Nat, batch : Seq(Series), short : BOOLEAN,
                         events : SUBSET Events, tags : SUBSET Tags,
                         markets : SUBSET Markets, categories : BOOLEAN,
                         found : SUBSET Markets, tokens : SUBSET Markets]]
    /\ behind \in [FullRuns -> [stayed : SUBSET Series, seen : SUBSET Series,
                            slid : SUBSET Series, clean : BOOLEAN]]
    /\ cut \in SUBSET Series

Init ==
    /\ TagInit
    /\ devMode \in BOOLEAN
    /\ listed \in UNION {SetToSeqs(S) : S \in SUBSET Series}
    /\ seriesRow = [s \in Series |-> "absent"]
    /\ eventRow = {}
    /\ marketRow = {}
    /\ outcomeRow = [m \in Markets |-> "none"]
    /\ pending = [r \in Runs |-> {}]
    /\ devTokens = <<>>
    /\ run = [r \in Runs |-> Idle]
    /\ behind = [r \in FullRuns |-> [stayed |-> {}, seen |-> {}, slid |-> {}, clean |-> TRUE]]
    /\ cut = {}

-----------------------------------------------------------------------------
(* _select_diverse_series: one series of each bucket per round, the bucket   *)
(* keys in order, the largest volume of the bucket first.                    *)

\* The places of the page that are sorted before place i in its bucket; the sort
\* keeps the order of the page where volumes are equal.
Ahead(page, bucket, volume, i) ==
    {j \in DOMAIN page :
        /\ bucket[page[j]] = bucket[page[i]]
        /\ \/ volume[page[j]] > volume[page[i]]
           \/ volume[page[j]] = volume[page[i]] /\ j < i}

Round(page, bucket, volume, i) == Cardinality(Ahead(page, bucket, volume, i))

Sooner_BucketByBucket(page, bucket, volume, j, i) ==
    \/ bucket[page[j]] < bucket[page[i]]
    \/ /\ bucket[page[j]] = bucket[page[i]]
       /\ Round(page, bucket, volume, j) < Round(page, bucket, volume, i)

Sooner(page, bucket, volume, j, i) ==
    \/ Round(page, bucket, volume, j) < Round(page, bucket, volume, i)
    \/ /\ Round(page, bucket, volume, j) = Round(page, bucket, volume, i)
       /\ bucket[page[j]] < bucket[page[i]]

SelectDiverse(page, bucket, volume, total, perBucket) ==
    LET inRounds == {i \in DOMAIN page : Round(page, bucket, volume, i) < perBucket}
        Turn(i) == Cardinality({j \in inRounds : Sooner(page, bucket, volume, j, i)}) + 1
    IN [k \in 1..Lesser(total, Cardinality(inRounds)) |->
            page[CHOOSE i \in inRounds : Turn(i) = k]]

-----------------------------------------------------------------------------
(* Polymarket: a series ends and leaves the list, or a new one is appended.  *)
SeriesEnds(s) ==
    /\ Mishap("relist")
    /\ \E i \in DOMAIN listed : listed[i] = s /\ listed' = RemoveAt(listed, i)
    /\ behind' = [r \in FullRuns |->
            [behind[r] EXCEPT !.stayed = @ \ {s},
                              !.slid = @ \cup (Before(listed', run[r].offset)
                                               \ Before(listed, run[r].offset))]]
    /\ UNCHANGED <<devMode, tables, outcomes, devTokens, run, cut, tagState>>

SeriesStarts(s) ==
    /\ Mishap("relist")
    /\ s \notin ToSet(listed)
    /\ listed' = Append(listed, s)
    /\ UNCHANGED <<devMode, tables, outcomes, devTokens, run, behind, cut, tagState>>

-----------------------------------------------------------------------------
(* Pages.                                                                    *)
StartSync(r) ==
    /\ devMode <=> r \in DevRuns
    /\ run[r] = Idle
    /\ run' = [run EXCEPT ![r].step = "page"]
    /\ behind' = IF r \in FullRuns
                 THEN [behind EXCEPT ![r] = [stayed |-> ToSet(listed), seen |-> {},
                                             slid |-> {}, clean |-> TRUE]]
                 ELSE behind
    /\ UNCHANGED <<devMode, listed, tables, outcomes, devTokens, cut, tagVars>>

FetchPage_LastTooEarly(r) ==
    LET from == run[r].offset
        data == SubSeq(listed, from + 1, Lesser(from + PageSize, Len(listed)))
    IN
    /\ r \in FullRuns /\ run[r].step = "page"
    /\ run' = IF data = <<>> THEN [run EXCEPT ![r] = Idle]
              ELSE [run EXCEPT ![r].step = "series", ![r].batch = data,
                               ![r].short = Len(data) <= PageSize,
                               ![r].offset = from + PageSize]
    /\ behind' = [behind EXCEPT ![r].seen = @ \cup ToSet(data)]
    /\ UNCHANGED <<devMode, listed, tables, outcomes, devTokens, cut, tagVars>>

\* The full sync takes the next page by offset; an empty page, which is what a
\* failed fetch gives too, ends it.
FetchPage(r) ==
    LET from == run[r].offset
        data == SubSeq(listed, from + 1, Lesser(from + PageSize, Len(listed)))
    IN
    /\ r \in FullRuns /\ run[r].step = "page"
    /\ run' = IF data = <<>> THEN [run EXCEPT ![r] = Idle]
              ELSE [run EXCEPT ![r].step = "series", ![r].batch = data,
                               ![r].short = Len(data) < PageSize,
                               ![r].offset = from + PageSize]
    /\ behind' = [behind EXCEPT ![r].seen = @ \cup ToSet(data)]
    /\ UNCHANGED <<devMode, listed, tables, outcomes, devTokens, cut, tagVars>>

\* The DEV_MODE sync selects from one page; without one it leaves its list alone.
FetchCandidates(r) ==
    /\ r \in DevRuns /\ run[r].step = "page"
    /\ run' = IF listed = <<>> THEN [run EXCEPT ![r] = Idle]
              ELSE [run EXCEPT ![r].step = "series", ![r].short = TRUE,
                               ![r].batch =
                         SelectDiverse(listed, Bucket, Volume, MaxTotal, MaxPerBucket)]
    /\ UNCHANGED <<devMode, listed, tables, outcomes, devTokens, behind, cut, tagVars>>

FetchPageFails(r) ==
    /\ Mishap("fetch")
    /\ run[r].step = "page"
    /\ run' = [run EXCEPT ![r] = Idle]
    /\ behind' = IF r \in FullRuns THEN [behind EXCEPT ![r].clean = FALSE] ELSE behind
    /\ UNCHANGED <<devMode, listed, tables, outcomes, devTokens, cut, tagState>>

-----------------------------------------------------------------------------
(* _process_series.                                                          *)

\* The row is overwritten with the series' own categories, if any.  E: its events
\* as nested in the page or fetched; a failed fetch gives none.
UpsertSeries(r, E) ==
    /\ run[r].step = "series" /\ run[r].batch # <<>>
    /\ LET s == Head(run[r].batch)
           size == Cardinality(EventsIn(s))
       IN
        /\ \/ /\ E \subseteq EventsIn(s)
              /\ Cardinality(E) = IF devMode THEN Lesser(MaxEvents, size) ELSE size
              /\ UNCHANGED mishaps
           \/ E = {} /\ Mishap("fetch")
        /\ seriesRow' = [seriesRow EXCEPT ![s] =
                            IF s \in OwnCategories THEN "categorised" ELSE "bare"]
        /\ cut' = IF \E e \in E : TagsOf[e] # {} THEN cut \ {s} ELSE cut \cup {s}
    /\ run' = [run EXCEPT ![r].step = "events", ![r].events = E]
    /\ UNCHANGED <<devMode, listed, eventRow, marketRow, outcomes, devTokens, behind, tagState>>

\* On to the next series of the page.
Leave(r, found) ==
    run' = [run EXCEPT ![r].step = "series", ![r].batch = Tail(@), ![r].events = {},
                       ![r].tags = {}, ![r].markets = {}, ![r].categories = FALSE,
                       ![r].found = {}, ![r].tokens = @ \cup found]

\* The statement for the outcomes of the market at hand fails, or is not reached.
DropOutcomes(r) ==
    /\ outcomeRow' = [m \in Markets |->
            IF m \in pending[r] /\ outcomeRow[m] = "none" THEN "lost" ELSE outcomeRow[m]]
    /\ pending' = [pending EXCEPT ![r] = {}]

\* The statement of the series fails, or anything below raises: no token of the
\* series is collected.
SkipSeries(r) ==
    /\ Mishap("row")
    /\ run[r].step \in {"series", "events"} /\ run[r].batch # <<>>
    /\ Leave(r, {})
    /\ behind' = IF r \in FullRuns THEN [behind EXCEPT ![r].clean = FALSE] ELSE behind
    /\ DropOutcomes(r)
    /\ cut' = cut \cup {Head(run[r].batch)}
    /\ UNCHANGED <<devMode, listed, tables, devTokens, tagState>>

\* The run awaits nothing about the event before.
NextEvent(r, e) ==
    /\ run[r].step = "events" /\ run[r].tags = {} /\ run[r].markets = {}
    /\ pending[r] = {}
    /\ e \in run[r].events

\* An event, enriched with its markets (M) unless that fetch fails.
UpsertEvent(r, e, M) ==
    /\ NextEvent(r, e)
    /\ \/ M = MarketsIn(e) /\ UNCHANGED mishaps
       \/ M = {} /\ Mishap("fetch")
    /\ eventRow' = eventRow \cup {e}
    /\ run' = [run EXCEPT ![r].events = @ \ {e}, ![r].tags = TagsOf[e],
                          ![r].markets = M, ![r].categories = @ \/ TagsOf[e] # {}]
    /\ UNCHANGED <<devMode, listed, seriesRow, marketRow, outcomes, devTokens, behind, cut, tagState>>

SkipEvent_NotItsMarkets(r, e) ==
    /\ Mishap("row")
    /\ NextEvent(r, e)
    /\ run' = [run EXCEPT ![r].events = @ \ {e}, ![r].markets = MarketsIn(e)]
    /\ cut' = IF TagsOf[e] # {} THEN cut \cup {SeriesOf[e]} ELSE cut
    /\ UNCHANGED <<devMode, listed, tables, outcomes, devTokens, behind, tagState>>

\* The statement of the event fails: its tags and markets are skipped.
SkipEvent(r, e) ==
    /\ Mishap("row")
    /\ NextEvent(r, e)
    /\ run' = [run EXCEPT ![r].events = @ \ {e}]
    /\ cut' = IF TagsOf[e] # {} THEN cut \cup {SeriesOf[e]} ELSE cut
    /\ UNCHANGED <<devMode, listed, tables, outcomes, devTokens, behind, tagState>>

UpsertEventTag(r, t) ==
    /\ t \in run[r].tags
    /\ WriteEventTag(t)
    /\ run' = [run EXCEPT ![r].tags = @ \ {t}]
    /\ UNCHANGED <<devMode, listed, tables, outcomes, devTokens, behind, cut>>

\* upsert_platform_tag swallows the exception of its statement.
SkipEventTag(r, t) ==
    /\ Mishap("row")
    /\ t \in run[r].tags
    /\ run' = [run EXCEPT ![r].tags = @ \ {t}]
    /\ UNCHANGED <<devMode, listed, tables, outcomes, devTokens, behind, cut, tagState>>

\* A market's row and, in a statement of its own, its outcomes.  Its tokens are
\* collected in between, and kept although the statement for the outcomes fails,
\* an exception that is swallowed.
UpsertMarket(r, m) ==
    /\ run[r].tags = {} /\ pending[r] = {} /\ m \in run[r].markets
    /\ marketRow' = marketRow \cup {m}
    /\ pending' = [pending EXCEPT ![r] = {m}]
    /\ run' = [run EXCEPT ![r].markets = @ \ {m},
                          ![r].found = IF r \in DevRuns THEN @ \cup {m} ELSE @]
    /\ UNCHANGED <<devMode, listed, seriesRow, eventRow, outcomeRow, devTokens, behind,
                   cut, tagVars>>

UpsertOutcomes(r, m) ==
    /\ m \in pending[r]
    /\ \/ /\ outcomeRow' = [outcomeRow EXCEPT ![m] = "rows"]
          /\ pending' = [pending EXCEPT ![r] = @ \ {m}]
          /\ UNCHANGED mishaps
       \/ Mishap("row") /\ DropOutcomes(r)
    /\ UNCHANGED <<devMode, listed, tables, devTokens, run, behind, cut, tagState>>

\* No token of a market whose statement fails is collected.
SkipMarket(r, m) ==
    /\ Mishap("row")
    /\ run[r].tags = {} /\ pending[r] = {} /\ m \in run[r].markets
    /\ run' = [run EXCEPT ![r].markets = @ \ {m}]
    /\ UNCHANGED <<devMode, listed, tables, outcomes, devTokens, behind, cut, tagState>>

\* array_length of an empty array is NULL, not 0.
BackFill_LengthZero(r) ==
    /\ run[r].step = "events" /\ run[r].events = {}
    /\ run[r].tags = {} /\ run[r].markets = {} /\ pending[r] = {}
    /\ Leave(r, run[r].found)
    /\ UNCHANGED <<devMode, listed, tables, outcomes, devTokens, behind, cut, tagVars>>

\* Categories derived from the events, for a series row that has none; an
\* exception of that statement is swallowed.
BackFill(r) ==
    /\ run[r].step = "events" /\ run[r].events = {}
    /\ run[r].tags = {} /\ run[r].markets = {} /\ pending[r] = {}
    /\ LET s == Head(run[r].batch) IN
        \/ /\ seriesRow' = IF run[r].categories /\ seriesRow[s] = "bare"
                           THEN [seriesRow EXCEPT ![s] = "categorised"] ELSE seriesRow
           /\ UNCHANGED <<cut, mishaps>>
        \/ /\ run[r].categories /\ Mishap("row")
           /\ cut' = cut \cup {s}
           /\ UNCHANGED seriesRow
    /\ Leave(r, run[r].found)
    /\ UNCHANGED <<devMode, listed, eventRow, marketRow, outcomes, devTokens, behind, tagState>>

-----------------------------------------------------------------------------
(* The end of a page, and what the DEV_MODE sync publishes.                  *)
NextPage(r) ==
    /\ r \in FullRuns
    /\ run[r].step = "series" /\ run[r].batch = <<>>
    /\ run' = IF run[r].short THEN [run EXCEPT ![r] = Idle]
              ELSE [run EXCEPT ![r].step = "page"]
    /\ UNCHANGED <<devMode, listed, tables, outcomes, devTokens, behind, cut, tagVars>>

\* clear() and extend() without an await between them.
Publish(r) ==
    /\ r \in DevRuns
    /\ run[r].step = "series" /\ run[r].batch = <<>>
    /\ devTokens' = SetToSeq(run[r].tokens)
    /\ run' = IF run[r].tokens = {} THEN [run EXCEPT ![r].step = "fallback"]
              ELSE [run EXCEPT ![r] = Idle]
    /\ UNCHANGED <<devMode, listed, tables, outcomes, behind, cut, tagVars>>

\* Nothing was written: extend() with the tokens of the table, once they have
\* been loaded; an error loads none.
Fallback(r) ==
    /\ run[r].step = "fallback"
    /\ \/ devTokens' = devTokens \o SetToSeq({m \in Markets : outcomeRow[m] = "rows"})
          /\ UNCHANGED mishaps
       \/ Mishap("fetch") /\ UNCHANGED devTokens
    /\ run' = [run EXCEPT ![r] = Idle]
    /\ UNCHANGED <<devMode, listed, tables, outcomes, behind, cut, tagState>>

\* The request or the process ends.
RunDies(r) ==
    /\ Mishap("die")
    /\ run[r] # Idle
    /\ run' = [run EXCEPT ![r] = Idle]
    /\ DropOutcomes(r)
    /\ behind' = IF r \in FullRuns THEN [behind EXCEPT ![r].clean = FALSE] ELSE behind
    /\ cut' = cut \cup ToSet(SubSeq(run[r].batch, 1, Lesser(1, Len(run[r].batch))))
    /\ UNCHANGED <<devMode, listed, tables, devTokens, tagState>>

-----------------------------------------------------------------------------
CatalogueProceeds(r) ==
    \/ FetchPage(r) \/ FetchCandidates(r) \/ FetchPageFails(r)
    \/ \E E \in SUBSET Events : UpsertSeries(r, E)
    \/ SkipSeries(r)
    \/ \E e \in Events :
        SkipEvent(r, e) \/ \E M \in {{}, MarketsIn(e)} : UpsertEvent(r, e, M)
    \/ \E t \in Tags : UpsertEventTag(r, t) \/ SkipEventTag(r, t)
    \/ \E m \in Markets : UpsertMarket(r, m) \/ UpsertOutcomes(r, m) \/ SkipMarket(r, m)
    \/ BackFill(r)
    \/ NextPage(r) \/ Publish(r) \/ Fallback(r)

TagSync ==
    /\ ~devMode
    /\ (\E S \in SUBSET TopLevel : ListTags(S)) \/ TagSyncProceeds
    /\ UNCHANGED <<devMode, listed, tables, outcomes, devTokens, run, behind, cut>>

Next ==
    \/ \E s \in Series : SeriesEnds(s) \/ SeriesStarts(s)
    \/ \E r \in Runs : StartSync(r) \/ CatalogueProceeds(r) \/ RunDies(r)
    \/ TagSync

Spec == Init /\ [][Next]_vars

\* The tag sync goes on: each fetch is answered, refused or times out (httpx
\* timeout), and each statement ends.
FairSpec == Spec /\ WF_vars(TagSync /\ tagStep # "idle")

-----------------------------------------------------------------------------
(* Properties.                                                               *)

\* When a full sync ends without a fault, every series that was active all along
\* has been processed, except one that slid behind the offset when a series
\* before it left the list.
SkippedOnlyBehind ==
    [][\A r \in FullRuns :
        run[r] # Idle /\ run'[r] = Idle /\ behind'[r].clean
            => behind'[r].stayed \subseteq behind'[r].seen \cup behind'[r].slid]_vars

\* A market row has its event's row, that one its series' row, and outcomes have
\* their market's.  A market row without outcomes is one whose run has yet to write
\* them, or could not.  The tokens published for the WebSocket are those of markets
\* whose outcomes are in the table, or would be if their statement had not failed.
Referential ==
    /\ \A m \in marketRow : EventOf[m] \in eventRow
    /\ \A e \in eventRow : seriesRow[SeriesOf[e]] # "absent"
    /\ \A m \in Markets : outcomeRow[m] # "none" => m \in marketRow
    /\ \A m \in marketRow : outcomeRow[m] = "none" => \E r \in Runs : m \in pending[r]
    /\ \A m \in ToSet(devTokens) : outcomeRow[m] # "none"

\* A series with neither categories of its own nor a run at work on it shows the
\* category of its events, unless the run that wrote it was cut short or got no
\* event with a tag through.
BareOnlyWhenCut ==
    \A s \in Series :
        seriesRow[s] = "bare" =>
            \/ s \in cut
            \/ \E r \in Runs : run[r].batch # <<>> /\ Head(run[r].batch) = s

\* A selection of a page is diverse: at most n of a bucket, none passed over for one
\* of its bucket with less volume, none taken from a bucket that is ahead by two of
\* one that has some left, and no place left free in vain.
Diverse(picks, page, bucket, volume, total, n) ==
    LET chosen == ToSet(picks)
        Count(b) == Cardinality({s \in chosen : bucket[s] = b})
    IN
    /\ IsInjective(picks) /\ chosen \subseteq ToSet(page)
    /\ \A s \in chosen : Count(bucket[s]) <= n
    /\ \A t \in ToSet(page) \ chosen :
        /\ Count(bucket[t]) = n \/ Len(picks) = total
        /\ \A s \in chosen :
            /\ bucket[s] = bucket[t] => volume[t] <= volume[s]
            /\ Count(bucket[s]) <= Count(bucket[t]) + 1 \/ Count(bucket[t]) = n

FourCandidates ==
    LET page == <<1, 2, 3, 4>> IN
    \A bucket \in [1..4 -> 1..2], volume \in [1..4 -> 0..1], total \in 1..4, n \in 1..3 :
        Diverse(SelectDiverse(page, bucket, volume, total, n),
                page, bucket, volume, total, n)

\* What a DEV_MODE sync works through is a diverse selection of the page it fetched:
\* the promises of _select_diverse_series, which hold too of four candidates in two
\* buckets with few places.
DevSyncDiverse ==
    [][\A r \in DevRuns :
        run[r].step = "page" /\ run'[r].step = "series" =>
            /\ Diverse(run'[r].batch, listed, Bucket, Volume, MaxTotal, MaxPerBucket)
            /\ FourCandidates]_vars
=============================================================================
