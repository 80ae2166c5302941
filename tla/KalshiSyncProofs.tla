-------------------------- MODULE KalshiSyncProofs --------------------------
(***************************************************************************)
(* The safety properties of KalshiSync for any number of runs, markets and *)
(* faults.                                                                 *)
(***************************************************************************)
EXTENDS KalshiSync, TLAPS

-----------------------------------------------------------------------------
(* Types.  What is left of a page, or to be fetched, has one type per kind  *)
(* of step and of run.                                                      *)
LeftTyped ==
    \A j \in Jobs :
        /\ step[j] = "marketrows" => left[j] \subseteq Markets
        /\ step[j] = "outcomerows" => left[j] \subseteq Markets \X Sides

TodoTyped ==
    \A j \in Jobs :
        /\ j \in Full \cup Dev => todo[j] \subseteq Events
        /\ j \in Delta => todo[j] \subseteq Markets

TypeInv == TypeOK /\ LeftTyped /\ TodoTyped

USE ConstantsAssumption

LEMMA TypeInit == Init => TypeInv
<1> SUFFICES ASSUME Init PROVE TypeInv
  OBVIOUS
<1>1. TypeOK
  BY DEF Init, TypeOK, Nothing, States, Jobs
<1>2. LeftTyped /\ TodoTyped
  BY DEF Init, LeftTyped, TodoTyped, Jobs
<1> QED BY <1>1, <1>2 DEF TypeInv

LEMMA TypeNext == TypeInv /\ [Next]_vars => TypeInv'
<1> SUFFICES ASSUME TypeInv, [Next]_vars PROVE TypeInv'
  OBVIOUS
<1> USE DEF TypeInv, TypeOK, LeftTyped, TodoTyped, tables
<1>1. CASE UNCHANGED vars
  BY <1>1 DEF vars, local
<1>2. ASSUME NEW m \in Markets, VenueMoves(m) PROVE TypeInv'
  BY <1>2 DEF VenueMoves, States
<1>3. ASSUME NEW j \in Jobs, StartFull(j) PROVE TypeInv'
  BY <1>3 DEF StartFull
<1>4. ASSUME NEW j \in Jobs, StartDev(j) PROVE TypeInv'
  BY <1>4 DEF StartDev
<1>5. ASSUME NEW j \in Jobs, StartDelta(j) PROVE TypeInv'
  BY <1>5 DEF StartDelta
<1>6. ASSUME NEW j \in Jobs, SeriesFail(j) PROVE TypeInv'
  BY <1>6 DEF SeriesFail
<1>7. ASSUME NEW j \in Jobs, NEW S \in SUBSET Series, SyncSeries(j, S) PROVE TypeInv'
  <2>1. Listed \subseteq Events
    BY DEF Listed
  <2>2. Delta \cap Full = {} /\ j \in Full
    BY <1>7 DEF SyncSeries
  <2>3. CASE S = {}
    BY <1>7, <2>3 DEF SyncSeries, WriteSeries
  <2>4. CASE S # {}
    <3>1. /\ seriesRows' = seriesRows \cup S
          /\ step' = [step EXCEPT ![j] = "fetch"]
          /\ known' = [known EXCEPT ![j] = seriesRows']
          /\ todo' = [todo EXCEPT ![j] = Listed]
          /\ UNCHANGED <<mode, venue, rejects, eventLink, rowOf, outcomeOf, window, targets,
                         page, held, left, fresh, gathered, rivals, suspect>>
      BY <1>7, <2>4 DEF SyncSeries, WriteSeries
    <3> QED BY <3>1, <2>1, <2>2
  <2> QED BY <2>3, <2>4
<1>8. ASSUME NEW j \in Jobs, NEW S \in SUBSET Series, SyncDevSeries(j, S) PROVE TypeInv'
  BY <1>8 DEF SyncDevSeries, WriteSeries, OpenEvents
<1>9. ASSUME NEW j \in Jobs, NEW P \in SUBSET todo[j], FetchEvents(j, P) PROVE TypeInv'
  BY <1>9 DEF FetchEvents, TakeInHand, MarketsOf, Held, States, IsNextPage, IsPage
<1>10. ASSUME NEW j \in Jobs, NEW P \in SUBSET todo[j], FetchMarkets(j, P) PROVE TypeInv'
  BY <1>10 DEF FetchMarkets, TakeInHand, MarketsOf, Held, States, IsPage
<1>11. ASSUME NEW j \in Jobs, NEW P \in SUBSET todo[j], FetchOpenEvents(j, P) PROVE TypeInv'
  BY <1>11 DEF FetchOpenEvents, IsPage
<1>12. ASSUME NEW j \in Jobs, FetchFails(j) PROVE TypeInv'
  BY <1>12 DEF FetchFails
<1>13. ASSUME NEW j \in Jobs, NEW s \in Series, FetchOpenFails(j, s) PROVE TypeInv'
  BY <1>13 DEF FetchOpenFails
<1>14. ASSUME NEW j \in Jobs, NEW e \in page[j], FetchNested(j, e) PROVE TypeInv'
  BY <1>14 DEF FetchNested, TakeInHand, MarketsOf, Held, States
<1>15. ASSUME NEW j \in Jobs, NEW e \in page[j], FetchNestedFails(j, e) PROVE TypeInv'
  BY <1>15 DEF FetchNestedFails
<1>16. ASSUME NEW j \in Jobs, NEW S \in SUBSET page[j], UpsertEvents(j, S) PROVE TypeInv'
  BY <1>16 DEF UpsertEvents, EventRow, States
<1>17. ASSUME NEW j \in Jobs, MarketsBatch(j) PROVE TypeInv'
  BY <1>17 DEF MarketsBatch, WriteMarkets, Held, States
<1>18. ASSUME NEW j \in Jobs, MarketsBatchFails(j) PROVE TypeInv'
  BY <1>18 DEF MarketsBatchFails, Held
<1>19. ASSUME NEW j \in Jobs, NEW m \in left[j], MarketRow(j, m) PROVE TypeInv'
  BY <1>19 DEF MarketRow, WriteMarkets, States
<1>20. ASSUME NEW j \in Jobs, NEW m \in left[j], SkipMarketRow(j, m) PROVE TypeInv'
  BY <1>20 DEF SkipMarketRow
<1>21. ASSUME NEW j \in Jobs, OutcomesBatch(j) PROVE TypeInv'
  BY <1>21 DEF OutcomesBatch, WriteOutcomes, Release, Nothing, States
<1>22. ASSUME NEW j \in Jobs, OutcomesBatchFails(j) PROVE TypeInv'
  BY <1>22 DEF OutcomesBatchFails, Held
<1>23. ASSUME NEW j \in Jobs, NEW r \in left[j], OutcomeRow(j, r) PROVE TypeInv'
  BY <1>23 DEF OutcomeRow, WriteOutcomes, States
<1>24. ASSUME NEW j \in Jobs, NEW r \in left[j], SkipOutcomeRow(j, r) PROVE TypeInv'
  BY <1>24 DEF SkipOutcomeRow
<1>25. ASSUME NEW j \in Jobs, NextPage(j) PROVE TypeInv'
  BY <1>25 DEF NextPage, Release, Nothing, States
<1>26. ASSUME NEW j \in Jobs, FinishRun(j) PROVE TypeInv'
  BY <1>26 DEF FinishRun
<1>27. ASSUME NEW j \in Jobs, PublishTargets(j) PROVE TypeInv'
  BY <1>27 DEF PublishTargets
<1>28. ASSUME NEW j \in Jobs, RunDies(j) PROVE TypeInv'
  BY <1>28 DEF RunDies, Nothing, States, Held
<1>29. ASSUME NEW W \in SUBSET Markets, Restart(W) PROVE TypeInv'
  BY <1>29 DEF Restart, Nothing, States, Held
<1> QED
  BY <1>1, <1>2, <1>3, <1>4, <1>5, <1>6, <1>7, <1>8, <1>9, <1>10, <1>11, <1>12, <1>13,
     <1>14, <1>15, <1>16, <1>17, <1>18, <1>19, <1>20, <1>21, <1>22, <1>23, <1>24, <1>25,
     <1>26, <1>27, <1>28, <1>29
     DEF Next, Proceeds, Fetches, Writes

\* Every variable keeps its type, whatever runs overlap, fail and die.
THEOREM TypeCorrect == Spec => []TypeOK
<1>1. TypeInv => TypeOK
  BY DEF TypeInv
<1> QED BY <1>1, TypeInit, TypeNext, PTL DEF Spec

-----------------------------------------------------------------------------
(* References.  What a run holds is no newer than Kalshi and has the row of  *)
(* its event, unless it is a page whose events are still to be written; a    *)
(* delta run holds only markets whose event was in the map it loaded.        *)
DeltaSteps ==
    \A d \in Delta :
        step[d] \in {"idle", "fetch", "markets", "marketrows", "outcomes", "outcomerows"}

HeldLinked ==
    \A j \in Jobs, m \in Markets :
        held[j][m] # 0 /\ step[j] # "events" => eventLink[EventOf[m]] # "absent"

PageLinked ==
    \A j \in Jobs : step[j] = "nested" => \A e \in page[j] : eventLink[e] # "absent"

MapLinked == \A d \in Delta, e \in Events : e \in known[d] => eventLink[e] # "absent"

HeldReported == \A j \in Jobs, m \in Markets : held[j][m] <= venue[m]

LeftToWrite ==
    \A j \in Jobs :
        /\ step[j] = "marketrows" => \A m \in left[j] : held[j][m] # 0
        /\ step[j] = "outcomerows" =>
             \A r \in left[j] : held[j][r[1]] # 0 /\ rowOf[r[1]] # 0

LinkInv ==
    /\ DeltaSteps /\ HeldLinked /\ PageLinked /\ MapLinked /\ HeldReported /\ LeftToWrite
    /\ Referential

RefInv == TypeInv /\ LinkInv

LEMMA RefInit == Init => RefInv
<1> SUFFICES ASSUME Init PROVE RefInv
  OBVIOUS
<1>1. TypeInv
  BY TypeInit
<1>2. Referential
  BY <1>1 DEF Init, Referential, Nothing, TypeInv, TypeOK, States
<1>3. DeltaSteps /\ HeldLinked /\ PageLinked /\ MapLinked /\ HeldReported /\ LeftToWrite
  BY <1>1 DEF Init, DeltaSteps, HeldLinked, PageLinked, MapLinked, HeldReported, LeftToWrite,
              Nothing, TypeInv, TypeOK, States, Jobs
<1> QED BY <1>1, <1>2, <1>3 DEF RefInv, LinkInv

\* The three steps that take more than one leaf.
LEMMA SyncSeriesLinks ==
    ASSUME RefInv, NEW j \in Jobs, NEW S \in SUBSET Series, SyncSeries(j, S)
    PROVE  LinkInv'
<1>1. j \in Full /\ j \notin Delta /\ step[j] = "series"
  BY DEF SyncSeries
<1>2. \/ step' = [step EXCEPT ![j] = "idle"] /\ known' = known
      \/ step' = [step EXCEPT ![j] = "fetch"] /\ known' = [known EXCEPT ![j] = seriesRows']
  BY DEF SyncSeries
<1>3. UNCHANGED <<venue, eventLink, rowOf, outcomeOf, page, held, left>>
  BY DEF SyncSeries
<1>4. step \in [Jobs -> {"idle", "series", "fetch", "events", "nested", "markets",
                        "marketrows", "outcomes", "outcomerows"}]
      /\ known \in [Jobs -> SUBSET (Series \cup Events)]
  BY DEF RefInv, TypeInv, TypeOK
<1>5. \A k \in Jobs : step'[k] = step[k] \/ (k = j /\ step'[k] \in {"idle", "fetch"})
  BY <1>2, <1>4
<1>6. \A d \in Delta : known'[d] = known[d] /\ step'[d] = step[d]
  BY <1>1, <1>2, <1>4 DEF Jobs
<1>7. DeltaSteps' /\ MapLinked'
  BY <1>6, <1>3 DEF RefInv, LinkInv, DeltaSteps, MapLinked
<1>8. HeldLinked' /\ PageLinked' /\ HeldReported' /\ LeftToWrite'
  BY <1>1, <1>3, <1>5 DEF RefInv, LinkInv, HeldLinked, PageLinked, HeldReported, LeftToWrite
<1>9. Referential'
  BY <1>3 DEF RefInv, LinkInv, Referential
<1> QED BY <1>7, <1>8, <1>9 DEF LinkInv

\* Rows that are written say what was held: M is written by run j.
LEMMA WriteMarketsLinks ==
    ASSUME RefInv, NEW j \in Jobs, NEW M \in SUBSET Held(j), step[j] # "events",
           WriteMarkets(j, M), UNCHANGED <<venue, eventLink, outcomeOf, held>>
    PROVE  /\ Referential'
           /\ \A m \in Markets : rowOf[m] # 0 => rowOf'[m] # 0
<1>1. \A m \in Markets : rowOf'[m] = IF m \in M THEN held[j][m] ELSE rowOf[m]
  BY DEF WriteMarkets
<1>2. \A m \in M : m \in Markets /\ held[j][m] # 0
  BY DEF Held
<1>3. \A m \in M : held[j][m] <= venue[m] /\ eventLink[EventOf[m]] # "absent"
  BY <1>2 DEF RefInv, LinkInv, HeldReported, HeldLinked
<1> QED BY <1>1, <1>2, <1>3 DEF RefInv, LinkInv, Referential

LEMMA MarketsBatchLinks ==
    ASSUME RefInv, NEW j \in Jobs, MarketsBatch(j)
    PROVE  LinkInv'
<1>1. step[j] \in {"markets", "nested"}
  BY DEF MarketsBatch, AllFetched
<1>2. WriteMarkets(j, Held(j)) /\ step' = [step EXCEPT ![j] = "outcomes"]
  BY DEF MarketsBatch
<1>3. UNCHANGED <<venue, eventLink, outcomeOf, known, page, held, left>>
  BY DEF MarketsBatch
<1>4. Referential' /\ \A m \in Markets : rowOf[m] # 0 => rowOf'[m] # 0
  BY <1>1, <1>2, <1>3, WriteMarketsLinks
<1>5. \A k \in Jobs : step'[k] = IF k = j THEN "outcomes" ELSE step[k]
  BY <1>2 DEF RefInv, TypeInv, TypeOK
<1>6. DeltaSteps' /\ HeldLinked' /\ PageLinked' /\ MapLinked' /\ HeldReported'
  BY <1>1, <1>3, <1>5
     DEF RefInv, LinkInv, DeltaSteps, HeldLinked, PageLinked, MapLinked, HeldReported, Jobs
<1>7. \A k \in Jobs : step[k] = "outcomerows" => \A r \in left[k] : r[1] \in Markets
  BY DEF RefInv, TypeInv, LeftTyped
<1>8. LeftToWrite'
  BY <1>3, <1>4, <1>5, <1>7 DEF RefInv, LinkInv, LeftToWrite
<1> QED BY <1>4, <1>6, <1>8 DEF LinkInv

LEMMA MarketRowLinks ==
    ASSUME RefInv, NEW j \in Jobs, NEW m \in left[j], MarketRow(j, m)
    PROVE  LinkInv'
<1>1. step[j] = "marketrows" /\ m \in Held(j)
  BY DEF MarketRow, RefInv, LinkInv, LeftToWrite, TypeInv, LeftTyped, Held
<1>2. WriteMarkets(j, {m}) /\ left' = [left EXCEPT ![j] = @ \ {m}]
  BY DEF MarketRow
<1>3. UNCHANGED <<venue, eventLink, outcomeOf, step, known, page, held>>
  BY DEF MarketRow
<1>4. Referential' /\ \A n \in Markets : rowOf[n] # 0 => rowOf'[n] # 0
  BY <1>1, <1>2, <1>3, WriteMarketsLinks
<1>5. \A k \in Jobs : left'[k] \subseteq left[k]
  BY <1>2 DEF RefInv, TypeInv, TypeOK
<1>6. DeltaSteps' /\ HeldLinked' /\ PageLinked' /\ MapLinked' /\ HeldReported'
  BY <1>3
     DEF RefInv, LinkInv, DeltaSteps, HeldLinked, PageLinked, MapLinked, HeldReported
<1>7. \A k \in Jobs : step[k] = "outcomerows" => \A r \in left[k] : r[1] \in Markets
  BY DEF RefInv, TypeInv, LeftTyped
<1>8. LeftToWrite'
  BY <1>3, <1>4, <1>5, <1>7 DEF RefInv, LinkInv, LeftToWrite
<1> QED BY <1>4, <1>6, <1>8 DEF LinkInv

LEMMA RefNext == RefInv /\ [Next]_vars => RefInv'
<1> SUFFICES ASSUME RefInv, [Next]_vars PROVE RefInv'
  OBVIOUS
<1>0. TypeInv'
  BY TypeNext DEF RefInv
<1> USE DEF LinkInv, RefInv, TypeInv, TypeOK, DeltaSteps, HeldLinked, PageLinked, MapLinked,
                 HeldReported, LeftToWrite, Referential, Jobs, States, tables
<1>1. ASSUME UNCHANGED vars PROVE LinkInv'
  BY <1>1 DEF vars, local
<1>2. ASSUME NEW m \in Markets, VenueMoves(m) PROVE LinkInv'
  BY <1>2 DEF VenueMoves
<1>3. ASSUME NEW j \in Jobs, StartFull(j) PROVE LinkInv'
  BY <1>3 DEF StartFull
<1>4. ASSUME NEW j \in Jobs, StartDev(j) PROVE LinkInv'
  BY <1>4 DEF StartDev
<1>5. ASSUME NEW j \in Jobs, StartDelta(j) PROVE LinkInv'
  BY <1>5 DEF StartDelta
<1>6. ASSUME NEW j \in Jobs, SeriesFail(j) PROVE LinkInv'
  BY <1>6 DEF SeriesFail
<1>7. ASSUME NEW j \in Jobs, NEW S \in SUBSET Series, SyncSeries(j, S) PROVE LinkInv'
  BY <1>7, SyncSeriesLinks
<1>8. ASSUME NEW j \in Jobs, NEW S \in SUBSET Series, SyncDevSeries(j, S) PROVE LinkInv'
  BY <1>8 DEF SyncDevSeries
<1>9. ASSUME NEW j \in Jobs, NEW P \in SUBSET todo[j], FetchEvents(j, P) PROVE LinkInv'
  BY <1>9 DEF FetchEvents, TakeInHand, IsNextPage, IsPage
<1>10. ASSUME NEW j \in Jobs, NEW P \in SUBSET todo[j], FetchMarkets(j, P) PROVE LinkInv'
  BY <1>10 DEF FetchMarkets, TakeInHand, IsPage
<1>11. ASSUME NEW j \in Jobs, NEW P \in SUBSET todo[j], FetchOpenEvents(j, P) PROVE LinkInv'
  BY <1>11 DEF FetchOpenEvents, IsPage
<1>12. ASSUME NEW j \in Jobs, FetchFails(j) PROVE LinkInv'
  BY <1>12 DEF FetchFails
<1>13. ASSUME NEW j \in Jobs, NEW s \in Series, FetchOpenFails(j, s) PROVE LinkInv'
  BY <1>13 DEF FetchOpenFails
<1>14. ASSUME NEW j \in Jobs, NEW e \in page[j], FetchNested(j, e) PROVE LinkInv'
  BY <1>14 DEF FetchNested, TakeInHand, MarketsOf
<1>15. ASSUME NEW j \in Jobs, NEW e \in page[j], FetchNestedFails(j, e) PROVE LinkInv'
  BY <1>15 DEF FetchNestedFails
<1>16. ASSUME NEW j \in Jobs, NEW S \in SUBSET page[j], UpsertEvents(j, S) PROVE LinkInv'
  BY <1>16 DEF UpsertEvents, EventRow
<1>17. ASSUME NEW j \in Jobs, MarketsBatch(j) PROVE LinkInv'
  BY <1>17, MarketsBatchLinks
<1>18. ASSUME NEW j \in Jobs, MarketsBatchFails(j) PROVE LinkInv'
  BY <1>18 DEF MarketsBatchFails, Held, AllFetched
<1>19. ASSUME NEW j \in Jobs, NEW m \in left[j], MarketRow(j, m) PROVE LinkInv'
  BY <1>19, MarketRowLinks
<1>20. ASSUME NEW j \in Jobs, NEW m \in left[j], SkipMarketRow(j, m) PROVE LinkInv'
  BY <1>20 DEF SkipMarketRow
<1>21. ASSUME NEW j \in Jobs, OutcomesBatch(j) PROVE LinkInv'
  BY <1>21 DEF OutcomesBatch, WriteOutcomes, Release, Nothing, Held
<1>22. ASSUME NEW j \in Jobs, OutcomesBatchFails(j) PROVE LinkInv'
  BY <1>22 DEF OutcomesBatchFails, Held, RowsWritten
<1>23. ASSUME NEW j \in Jobs, NEW r \in left[j], OutcomeRow(j, r) PROVE LinkInv'
  BY <1>23 DEF OutcomeRow, WriteOutcomes
<1>24. ASSUME NEW j \in Jobs, NEW r \in left[j], SkipOutcomeRow(j, r) PROVE LinkInv'
  BY <1>24 DEF SkipOutcomeRow
<1>25. ASSUME NEW j \in Jobs, NextPage(j) PROVE LinkInv'
  BY <1>25 DEF NextPage, Release, Nothing
<1>26. ASSUME NEW j \in Jobs, FinishRun(j) PROVE LinkInv'
  BY <1>26 DEF FinishRun
<1>27. ASSUME NEW j \in Jobs, PublishTargets(j) PROVE LinkInv'
  BY <1>27 DEF PublishTargets
<1>28. ASSUME NEW j \in Jobs, RunDies(j) PROVE LinkInv'
  BY <1>28 DEF RunDies, Nothing
<1>29. ASSUME NEW W \in SUBSET Markets, Restart(W) PROVE LinkInv'
  BY <1>29 DEF Restart, Nothing
<1>30. LinkInv'
  BY <1>1, <1>2, <1>3, <1>4, <1>5, <1>6, <1>7, <1>8, <1>9, <1>10, <1>11, <1>12, <1>13,
     <1>14, <1>15, <1>16, <1>17, <1>18, <1>19, <1>20, <1>21, <1>22, <1>23, <1>24, <1>25,
     <1>26, <1>27, <1>28, <1>29
     DEF Next, Proceeds, Fetches, Writes
<1> QED BY <1>0, <1>30

\* Market rows have their event's row, outcome rows their market's, and none says
\* what Kalshi had not reported, however often statements and runs fail.
THEOREM ReferencesKept == Spec => []Referential
<1>1. RefInv => Referential
  BY DEF RefInv, LinkInv
<1> QED BY <1>1, RefInit, RefNext, PTL DEF Spec

-----------------------------------------------------------------------------
(* Sharing.  Two runs that hold a market know it (rivals), and so does a run *)
(* that holds an answer older than the row.                                  *)
Shared ==
    \A i, j \in Jobs, m \in Markets :
        i # j /\ held[i][m] # 0 /\ held[j][m] # 0 => m \in rivals[i]

Overtaken ==
    \A j \in Jobs, m \in Markets :
        held[j][m] # 0 /\ held[j][m] < rowOf[m] => m \in rivals[j]

ShareInv == Shared /\ Overtaken

LEMMA TakeInHandShares ==
    ASSUME RefInv, ShareInv, NEW j \in Jobs, NEW M \in SUBSET Markets,
           TakeInHand(j, M), UNCHANGED rowOf
    PROVE  ShareInv'
<1>1. \A k \in Jobs, m \in Markets :
          held'[k][m] = IF k = j /\ m \in M THEN venue[m] ELSE held[k][m]
  BY DEF TakeInHand, RefInv, TypeInv, TypeOK
<1>2. \A k \in Jobs : rivals[k] \subseteq rivals'[k]
  BY DEF TakeInHand
<1>3. \A i \in Jobs \ {j}, m \in M :
          held[i][m] # 0 => m \in rivals'[j] /\ m \in rivals'[i]
  BY DEF TakeInHand, Held
<1>4. Shared'
  BY <1>1, <1>2, <1>3 DEF ShareInv, Shared
<1>5. \A m \in Markets : rowOf[m] \in Nat /\ venue[m] \in Nat /\ rowOf[m] <= venue[m]
  BY DEF RefInv, LinkInv, Referential, TypeInv, TypeOK, States
<1>6. Overtaken'
  BY <1>1, <1>2, <1>5 DEF ShareInv, Overtaken
<1> QED BY <1>4, <1>6 DEF ShareInv

LEMMA WriteMarketsShares ==
    ASSUME RefInv, ShareInv, NEW j \in Jobs, NEW M \in SUBSET Held(j),
           WriteMarkets(j, M), UNCHANGED <<held, rivals>>
    PROVE  ShareInv'
<1>1. \A m \in Markets : rowOf'[m] = IF m \in M THEN held[j][m] ELSE rowOf[m]
  BY DEF WriteMarkets
<1>2. \A m \in M : held[j][m] # 0
  BY DEF Held
<1>3. \A k \in Jobs, m \in Markets : held[k][m] \in Nat /\ rowOf[m] \in Nat
  BY DEF RefInv, TypeInv, TypeOK, States
<1>4. Overtaken'
  BY <1>1, <1>2, <1>3 DEF ShareInv, Shared, Overtaken
<1> QED BY <1>4 DEF ShareInv, Shared

LEMMA ReleaseShares ==
    ASSUME RefInv, ShareInv, NEW j \in Jobs, UNCHANGED rowOf,
           held' = [held EXCEPT ![j] = Nothing], rivals' = [rivals EXCEPT ![j] = {}]
    PROVE  ShareInv'
<1>1. \A k \in Jobs, m \in Markets : held'[k][m] = IF k = j THEN 0 ELSE held[k][m]
  BY DEF Nothing, RefInv, TypeInv, TypeOK
<1>2. \A k \in Jobs \ {j} : rivals'[k] = rivals[k]
  BY DEF RefInv, TypeInv, TypeOK
<1> QED BY <1>1, <1>2 DEF ShareInv, Shared, Overtaken

LEMMA ShareNext == RefInv /\ ShareInv /\ [Next]_vars => ShareInv'
<1> SUFFICES ASSUME RefInv, ShareInv, [Next]_vars PROVE ShareInv'
  OBVIOUS
<1> DEFINE Quiet == UNCHANGED <<rowOf, held, rivals>>
<1>0. ASSUME Quiet PROVE ShareInv'
  BY <1>0 DEF ShareInv, Shared, Overtaken
<1>1. ASSUME UNCHANGED vars PROVE ShareInv'
  BY <1>1, <1>0 DEF vars, local, tables
<1>2. ASSUME NEW m \in Markets, VenueMoves(m) PROVE ShareInv'
  BY <1>2, <1>0 DEF VenueMoves, tables
<1>3. ASSUME NEW j \in Jobs, StartFull(j) PROVE ShareInv'
  BY <1>3, <1>0 DEF StartFull, tables
<1>4. ASSUME NEW j \in Jobs, StartDev(j) PROVE ShareInv'
  BY <1>4, <1>0 DEF StartDev, tables
<1>5. ASSUME NEW j \in Jobs, StartDelta(j) PROVE ShareInv'
  BY <1>5, <1>0 DEF StartDelta, tables
<1>6. ASSUME NEW j \in Jobs, SeriesFail(j) PROVE ShareInv'
  BY <1>6, <1>0 DEF SeriesFail, tables
<1>7. ASSUME NEW j \in Jobs, NEW S \in SUBSET Series, SyncSeries(j, S) PROVE ShareInv'
  BY <1>7, <1>0 DEF SyncSeries, tables
<1>8. ASSUME NEW j \in Jobs, NEW S \in SUBSET Series, SyncDevSeries(j, S) PROVE ShareInv'
  BY <1>8, <1>0 DEF SyncDevSeries, tables
<1>9. ASSUME NEW j \in Jobs, NEW P \in SUBSET todo[j], FetchEvents(j, P) PROVE ShareInv'
  <2>1. TakeInHand(j, MarketsOf(P)) /\ UNCHANGED rowOf
    BY <1>9 DEF FetchEvents, tables
  <2> QED BY <2>1, TakeInHandShares DEF MarketsOf
<1>10. ASSUME NEW j \in Jobs, NEW P \in SUBSET todo[j], FetchMarkets(j, P) PROVE ShareInv'
  <2> DEFINE M == {m \in P : EventOf[m] \in known[j]}
  <2>1. TakeInHand(j, M) /\ UNCHANGED rowOf
    BY <1>10 DEF FetchMarkets, tables
  <2>2. M \subseteq Markets
    BY <1>10 DEF FetchMarkets, RefInv, TypeInv, TodoTyped
  <2> QED BY <2>1, <2>2, TakeInHandShares
<1>11. ASSUME NEW j \in Jobs, NEW P \in SUBSET todo[j], FetchOpenEvents(j, P) PROVE ShareInv'
  BY <1>11, <1>0 DEF FetchOpenEvents, tables
<1>12. ASSUME NEW j \in Jobs, FetchFails(j) PROVE ShareInv'
  BY <1>12, <1>0 DEF FetchFails, tables
<1>13. ASSUME NEW j \in Jobs, NEW s \in Series, FetchOpenFails(j, s) PROVE ShareInv'
  BY <1>13, <1>0 DEF FetchOpenFails, tables
<1>14. ASSUME NEW j \in Jobs, NEW e \in page[j], FetchNested(j, e) PROVE ShareInv'
  <2>1. PICK M \in SUBSET Markets : TakeInHand(j, M)
    BY <1>14 DEF FetchNested, MarketsOf
  <2>2. UNCHANGED rowOf
    BY <1>14 DEF FetchNested, tables
  <2> QED BY <2>1, <2>2, TakeInHandShares
<1>15. ASSUME NEW j \in Jobs, NEW e \in page[j], FetchNestedFails(j, e) PROVE ShareInv'
  BY <1>15, <1>0 DEF FetchNestedFails, tables
<1>16. ASSUME NEW j \in Jobs, NEW S \in SUBSET page[j], UpsertEvents(j, S) PROVE ShareInv'
  <2>1. \A k \in Jobs, m \in Markets :
            held'[k][m] = IF k = j /\ EventOf[m] \notin S THEN 0 ELSE held[k][m]
    BY <1>16 DEF UpsertEvents, RefInv, TypeInv, TypeOK
  <2>2. \A k \in Jobs, m \in Markets :
            m \in rivals[k] /\ (k # j \/ EventOf[m] \in S) => m \in rivals'[k]
    BY <1>16 DEF UpsertEvents, RefInv, TypeInv, TypeOK
  <2>3. UNCHANGED rowOf
    BY <1>16 DEF UpsertEvents
  <2> QED BY <2>1, <2>2, <2>3 DEF ShareInv, Shared, Overtaken
<1>17. ASSUME NEW j \in Jobs, MarketsBatch(j) PROVE ShareInv'
  BY <1>17, WriteMarketsShares DEF MarketsBatch
<1>18. ASSUME NEW j \in Jobs, MarketsBatchFails(j) PROVE ShareInv'
  BY <1>18, <1>0 DEF MarketsBatchFails, tables
<1>19. ASSUME NEW j \in Jobs, NEW m \in left[j], MarketRow(j, m) PROVE ShareInv'
  <2>1. m \in Held(j)
    BY <1>19 DEF MarketRow, RefInv, LinkInv, LeftToWrite, TypeInv, LeftTyped, Held
  <2> QED BY <1>19, <2>1, WriteMarketsShares DEF MarketRow
<1>20. ASSUME NEW j \in Jobs, NEW m \in left[j], SkipMarketRow(j, m) PROVE ShareInv'
  BY <1>20, <1>0 DEF SkipMarketRow, tables
<1>21. ASSUME NEW j \in Jobs, OutcomesBatch(j) PROVE ShareInv'
  BY <1>21, ReleaseShares DEF OutcomesBatch, Release
<1>22. ASSUME NEW j \in Jobs, OutcomesBatchFails(j) PROVE ShareInv'
  BY <1>22, <1>0 DEF OutcomesBatchFails, tables
<1>23. ASSUME NEW j \in Jobs, NEW r \in left[j], OutcomeRow(j, r) PROVE ShareInv'
  BY <1>23, <1>0 DEF OutcomeRow, tables
<1>24. ASSUME NEW j \in Jobs, NEW r \in left[j], SkipOutcomeRow(j, r) PROVE ShareInv'
  BY <1>24, <1>0 DEF SkipOutcomeRow, tables
<1>25. ASSUME NEW j \in Jobs, NextPage(j) PROVE ShareInv'
  BY <1>25, ReleaseShares DEF NextPage, Release, tables
<1>26. ASSUME NEW j \in Jobs, FinishRun(j) PROVE ShareInv'
  BY <1>26, <1>0 DEF FinishRun, tables
<1>27. ASSUME NEW j \in Jobs, PublishTargets(j) PROVE ShareInv'
  BY <1>27, <1>0 DEF PublishTargets, tables
<1>28. ASSUME NEW j \in Jobs, RunDies(j) PROVE ShareInv'
  BY <1>28, ReleaseShares DEF RunDies, tables
<1>29. ASSUME NEW W \in SUBSET Markets, Restart(W) PROVE ShareInv'
  BY <1>29 DEF Restart, Nothing, ShareInv, Shared, Overtaken
<1> QED
  BY <1>1, <1>2, <1>3, <1>4, <1>5, <1>6, <1>7, <1>8, <1>9, <1>10, <1>11, <1>12, <1>13,
     <1>14, <1>15, <1>16, <1>17, <1>18, <1>19, <1>20, <1>21, <1>22, <1>23, <1>24, <1>25,
     <1>26, <1>27, <1>28, <1>29
     DEF Next, Proceeds, Fetches, Writes

LEMMA ShareInit == Init => ShareInv
BY DEF Init, ShareInv, Shared, Overtaken, Nothing

\* The rows a step writes, whatever the step.
LEMMA RowsWrittenFrom ==
    RefInv /\ [Next]_vars =>
        \/ UNCHANGED rowOf
        \/ \E j \in Jobs : \E M \in SUBSET Held(j) : WriteMarkets(j, M)
<1> SUFFICES ASSUME RefInv, [Next]_vars, rowOf' # rowOf
             PROVE  \E j \in Jobs : \E M \in SUBSET Held(j) : WriteMarkets(j, M)
  OBVIOUS
<1> DEFINE Puts(j) == MarketsBatch(j) \/ \E m \in left[j] : MarketRow(j, m)
<1> USE DEF tables
<1>1. ASSUME NEW j \in Jobs, Fetches(j) PROVE rowOf' = rowOf
  BY <1>1 DEF Fetches, FetchEvents, FetchMarkets, FetchOpenEvents, FetchFails, FetchOpenFails,
              FetchNested, FetchNestedFails
<1>2. ASSUME NEW j \in Jobs, Writes(j) PROVE rowOf' = rowOf \/ Puts(j)
  BY <1>2 DEF Writes, UpsertEvents, MarketsBatchFails, SkipMarketRow, OutcomesBatch,
              OutcomesBatchFails, OutcomeRow, SkipOutcomeRow
<1>3. ASSUME NEW j \in Jobs, Proceeds(j) PROVE rowOf' = rowOf \/ Puts(j)
  BY <1>1, <1>2, <1>3 DEF Proceeds, SeriesFail, SyncSeries, SyncDevSeries, NextPage, FinishRun,
                          PublishTargets
<1>4. ASSUME NEW j \in Jobs,
             StartFull(j) \/ StartDelta(j) \/ StartDev(j) \/ RunDies(j)
      PROVE  rowOf' = rowOf
  BY <1>4 DEF StartFull, StartDelta, StartDev, RunDies
<1>5. ASSUME (\E m \in Markets : VenueMoves(m)) \/ \E W \in SUBSET Markets : Restart(W)
      PROVE  rowOf' = rowOf
  BY <1>5 DEF VenueMoves, Restart
<1>6. PICK j \in Jobs : Puts(j)
  BY <1>3, <1>4, <1>5 DEF Next, vars
<1>7. CASE MarketsBatch(j)
  BY <1>7 DEF MarketsBatch
<1>8. ASSUME NEW m \in left[j], MarketRow(j, m)
      PROVE  \E M \in SUBSET Held(j) : WriteMarkets(j, M)
  <2>1. m \in Held(j)
    BY <1>8 DEF MarketRow, RefInv, LinkInv, LeftToWrite, TypeInv, LeftTyped, Held
  <2> QED BY <1>8, <2>1 DEF MarketRow
<1> QED BY <1>6, <1>7, <1>8

\* A market row goes back to an older answer only when two runs held the market,
\* and the market is a suspect from then on.
THEOREM RowsGoForward == Spec => GoesBackOnlyWhenShared
<1>1. ASSUME RefInv, ShareInv, [Next]_vars, NEW m \in Markets, rowOf'[m] < rowOf[m]
      PROVE  m \in suspect'
  <2>1. rowOf[m] \in Nat
    BY <1>1 DEF RefInv, TypeInv, TypeOK, States
  <2>2. rowOf' # rowOf
    BY <1>1, <2>1
  <2>3. PICK j \in Jobs : \E M \in SUBSET Held(j) : WriteMarkets(j, M)
    BY <1>1, <2>2, RowsWrittenFrom
  <2>4. PICK M \in SUBSET Held(j) : WriteMarkets(j, M)
    BY <2>3
  <2>5. m \in M /\ rowOf'[m] = held[j][m] /\ held[j][m] # 0
    BY <1>1, <2>1, <2>4 DEF WriteMarkets, Held
  <2>6. m \in rivals[j]
    BY <1>1, <2>5 DEF ShareInv, Overtaken
  <2> QED BY <2>4, <2>5, <2>6 DEF WriteMarkets
<1>2. RefInv /\ ShareInv /\ [Next]_vars
      => [\A m \in Markets : rowOf'[m] < rowOf[m] => m \in suspect']_vars
  BY <1>1
<1> QED
  BY <1>2, RefInit, RefNext, ShareInit, ShareNext, PTL DEF Spec, GoesBackOnlyWhenShared

-----------------------------------------------------------------------------
(* Windows.  A row that is behind is in the window or suspect, and for each  *)
(* delta run in flight it is suspect, has changed since the run began, is to *)
(* be fetched by it, or is in its hands with the current answer: what the    *)
(* run leaves as the next window when it ends is enough.                     *)
Behind(m) == rowOf[m] < venue[m]

InHand(d, m) ==
    /\ held[d][m] = venue[m]
    /\ step[d] = "markets" \/ (step[d] = "marketrows" /\ m \in left[d])

WindowInv == \A m \in Markets : Behind(m) => m \in window \cup suspect

RunInv ==
    \A d \in Delta, m \in Markets :
        step[d] # "idle" /\ Behind(m) =>
            m \in suspect \cup fresh[d] \cup todo[d] \/ InHand(d, m)

StaleInv == WindowInv /\ RunInv

LEMMA StaleInit == Init => StaleInv
<1> SUFFICES ASSUME Init PROVE StaleInv
  OBVIOUS
<1>1. \A m \in Markets : Behind(m) => m \in suspect
  BY DEF Init, Behind, Nothing
<1> QED BY <1>1 DEF StaleInv, WindowInv, RunInv

\* Writing leaves a market behind only if it was, or as a suspect.
LEMMA WriteMarketsStale ==
    ASSUME RefInv, ShareInv, NEW j \in Jobs, NEW M \in SUBSET Held(j),
           WriteMarkets(j, M), UNCHANGED <<venue, held, rivals>>
    PROVE  /\ \A m \in Markets :
                 Behind(m)' => m \in suspect' \/ (Behind(m) /\ m \notin suspect)
           /\ \A m \in M : held[j][m] = venue[m] => ~ Behind(m)'
<1>1. \A m \in Markets : rowOf'[m] = IF m \in M THEN held[j][m] ELSE rowOf[m]
  BY DEF WriteMarkets
<1>2. M \subseteq Markets /\ \A m \in M : held[j][m] # 0
  BY DEF Held
<1>3. \A m \in Markets : held[j][m] \in Nat /\ rowOf[m] \in Nat /\ venue[m] \in Nat
                         /\ rowOf[m] <= venue[m] /\ held[j][m] <= venue[m]
  BY DEF RefInv, LinkInv, Referential, HeldReported, TypeInv, TypeOK, States
<1>4. \A m \in M : held[j][m] = venue[m] => ~ Behind(m)'
  BY <1>1, <1>2, <1>3 DEF Behind
<1>5. ASSUME NEW m \in Markets, Behind(m)', m \notin suspect'
      PROVE  Behind(m) /\ m \notin suspect
  <2>1. CASE m \notin M
    BY <1>1, <1>5, <2>1 DEF Behind, WriteMarkets
  <2>2. CASE m \in M
    <3>1. m \notin rivals[j]
      BY <1>5, <2>2 DEF WriteMarkets
    <3>2. rowOf[m] <= held[j][m]
      BY <1>2, <1>3, <2>2, <3>1 DEF ShareInv, Overtaken
    <3>3. held[j][m] # venue[m]
      BY <1>4, <1>5, <2>2
    <3> QED BY <1>3, <1>5, <2>2, <3>2, <3>3 DEF Behind, WriteMarkets
  <2> QED BY <2>1, <2>2
<1> QED BY <1>4, <1>5

LEMMA StaleNext == RefInv /\ ShareInv /\ StaleInv /\ [Next]_vars => StaleInv'
<1> SUFFICES ASSUME RefInv, ShareInv, StaleInv, [Next]_vars PROVE StaleInv'
  OBVIOUS
<1>30. /\ step \in [Jobs -> {"idle", "series", "fetch", "events", "nested", "markets",
                             "marketrows", "outcomes", "outcomerows"}]
      /\ todo \in [Jobs -> SUBSET (Events \cup Markets)]
      /\ held \in [Jobs -> [Markets -> States]]
      /\ left \in [Jobs -> SUBSET (Markets \cup (Markets \X Sides))]
      /\ fresh \in [Jobs -> SUBSET Markets]
      /\ venue \in [Markets -> States]
      /\ rowOf \in [Markets -> States]
  BY DEF RefInv, TypeInv, TypeOK
<1>31. Delta \subseteq Jobs /\ DeltaSteps /\ Full \cap Delta = {} /\ Dev \cap Delta = {}
  BY DEF RefInv, LinkInv, Jobs
<1> USE <1>30, <1>31 DEF StaleInv, WindowInv, RunInv, InHand, Behind, DeltaSteps, tables
<1>1. ASSUME UNCHANGED vars PROVE StaleInv'
  BY <1>1 DEF vars, local
<1>2. ASSUME NEW m \in Markets, VenueMoves(m) PROVE StaleInv'
  BY <1>2 DEF VenueMoves, States
<1>3. ASSUME NEW j \in Jobs, StartFull(j) PROVE StaleInv'
  BY <1>3 DEF StartFull
<1>4. ASSUME NEW j \in Jobs, StartDev(j) PROVE StaleInv'
  BY <1>4 DEF StartDev
<1>5. ASSUME NEW j \in Jobs, StartDelta(j) PROVE StaleInv'
  BY <1>5 DEF StartDelta
<1>6. ASSUME NEW j \in Jobs, SeriesFail(j) PROVE StaleInv'
  BY <1>6 DEF SeriesFail
<1>7. ASSUME NEW j \in Jobs, NEW S \in SUBSET Series, SyncSeries(j, S) PROVE StaleInv'
  BY <1>7 DEF SyncSeries
<1>8. ASSUME NEW j \in Jobs, NEW S \in SUBSET Series, SyncDevSeries(j, S) PROVE StaleInv'
  BY <1>8 DEF SyncDevSeries
<1>9. ASSUME NEW j \in Jobs, NEW P \in SUBSET todo[j], FetchEvents(j, P) PROVE StaleInv'
  BY <1>9 DEF FetchEvents, TakeInHand
<1>10. ASSUME NEW j \in Jobs, NEW P \in SUBSET todo[j], FetchMarkets(j, P) PROVE StaleInv'
  BY <1>10 DEF FetchMarkets, TakeInHand, IsPage, RefInv, TypeInv, TodoTyped
<1>11. ASSUME NEW j \in Jobs, NEW P \in SUBSET todo[j], FetchOpenEvents(j, P) PROVE StaleInv'
  BY <1>11 DEF FetchOpenEvents
<1>12. ASSUME NEW j \in Jobs, FetchFails(j) PROVE StaleInv'
  BY <1>12 DEF FetchFails
<1>13. ASSUME NEW j \in Jobs, NEW s \in Series, FetchOpenFails(j, s) PROVE StaleInv'
  BY <1>13 DEF FetchOpenFails
<1>14. ASSUME NEW j \in Jobs, NEW e \in page[j], FetchNested(j, e) PROVE StaleInv'
  BY <1>14 DEF FetchNested, TakeInHand
<1>15. ASSUME NEW j \in Jobs, NEW e \in page[j], FetchNestedFails(j, e) PROVE StaleInv'
  BY <1>15 DEF FetchNestedFails
<1>16. ASSUME NEW j \in Jobs, NEW S \in SUBSET page[j], UpsertEvents(j, S) PROVE StaleInv'
  BY <1>16 DEF UpsertEvents
<1>17. ASSUME NEW j \in Jobs, MarketsBatch(j) PROVE StaleInv'
  <2>1. /\ WriteMarkets(j, Held(j))
        /\ step' = [step EXCEPT ![j] = "outcomes"]
        /\ UNCHANGED <<venue, held, rivals, window, fresh, todo, left>>
    BY <1>17 DEF MarketsBatch
  <2>2. /\ \A m \in Markets :
              Behind(m)' => m \in suspect' \/ (Behind(m) /\ m \notin suspect)
        /\ \A m \in Held(j) : held[j][m] = venue[m] => ~ Behind(m)'
    BY <2>1, WriteMarketsStale
  <2>3. \A m \in Markets : Behind(m) /\ held[j][m] = venue[m] => m \in Held(j)
    BY DEF Held, States
  <2>4. WindowInv'
    BY <2>1, <2>2
  <2>5. ASSUME NEW d \in Delta, NEW m \in Markets, step'[d] # "idle", Behind(m)'
        PROVE  m \in suspect' \cup fresh'[d] \cup todo'[d] \/ InHand(d, m)'
    <3>1. CASE d # j
      BY <2>1, <2>2, <2>5, <3>1
    <3>2. CASE d = j
      BY <2>1, <2>2, <2>3, <2>5, <3>2, <1>17 DEF MarketsBatch, AllFetched
    <3> QED BY <3>1, <3>2
  <2> QED BY <2>4, <2>5
<1>18. ASSUME NEW j \in Jobs, MarketsBatchFails(j) PROVE StaleInv'
  BY <1>18 DEF MarketsBatchFails, AllFetched, Held, States
<1>19. ASSUME NEW j \in Jobs, NEW m \in left[j], MarketRow(j, m) PROVE StaleInv'
  <2>1. m \in Held(j) /\ step[j] = "marketrows"
    BY <1>19 DEF MarketRow, RefInv, LinkInv, LeftToWrite, TypeInv, LeftTyped, Held
  <2>2. /\ WriteMarkets(j, {m})
        /\ left' = [left EXCEPT ![j] = @ \ {m}]
        /\ UNCHANGED <<venue, held, rivals, window, fresh, todo, step>>
    BY <1>19 DEF MarketRow
  <2>3. /\ \A n \in Markets :
              Behind(n)' => n \in suspect' \/ (Behind(n) /\ n \notin suspect)
        /\ held[j][m] = venue[m] => ~ Behind(m)'
    BY <2>1, <2>2, WriteMarketsStale
  <2> QED BY <2>1, <2>2, <2>3
<1>20. ASSUME NEW j \in Jobs, NEW m \in left[j], SkipMarketRow(j, m) PROVE StaleInv'
  BY <1>20 DEF SkipMarketRow
<1>21. ASSUME NEW j \in Jobs, OutcomesBatch(j) PROVE StaleInv'
  BY <1>21 DEF OutcomesBatch, Release, Nothing, RowsWritten
<1>22. ASSUME NEW j \in Jobs, OutcomesBatchFails(j) PROVE StaleInv'
  BY <1>22 DEF OutcomesBatchFails, RowsWritten
<1>23. ASSUME NEW j \in Jobs, NEW r \in left[j], OutcomeRow(j, r) PROVE StaleInv'
  BY <1>23 DEF OutcomeRow
<1>24. ASSUME NEW j \in Jobs, NEW r \in left[j], SkipOutcomeRow(j, r) PROVE StaleInv'
  BY <1>24 DEF SkipOutcomeRow
<1>25. ASSUME NEW j \in Jobs, NextPage(j) PROVE StaleInv'
  BY <1>25 DEF NextPage, Release, AllFetched, Nothing, Held, States
<1>26. ASSUME NEW j \in Jobs, FinishRun(j) PROVE StaleInv'
  BY <1>26 DEF FinishRun
<1>27. ASSUME NEW j \in Jobs, PublishTargets(j) PROVE StaleInv'
  BY <1>27 DEF PublishTargets
<1>28. ASSUME NEW j \in Jobs, RunDies(j) PROVE StaleInv'
  BY <1>28 DEF RunDies, Nothing
<1>29. ASSUME NEW W \in SUBSET Markets, Restart(W) PROVE StaleInv'
  BY <1>29 DEF Restart, Nothing
<1> QED
  BY <1>1, <1>2, <1>3, <1>4, <1>5, <1>6, <1>7, <1>8, <1>9, <1>10, <1>11, <1>12, <1>13,
     <1>14, <1>15, <1>16, <1>17, <1>18, <1>19, <1>20, <1>21, <1>22, <1>23, <1>24, <1>25,
     <1>26, <1>27, <1>28, <1>29
     DEF Next, Proceeds, Fetches, Writes

\* A row that is behind Kalshi is asked for by the next delta run, unless it is a
\* suspect: no update falls between two windows, for any number of runs in flight.
THEOREM NothingBetweenWindows == Spec => []StaleIsAccounted
<1>1. StaleInv => StaleIsAccounted
  BY DEF StaleInv, WindowInv, StaleIsAccounted, Behind
<1> QED
  BY <1>1, RefInit, RefNext, ShareInit, ShareNext, StaleInit, StaleNext, PTL DEF Spec

-----------------------------------------------------------------------------
(* Agreement of outcome rows with market rows.  Between its two statements a *)
(* run holds what the market row says, or knows a rival; in the fallback the *)
(* outcome rows that are done with agree, or their market is a suspect.      *)
RowsDone(j, m) ==
    \/ step[j] \in {"outcomes", "outcomerows"}
    \/ step[j] = "marketrows" /\ m \notin left[j]

HeldIsRow ==
    \A j \in Jobs, m \in Markets :
        held[j][m] # 0 /\ RowsDone(j, m) =>
            held[j][m] = rowOf[m] \/ m \in suspect \cup rivals[j]

SidesDone ==
    \A j \in Jobs, m \in Markets, s \in Sides :
        held[j][m] # 0 /\ step[j] = "outcomerows" /\ <<m, s>> \notin left[j] =>
            outcomeOf[m][s] = rowOf[m] \/ m \in suspect

AgreeInv == HeldIsRow /\ SidesDone /\ OutcomesAgree

LEMMA AgreeInit == Init => AgreeInv
BY DEF Init, AgreeInv, HeldIsRow, SidesDone, OutcomesAgree, Nothing

\* Whoever else holds a market that is written, it is a suspect then.
LEMMA WriteMarketsAgree ==
    ASSUME RefInv, ShareInv, AgreeInv, NEW j \in Jobs, NEW M \in SUBSET Held(j),
           WriteMarkets(j, M), UNCHANGED <<outcomeOf, held, rivals>>,
           step[j] \in {"markets", "nested", "marketrows"},
           step'[j] \in {"outcomes", "marketrows"},
           M = Held(j) \/ step[j] = "marketrows",
           \A k \in Jobs \ {j} : step'[k] = step[k] /\ left'[k] = left[k],
           \A m \in Held(j) \ M : RowsDone(j, m)' => RowsDone(j, m)
    PROVE  AgreeInv'
<1>1. \A m \in Markets : rowOf'[m] = IF m \in M THEN held[j][m] ELSE rowOf[m]
  BY DEF WriteMarkets
<1>2. M \subseteq Markets /\ \A m \in M : held[j][m] # 0
  BY DEF Held
<1>3. \A k \in Jobs \ {j}, m \in M : held[k][m] # 0 => m \in suspect'
  BY <1>2 DEF ShareInv, Shared, WriteMarkets
<1>4. \A m \in Markets \ M : rowOf'[m] = rowOf[m] /\ (m \in suspect => m \in suspect')
  BY <1>1 DEF WriteMarkets
<1>5. ASSUME NEW k \in Jobs, NEW m \in Markets, held[k][m] # 0, RowsDone(k, m)'
      PROVE  held[k][m] = rowOf'[m] \/ m \in suspect' \cup rivals[k]
  <2>1. CASE k # j /\ m \in M
    BY <1>3, <1>5, <2>1
  <2>2. CASE k # j /\ m \notin M
    <3>1. RowsDone(k, m)
      BY <1>5, <2>2 DEF RowsDone
    <3> QED BY <1>4, <1>5, <2>2, <3>1 DEF AgreeInv, HeldIsRow
  <2>3. CASE k = j /\ m \in M
    BY <1>1, <2>3
  <2>4. CASE k = j /\ m \notin M
    <3>1. RowsDone(j, m)
      BY <1>5, <2>4 DEF Held
    <3> QED BY <1>4, <1>5, <2>4, <3>1 DEF AgreeInv, HeldIsRow
  <2> QED BY <2>1, <2>2, <2>3, <2>4
<1>6. HeldIsRow'
  BY <1>5 DEF HeldIsRow
<1>7. ASSUME NEW k \in Jobs, NEW m \in Markets, NEW s \in Sides, held[k][m] # 0,
             step'[k] = "outcomerows", <<m, s>> \notin left'[k]
      PROVE  outcomeOf[m][s] = rowOf'[m] \/ m \in suspect'
  <2>1. k # j
    BY <1>7
  <2>2. CASE m \in M
    BY <1>3, <1>7, <2>1, <2>2
  <2>3. CASE m \notin M
    BY <1>4, <1>7, <2>1, <2>3 DEF AgreeInv, SidesDone
  <2> QED BY <2>2, <2>3
<1>8. SidesDone'
  BY <1>7 DEF SidesDone
<1>9. ASSUME NEW m \in Markets, NEW s \in Sides
      PROVE  \/ outcomeOf'[m][s] = rowOf'[m]
             \/ m \in suspect'
             \/ \E k \in Jobs : m \in Held(k)'
                    /\ step'[k] \in {"marketrows", "outcomes", "outcomerows"}
  <2>1. CASE m \in M
    <3>1. m \in Held(j)' /\ step'[j] \in {"marketrows", "outcomes", "outcomerows"}
      BY <1>2, <2>1 DEF Held
    <3> QED BY <3>1
  <2>2. CASE m \notin M
    <3>1. CASE outcomeOf[m][s] = rowOf[m] \/ m \in suspect
      BY <1>4, <2>2, <3>1
    <3>2. ASSUME NEW k \in Jobs, m \in Held(k),
                 step[k] \in {"marketrows", "outcomes", "outcomerows"}
          PROVE  m \in Held(k)' /\ step'[k] \in {"marketrows", "outcomes", "outcomerows"}
      BY <2>2, <3>2 DEF Held
    <3>3. \/ outcomeOf[m][s] = rowOf[m] \/ m \in suspect
          \/ \E k \in Jobs : m \in Held(k)
                 /\ step[k] \in {"marketrows", "outcomes", "outcomerows"}
      BY DEF AgreeInv, OutcomesAgree
    <3> QED BY <3>1, <3>2, <3>3
  <2> QED BY <2>1, <2>2
<1>10. OutcomesAgree'
  BY <1>9 DEF OutcomesAgree
<1> QED BY <1>6, <1>8, <1>10 DEF AgreeInv

LEMMA AgreeNext == RefInv /\ ShareInv /\ AgreeInv /\ [Next]_vars => AgreeInv'
<1> SUFFICES ASSUME RefInv, ShareInv, AgreeInv, [Next]_vars PROVE AgreeInv'
  OBVIOUS
<1>30. /\ step \in [Jobs -> {"idle", "series", "fetch", "events", "nested", "markets",
                             "marketrows", "outcomes", "outcomerows"}]
      /\ held \in [Jobs -> [Markets -> States]]
      /\ left \in [Jobs -> SUBSET (Markets \cup (Markets \X Sides))]
      /\ rivals \in [Jobs -> SUBSET Markets]
      /\ rowOf \in [Markets -> States]
      /\ outcomeOf \in [Markets -> [Sides -> States]]
  BY DEF RefInv, TypeInv, TypeOK
<1> USE <1>30 DEF AgreeInv, HeldIsRow, SidesDone, OutcomesAgree, RowsDone, Held, tables
<1>1. ASSUME UNCHANGED vars PROVE AgreeInv'
  BY <1>1 DEF vars, local
<1>2. ASSUME NEW m \in Markets, VenueMoves(m) PROVE AgreeInv'
  BY <1>2 DEF VenueMoves, States
<1>3. ASSUME NEW j \in Jobs, StartFull(j) PROVE AgreeInv'
  BY <1>3 DEF StartFull
<1>4. ASSUME NEW j \in Jobs, StartDev(j) PROVE AgreeInv'
  BY <1>4 DEF StartDev
<1>5. ASSUME NEW j \in Jobs, StartDelta(j) PROVE AgreeInv'
  BY <1>5 DEF StartDelta
<1>6. ASSUME NEW j \in Jobs, SeriesFail(j) PROVE AgreeInv'
  BY <1>6 DEF SeriesFail
<1>7. ASSUME NEW j \in Jobs, NEW S \in SUBSET Series, SyncSeries(j, S) PROVE AgreeInv'
  <2>1. /\ step[j] = "series"
        /\ UNCHANGED <<rowOf, outcomeOf, held, left, rivals, suspect>>
    BY <1>7 DEF SyncSeries
  <2>2. \/ step' = [step EXCEPT ![j] = "idle"]
        \/ step' = [step EXCEPT ![j] = "fetch"]
    BY <1>7 DEF SyncSeries
  <2>3. CASE step' = [step EXCEPT ![j] = "idle"]
    BY <2>1, <2>3
  <2>4. CASE step' = [step EXCEPT ![j] = "fetch"]
    BY <2>1, <2>4
  <2> QED BY <2>2, <2>3, <2>4
<1>8. ASSUME NEW j \in Jobs, NEW S \in SUBSET Series, SyncDevSeries(j, S) PROVE AgreeInv'
  BY <1>8 DEF SyncDevSeries
<1>9. ASSUME NEW j \in Jobs, NEW P \in SUBSET todo[j], FetchEvents(j, P) PROVE AgreeInv'
  BY <1>9 DEF FetchEvents, TakeInHand, IsNextPage, IsPage
<1>10. ASSUME NEW j \in Jobs, NEW P \in SUBSET todo[j], FetchMarkets(j, P) PROVE AgreeInv'
  BY <1>10 DEF FetchMarkets, TakeInHand, IsPage
<1>11. ASSUME NEW j \in Jobs, NEW P \in SUBSET todo[j], FetchOpenEvents(j, P) PROVE AgreeInv'
  <2>1. /\ step[j] = "fetch" /\ step' = [step EXCEPT ![j] = "events"]
        /\ UNCHANGED <<rowOf, outcomeOf, held, left, rivals, suspect>>
    BY <1>11 DEF FetchOpenEvents, IsPage
  <2> QED BY <2>1
<1>12. ASSUME NEW j \in Jobs, FetchFails(j) PROVE AgreeInv'
  BY <1>12 DEF FetchFails
<1>13. ASSUME NEW j \in Jobs, NEW s \in Series, FetchOpenFails(j, s) PROVE AgreeInv'
  BY <1>13 DEF FetchOpenFails
<1>14. ASSUME NEW j \in Jobs, NEW e \in page[j], FetchNested(j, e) PROVE AgreeInv'
  BY <1>14 DEF FetchNested, TakeInHand
<1>15. ASSUME NEW j \in Jobs, NEW e \in page[j], FetchNestedFails(j, e) PROVE AgreeInv'
  BY <1>15 DEF FetchNestedFails
<1>16. ASSUME NEW j \in Jobs, NEW S \in SUBSET page[j], UpsertEvents(j, S) PROVE AgreeInv'
  BY <1>16 DEF UpsertEvents
<1>17. ASSUME NEW j \in Jobs, MarketsBatch(j) PROVE AgreeInv'
  <2>1. /\ WriteMarkets(j, Held(j)) /\ step[j] \in {"markets", "nested"}
        /\ step' = [step EXCEPT ![j] = "outcomes"]
        /\ UNCHANGED <<outcomeOf, held, rivals, left>>
    BY <1>17 DEF MarketsBatch, AllFetched
  <2> HIDE DEF AgreeInv, RowsDone, Held
  <2> QED BY <2>1, WriteMarketsAgree
<1>18. ASSUME NEW j \in Jobs, MarketsBatchFails(j) PROVE AgreeInv'
  BY <1>18 DEF MarketsBatchFails, AllFetched
<1>19. ASSUME NEW j \in Jobs, NEW m \in left[j], MarketRow(j, m) PROVE AgreeInv'
  <2>1. m \in Held(j) /\ step[j] = "marketrows"
    BY <1>19 DEF MarketRow, RefInv, LinkInv, LeftToWrite, TypeInv, LeftTyped
  <2>2. /\ WriteMarkets(j, {m})
        /\ left' = [left EXCEPT ![j] = @ \ {m}]
        /\ UNCHANGED <<outcomeOf, held, rivals, step>>
    BY <1>19 DEF MarketRow
  <2>3. \A n \in Held(j) \ {m} : RowsDone(j, n)' => RowsDone(j, n)
    BY <2>1, <2>2
  <2> HIDE DEF AgreeInv, RowsDone, Held
  <2> QED BY <2>1, <2>2, <2>3, WriteMarketsAgree
<1>20. ASSUME NEW j \in Jobs, NEW m \in left[j], SkipMarketRow(j, m) PROVE AgreeInv'
  BY <1>20 DEF SkipMarketRow
<1>21. ASSUME NEW j \in Jobs, OutcomesBatch(j) PROVE AgreeInv'
  BY <1>21 DEF OutcomesBatch, Release, Nothing, RowsWritten, WriteOutcomes, RefInv, LinkInv,
               Referential
<1>22. ASSUME NEW j \in Jobs, OutcomesBatchFails(j) PROVE AgreeInv'
  BY <1>22 DEF OutcomesBatchFails, RowsWritten, RefInv, LinkInv, Referential
<1>23. ASSUME NEW j \in Jobs, NEW r \in left[j], OutcomeRow(j, r) PROVE AgreeInv'
  <2>1. PICK m \in Markets, s \in Sides : r = <<m, s>>
    BY <1>23 DEF OutcomeRow, RefInv, TypeInv, LeftTyped
  <2>2. /\ step[j] = "outcomerows" /\ held[j][m] # 0
        /\ left' = [left EXCEPT ![j] = @ \ {r}]
        /\ suspect' = suspect \cup ({m} \cap rivals[j])
        /\ UNCHANGED <<rowOf, step, held, rivals>>
    BY <1>23, <2>1 DEF OutcomeRow, RefInv, LinkInv, LeftToWrite
  <2>3. \A n \in Markets, t \in Sides :
            outcomeOf'[n][t] = IF n = m /\ t = s THEN held[j][m] ELSE outcomeOf[n][t]
    BY <1>23, <2>1 DEF OutcomeRow, WriteOutcomes
  <2>4. held[j][m] = rowOf[m] \/ m \in suspect'
    BY <2>2
  <2>5. HeldIsRow'
    BY <2>2
  <2>6. SidesDone'
    BY <2>1, <2>2, <2>3, <2>4
  <2>7. OutcomesAgree'
    BY <2>2, <2>3, <2>4
  <2> QED BY <2>5, <2>6, <2>7
<1>24. ASSUME NEW j \in Jobs, NEW r \in left[j], SkipOutcomeRow(j, r) PROVE AgreeInv'
  BY <1>24 DEF SkipOutcomeRow
<1>25. ASSUME NEW j \in Jobs, NextPage(j) PROVE AgreeInv'
  <2>1. \A k \in Jobs, m \in Markets :
            held'[k][m] = IF k = j THEN 0 ELSE held[k][m]
    BY <1>25 DEF NextPage, Release, Nothing
  <2>2. /\ \A k \in Jobs \ {j} : step'[k] = step[k] /\ rivals'[k] = rivals[k]
        /\ UNCHANGED <<rowOf, outcomeOf, left, suspect>>
    BY <1>25 DEF NextPage, Release
  <2>3. HeldIsRow' /\ SidesDone'
    BY <2>1, <2>2
  <2>4. \A m \in Markets, s \in Sides : held[j][m] # 0 /\ step[j] = "outcomerows" =>
            outcomeOf[m][s] = rowOf[m] \/ m \in suspect
    BY <1>25 DEF NextPage, AllFetched
  <2>5. ASSUME NEW m \in Markets, NEW s \in Sides,
               outcomeOf[m][s] # rowOf[m], m \notin suspect
        PROVE  \E k \in Jobs : m \in Held(k)'
                  /\ step'[k] \in {"marketrows", "outcomes", "outcomerows"}
    <3>1. PICK k \in Jobs : m \in Held(k)
                /\ step[k] \in {"marketrows", "outcomes", "outcomerows"}
      BY <2>5
    <3>2. k # j
      BY <1>25, <2>4, <2>5, <3>1 DEF NextPage, AllFetched
    <3>3. held'[k][m] # 0 /\ step'[k] = step[k]
      BY <2>1, <2>2, <3>1, <3>2
    <3> QED BY <3>1, <3>3
  <2>6. OutcomesAgree'
    BY <2>2, <2>5
  <2> QED BY <2>3, <2>6
<1>26. ASSUME NEW j \in Jobs, FinishRun(j) PROVE AgreeInv'
  BY <1>26 DEF FinishRun
<1>27. ASSUME NEW j \in Jobs, PublishTargets(j) PROVE AgreeInv'
  BY <1>27 DEF PublishTargets
<1>28. ASSUME NEW j \in Jobs, RunDies(j) PROVE AgreeInv'
  BY <1>28 DEF RunDies, Nothing
<1>29. ASSUME NEW W \in SUBSET Markets, Restart(W) PROVE AgreeInv'
  BY <1>29 DEF Restart, Nothing
<1> QED
  BY <1>1, <1>2, <1>3, <1>4, <1>5, <1>6, <1>7, <1>8, <1>9, <1>10, <1>11, <1>12, <1>13,
     <1>14, <1>15, <1>16, <1>17, <1>18, <1>19, <1>20, <1>21, <1>22, <1>23, <1>24, <1>25,
     <1>26, <1>27, <1>28, <1>29
     DEF Next, Proceeds, Fetches, Writes

\* The outcome rows say what the market row says, except between two statements of
\* one run and for suspects, though four kinds of statements write them in any order.
THEOREM OutcomesFollowMarkets == Spec => []OutcomesAgree
<1>1. AgreeInv => OutcomesAgree
  BY DEF AgreeInv
<1> QED
  BY <1>1, RefInit, RefNext, ShareInit, ShareNext, AgreeInit, AgreeNext, PTL DEF Spec

=============================================================================
