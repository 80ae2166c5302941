------------------------ MODULE MarketResolutionProofs ------------------------
(***************************************************************************)
(* For any markets, any number of overlapping tasks and cron runs, and any *)
(* loss of messages, tasks and runs: the types, and the fact that the      *)
(* table never says more than Polymarket has reported.                     *)
(***************************************************************************)
EXTENDS MarketResolution, FiniteSetTheorems, TLAPS

-----------------------------------------------------------------------------
(* Types *)

\* updated_at stays a number of markets.
LEMMA TouchType ==
    ASSUME NEW S \in SUBSET Markets
    PROVE  Touch(S) \in [Markets -> Nat]
<1>1. ASSUME NEW T \in SUBSET Markets PROVE Cardinality(T) \in Nat
  BY FS_Subset, FS_CardinalityType, ConstantsAssumption
<1>2. Cardinality(Markets \ S) \in Nat
  BY <1>1
<1>3. ASSUME NEW m \in Markets
      PROVE Cardinality({n \in Markets \ S : updatedAt[n] < updatedAt[m]}) \in Nat
  BY <1>1
<1> QED
  BY <1>2, <1>3 DEF Touch

LEMMA VerdictType ==
    ASSUME NEW v \in Venues
    PROVE  Verdict(v) \in Writes
  BY ConstantsAssumption DEF Verdict, Writes, Venues, Statuses, Results

\* Each of the records a task goes through is one of Tasks.
LEMMA TaskTypes ==
    /\ IdleTask \in Tasks
    /\ \A j \in Jobs : TaskAt("select", j) \in Tasks
    /\ \A j \in Jobs, st \in Statuses : Checking(j, st) \in Tasks
    /\ \A j \in Jobs, w \in Writes : Writing(j, w) \in Tasks
  BY DEF Tasks, TaskAt, Checking, Writing

\* What a task knows at each of its steps.
LEMMA TaskFields ==
    ASSUME NEW t \in Tasks
    PROVE  /\ t.step = "select" => t.job \in Jobs
           /\ t.step = "gamma" => t.job \in Jobs /\ t.seen \in Statuses
           /\ t.step = "update" => t.job \in Jobs /\ t.write \in Writes
  BY DEF Tasks, IdleTask

LEMMA RunTypes ==
    ASSUME NEW step \in {"call", "update", "volume"},
           NEW seen \in [Markets -> Statuses], NEW todo \in SUBSET Markets,
           NEW updates \in SUBSET (Markets \X Writes),
           NEW volumes \in SUBSET Markets
    PROVE  Run(step, seen, todo, updates, volumes) \in Runs
  BY DEF Run, Runs

LEMMA RunFields ==
    ASSUME NEW q \in Runs, q.step # "idle"
    PROVE  /\ q.seen \in [Markets -> Statuses]
           /\ q.todo \in SUBSET Markets
           /\ q.updates \in SUBSET (Markets \X Writes)
           /\ q.volumes \in SUBSET Markets
  BY DEF Runs, NoRun

\* The status and result that a run writes for a market it changes come from
\* one of its updates.
LEMMA NewWriteType ==
    ASSUME NEW q, NEW m \in Changed(q)
    PROVE  NewWrite(q, m) \in Writes /\ <<m, NewWrite(q, m)>> \in q.updates
  BY DEF Changed, NewWrite

LEMMA KeptType ==
    ASSUME NEW seen \in [Markets -> Statuses], NEW S
    PROVE  Kept(seen, S) \in [Markets -> Statuses]
  BY DEF Kept, Statuses

LEMMA ChangesType ==
    ASSUME TypeOK, NEW A \in SUBSET Markets, NEW seen
    PROVE  Changes(A, seen) \in SUBSET (Markets \X Writes)
  BY VerdictType DEF Changes, TypeOK

LEMMA TypeInit == Init => TypeOK
<1> SUFFICES ASSUME Init PROVE TypeOK
  OBVIOUS
<1>1. IdleTask \in Tasks /\ NoRun \in Runs /\ NoSync \in Syncs
  BY DEF Tasks, Runs, Syncs
<1> QED
  BY <1>1 DEF Init, TypeOK, Venues, Statuses, Results

LEMMA TypeNext == TypeOK /\ [Next]_vars => TypeOK'
<1> SUFFICES ASSUME TypeOK, [Next]_vars PROVE TypeOK'
  OBVIOUS
<1>1. ASSUME NEW m \in Markets, VenueMoves(m) PROVE TypeOK'
  BY <1>1 DEF VenueMoves, TypeOK, rows, feed, Venues
<1>2. ASSUME NEW m \in Markets, MarketResolved(m) PROVE TypeOK'
  BY <1>2 DEF MarketResolved, TypeOK, rows
<1>3. ASSUME NEW m \in Markets, SettlementTrade(m) PROVE TypeOK'
  BY <1>3 DEF SettlementTrade, TypeOK, rows
<1>4. ASSUME NEW m \in Markets, SyncFetch(m) PROVE TypeOK'
  BY <1>4 DEF SyncFetch, TypeOK, rows, feed, Syncs
<1>5. ASSUME Ticker \/ TakeBatch \/ FlushFails PROVE TypeOK'
  BY <1>5 DEF Ticker, TakeBatch, FlushFails, TypeOK, rows, feed
<1>6. ASSUME Flushed PROVE TypeOK'
  <2>1. /\ {[path |-> "A", market |-> r[1], outcome |-> r[2]] : r \in wsResolutions}
              \subseteq Jobs
        /\ {[path |-> "B", market |-> m, outcome |-> "none"] : m \in candidates}
              \subseteq Jobs
    BY DEF TypeOK, Jobs, Results
  <2> QED
    BY <1>6, <2>1 DEF Flushed, TypeOK, rows
<1>7. ASSUME NEW s \in Slots, Acquire(s) PROVE TypeOK'
  BY <1>7, TaskTypes DEF Acquire, Becomes, TypeOK, rows, feed
<1>8. ASSUME NEW s \in Slots, SelectMarket(s) PROVE TypeOK'
  <2>1. task[s] \in Tasks /\ task[s].job \in Jobs
    BY <1>8, TaskFields DEF SelectMarket, TypeOK
  <2>2. task[s].job.market \in Markets /\ task[s].job.outcome \in Results
    BY <2>1 DEF Jobs
  <2>3. [status |-> "resolved", result |-> task[s].job.outcome] \in Writes
    BY <2>2 DEF Writes, Statuses
  <2>4. status[task[s].job.market] \in Statuses
    BY <2>2 DEF TypeOK
  <2>5. \E t \in Tasks : Becomes(s, t)
    BY <1>8, <2>1, <2>3, <2>4, TaskTypes DEF SelectMarket
  <2> QED
    BY <1>8, <2>5 DEF SelectMarket, Becomes, TypeOK, rows, feed
<1>9. ASSUME NEW s \in Slots, AskGamma(s) PROVE TypeOK'
  <2>1. task[s] \in Tasks /\ task[s].job \in Jobs
    BY <1>9, TaskFields DEF AskGamma, TypeOK
  <2>2. Verdict(venue[task[s].job.market]) \in Writes
    BY <2>1, VerdictType DEF Jobs, TypeOK
  <2>3. \E t \in Tasks : Becomes(s, t)
    BY <1>9, <2>1, <2>2, TaskTypes DEF AskGamma
  <2> QED
    BY <1>9, <2>3 DEF AskGamma, Becomes, TypeOK, rows, feed
<1>10. ASSUME NEW s \in Slots, UpdateMarket(s) PROVE TypeOK'
  <2>1. task[s].job \in Jobs /\ task[s].write \in Writes
    BY <1>10, TaskFields DEF UpdateMarket, TypeOK
  <2>2. /\ task[s].job.market \in Markets
        /\ task[s].write.status \in Statuses /\ task[s].write.result \in Results
    BY <2>1 DEF Jobs, Writes
  <2>3. Touch({task[s].job.market}) \in [Markets -> Nat]
    BY <2>2, TouchType
  <2> QED
    BY <1>10, <2>2, <2>3, TaskTypes DEF UpdateMarket, Becomes, TypeOK, feed
<1>11. ASSUME NEW s \in Slots, TaskFails(s) PROVE TypeOK'
  BY <1>11, TaskTypes DEF TaskFails, Becomes, TypeOK, rows, feed
<1>12. ASSUME NEW c \in Crons, CronSelect(c) PROVE TypeOK'
  <2>1. PICK S \in SUBSET Markets :
            cron' = [cron EXCEPT ![c] = Run("call", Kept(status, S), S, {}, {})]
    BY <1>12 DEF CronSelect
  <2>2. Run("call", Kept(status, S), S, {}, {}) \in Runs
    BY RunTypes, KeptType DEF TypeOK
  <2> QED
    BY <1>12, <2>1, <2>2 DEF CronSelect, TypeOK, rows, feed
<1>13. ASSUME NEW c \in Crons, NEW B \in SUBSET Markets, NEW A \in SUBSET B,
              CronCall(c, B, A)
       PROVE  TypeOK'
  <2> DEFINE q == cron[c]
             todo == q.todo \ B
             updates == q.updates \cup Changes(A, q.seen)
             next == IF todo # {} THEN "call"
                     ELSE IF updates # {} THEN "update" ELSE "volume"
  <2>1. q \in Runs /\ q.step # "idle"
    BY <1>13 DEF CronCall, TypeOK
  <2>2. Changes(A, q.seen) \in SUBSET (Markets \X Writes)
    BY ChangesType
  <2>3. /\ q.seen \in [Markets -> Statuses]
        /\ todo \in SUBSET Markets
        /\ updates \in SUBSET (Markets \X Writes)
        /\ q.volumes \cup A \in SUBSET Markets
    BY <2>1, <2>2, RunFields
  <2>4. next \in {"call", "update", "volume"}
    OBVIOUS
  <2>5. Run(next, Kept(q.seen, todo), todo, updates, q.volumes \cup A) \in Runs
    BY <2>3, <2>4, RunTypes, KeptType
  <2>6. cron' = [cron EXCEPT ![c] = Run(next, Kept(q.seen, todo), todo, updates, q.volumes \cup A)]
    BY <1>13 DEF CronCall
  <2> QED
    BY <1>13, <2>5, <2>6 DEF CronCall, TypeOK, rows, feed
<1>14. ASSUME NEW c \in Crons, CronUpdate(c) PROVE TypeOK'
  <2> DEFINE q == cron[c]
  <2>1. q \in Runs /\ q.step # "idle"
    BY <1>14 DEF CronUpdate, TypeOK
  <2>2. Run("volume", q.seen, {}, {}, q.volumes) \in Runs
    BY <2>1, RunFields, RunTypes
  <2>3. \A m \in Changed(q) : /\ NewWrite(q, m).status \in Statuses
                              /\ NewWrite(q, m).result \in Results
    BY NewWriteType DEF Writes
  <2>4. Touch(Changed(q)) \in [Markets -> Nat]
    BY TouchType DEF Changed
  <2> QED
    BY <1>14, <2>2, <2>3, <2>4 DEF CronUpdate, TypeOK, feed
<1>15. ASSUME NEW c \in Crons, CronVolume(c) PROVE TypeOK'
  <2>1. cron[c] \in Runs /\ cron[c].step # "idle"
    BY <1>15 DEF CronVolume, TypeOK
  <2>2. Touch(cron[c].volumes \cap Traded) \in [Markets -> Nat]
    BY <2>1, RunFields, TouchType
  <2>3. NoRun \in Runs
    BY DEF Runs
  <2> QED
    BY <1>15, <2>2, <2>3 DEF CronVolume, TypeOK, feed
<1>16. ASSUME NEW c \in Crons, CronAbort(c) PROVE TypeOK'
  <2>1. NoRun \in Runs
    BY DEF Runs
  <2> QED
    BY <1>16, <2>1 DEF CronAbort, TypeOK, rows, feed
<1>17. ASSUME Restart PROVE TypeOK'
  BY <1>17, TaskTypes DEF Restart, TypeOK, rows, Syncs
<1>18. ASSUME SyncUpsert PROVE TypeOK'
  <2>1. sync.market \in Markets /\ sync.status \in Statuses
    BY <1>18 DEF SyncUpsert, TypeOK, Syncs, NoSync, Statuses
  <2>2. Touch({sync.market}) \in [Markets -> Nat]
    BY <2>1, TouchType
  <2> QED
    BY <1>18, <2>1, <2>2 DEF SyncUpsert, TypeOK, feed, Syncs
<1>19. CASE UNCHANGED vars
  BY <1>19 DEF vars, TypeOK
<1> QED
  BY <1>1, <1>2, <1>3, <1>4, <1>5, <1>6, <1>7, <1>8, <1>9, <1>10, <1>11, <1>12,
     <1>13, <1>14, <1>15, <1>16, <1>17, <1>18, <1>19
  DEF Next, StreamStep, CronStep

\* Every variable keeps its type (the tasks of the stream, the runs of the cron).
THEOREM TypeCorrect == Spec => []TypeOK
  BY TypeInit, TypeNext, PTL DEF Spec

-----------------------------------------------------------------------------
(* Truth.  The three properties of the table are not inductive: a task or a  *)
(* cron run carries what it will write.  Backed says that of a write on its  *)
(* way, TableBacked of the rows, and TruthInv of everything on its way.      *)

\* Polymarket has reported what write w says about market m.
Backed(m, w) ==
    /\ w.result # "none" => w.result = venue[m]
    /\ w.status = "resolved" => w.result # "none"
    /\ w.status # "active" => venue[m] # "open"

\* A job of path A carries the winner.
JobTrue(j) ==
    j.path = "A" => j.outcome \in Outcomes /\ venue[j.market] = j.outcome

TableBacked == ResultTruthful /\ ResolvedHasWinner /\ NeverClosedEarly

TaskTrue(s) ==
    /\ task[s].step \in {"select", "gamma", "update"} => JobTrue(task[s].job)
    /\ task[s].step = "update" => Backed(task[s].job.market, task[s].write)

RunTrue(c) ==
    cron[c].step # "idle" =>
        \A m \in Markets, w \in Writes :
            <<m, w>> \in cron[c].updates => Backed(m, w)

TruthInv ==
    /\ TypeOK
    /\ TableBacked
    /\ \A m \in Markets, o \in Outcomes : <<m, o>> \in wsResolutions => venue[m] = o
    /\ \A j \in waiting : JobTrue(j)
    /\ \A s \in Slots : TaskTrue(s)
    /\ \A c \in Crons : RunTrue(c)
    /\ sync.step = "upsert" /\ sync.status # "active" => venue[sync.market] # "open"

\* What Gamma answers now is backed now.
LEMMA VerdictBacked ==
    ASSUME TypeOK, NEW m \in Markets
    PROVE  Backed(m, Verdict(venue[m]))
  BY ConstantsAssumption DEF TypeOK, Backed, Verdict, Venues

\* What was backed once stays backed: Polymarket takes nothing back.
LEMMA BackedStays ==
    ASSUME TypeOK, NEW m \in Markets, VenueMoves(m),
           NEW n \in Markets, NEW w \in Writes, Backed(n, w)
    PROVE  Backed(n, w)'
  BY ConstantsAssumption DEF TypeOK, VenueMoves, Backed, Writes, Venues, Results

LEMMA JobTrueStays ==
    ASSUME TypeOK, NEW m \in Markets, VenueMoves(m), NEW j \in Jobs, JobTrue(j)
    PROVE  JobTrue(j)'
  BY ConstantsAssumption DEF TypeOK, VenueMoves, JobTrue, Jobs, Venues

\* A backed write keeps the table backed.
LEMMA WriteKeepsTable ==
    ASSUME TypeOK, TableBacked, venue' = venue,
           NEW M \in SUBSET Markets, NEW new \in [Markets -> Writes],
           \A m \in M : Backed(m, new[m]),
           \A m \in Markets : status'[m] = IF m \in M THEN new[m].status ELSE status[m],
           \A m \in Markets : result'[m] = IF m \in M THEN new[m].result ELSE result[m]
    PROVE  TableBacked'
  BY DEF TableBacked, ResultTruthful, ResolvedHasWinner, NeverClosedEarly, Backed

LEMMA TruthInit == Init => TruthInv
<1> SUFFICES ASSUME Init PROVE TruthInv
  OBVIOUS
<1>1. TypeOK
  BY TypeInit
<1>2. TableBacked
  BY DEF Init, TableBacked, ResultTruthful, ResolvedHasWinner, NeverClosedEarly
<1>3. \A s \in Slots : TaskTrue(s)
  BY DEF Init, TaskTrue, IdleTask
<1>4. \A c \in Crons : RunTrue(c)
  BY DEF Init, RunTrue, NoRun
<1> QED
  BY <1>1, <1>2, <1>3, <1>4 DEF Init, TruthInv, NoSync

\* A step that leaves Polymarket, the rows and the runs alone.
LEMMA QuietRows ==
    ASSUME TruthInv, venue' = venue, UNCHANGED <<status, result>>
    PROVE  TableBacked'
  BY DEF TruthInv, TableBacked, ResultTruthful, ResolvedHasWinner, NeverClosedEarly

LEMMA QuietRuns ==
    ASSUME TruthInv, venue' = venue, UNCHANGED cron
    PROVE  \A c \in Crons : RunTrue(c)'
  BY DEF TruthInv, RunTrue, Backed

LEMMA QuietTasks ==
    ASSUME TruthInv, venue' = venue, UNCHANGED task
    PROVE  \A s \in Slots : TaskTrue(s)'
  BY DEF TruthInv, TaskTrue, Backed, JobTrue

LEMMA QuietWaiting ==
    ASSUME TruthInv, venue' = venue, waiting' \subseteq waiting
    PROVE  \A j \in waiting' : JobTrue(j)'
  BY DEF TruthInv, JobTrue

\* One task goes on with t, which tells the truth.
LEMMA OneTask ==
    ASSUME TruthInv, venue' = venue, NEW s \in Slots, NEW t, Becomes(s, t),
           t.step \in {"select", "gamma", "update"} => JobTrue(t.job),
           t.step = "update" => Backed(t.job.market, t.write)
    PROVE  \A v \in Slots : TaskTrue(v)'
<1> SUFFICES ASSUME NEW v \in Slots PROVE TaskTrue(v)'
  OBVIOUS
<1>1. CASE v = s
  <2>1. task'[v] = t
    BY <1>1 DEF Becomes, TruthInv, TypeOK
  <2> QED
    BY <2>1 DEF TaskTrue, JobTrue, Backed
<1>2. CASE v # s
  <2>1. task'[v] = task[v] /\ TaskTrue(v)
    BY <1>2 DEF Becomes, TruthInv, TypeOK
  <2> QED
    BY <2>1 DEF TaskTrue, JobTrue, Backed
<1> QED
  BY <1>1, <1>2

\* One run goes on with q, whose updates are backed.
LEMMA OneRun ==
    ASSUME TruthInv, venue' = venue, NEW c \in Crons, NEW q,
           cron' = [cron EXCEPT ![c] = q],
           q.step # "idle" =>
              \A m \in Markets, w \in Writes : <<m, w>> \in q.updates => Backed(m, w)
    PROVE  \A d \in Crons : RunTrue(d)'
<1> SUFFICES ASSUME NEW d \in Crons PROVE RunTrue(d)'
  OBVIOUS
<1>1. CASE d = c
  <2>1. cron'[d] = q
    BY <1>1 DEF TruthInv, TypeOK
  <2> QED
    BY <2>1 DEF RunTrue, Backed
<1>2. CASE d # c
  <2>1. cron'[d] = cron[d] /\ RunTrue(d)
    BY <1>2 DEF TruthInv, TypeOK
  <2> QED
    BY <2>1 DEF RunTrue, Backed
<1> QED
  BY <1>1, <1>2

LEMMA TruthNext == TruthInv /\ [Next]_vars => TruthInv'
<1> SUFFICES ASSUME TruthInv, [Next]_vars PROVE TruthInv'
  OBVIOUS
<1> USE TypeNext
<1>0. TypeOK /\ TypeOK'
  BY DEF TruthInv
<1>1. ASSUME NEW m \in Markets, VenueMoves(m) PROVE TruthInv'
  <2>1. TableBacked'
    BY <1>1, ConstantsAssumption
       DEF VenueMoves, TruthInv, TypeOK, TableBacked, ResultTruthful,
                ResolvedHasWinner, NeverClosedEarly, rows, Venues, Results
  <2>2. ASSUME NEW j \in waiting' PROVE JobTrue(j)'
    BY <1>1, <2>2, JobTrueStays DEF VenueMoves, TruthInv, TypeOK
  <2>3. ASSUME NEW s \in Slots PROVE TaskTrue(s)'
    <3>1. task' = task /\ TaskTrue(s) /\ task[s] \in Tasks
      BY <1>1 DEF VenueMoves, TruthInv, TypeOK
    <3>2. task[s].step \in {"select", "gamma", "update"} => task[s].job \in Jobs
      BY <3>1, TaskFields
    <3>3. task[s].step = "update" => /\ task[s].job.market \in Markets
                                     /\ task[s].write \in Writes
      BY <3>1, <3>2, TaskFields DEF Jobs
    <3>4. task[s].step \in {"select", "gamma", "update"} => JobTrue(task[s].job)'
      BY <1>0, <1>1, <3>1, <3>2, JobTrueStays DEF TaskTrue
    <3>5. task[s].step = "update" => Backed(task[s].job.market, task[s].write)'
      BY <1>0, <1>1, <3>1, <3>3, BackedStays DEF TaskTrue
    <3> QED
      BY <3>1, <3>4, <3>5 DEF TaskTrue, JobTrue, Backed
  <2>4. ASSUME NEW c \in Crons PROVE RunTrue(c)'
    <3>1. cron' = cron /\ RunTrue(c)
      BY <1>1 DEF VenueMoves, TruthInv
    <3> SUFFICES ASSUME cron[c].step # "idle", NEW n \in Markets, NEW w \in Writes,
                        <<n, w>> \in cron[c].updates
                 PROVE  Backed(n, w)'
      BY <3>1 DEF RunTrue
    <3> QED
      BY <1>0, <1>1, <3>1, BackedStays DEF RunTrue
  <2>5. \A n \in Markets, o \in Outcomes : <<n, o>> \in wsResolutions' => venue'[n] = o
    BY <1>0, <1>1, ConstantsAssumption DEF VenueMoves, TruthInv, TypeOK, feed
  <2>6. sync'.step = "upsert" /\ sync'.status # "active" => venue'[sync'.market] # "open"
    BY <1>0, <1>1, ConstantsAssumption DEF VenueMoves, TruthInv, TypeOK, Venues, Syncs, NoSync
  <2> QED
    BY <1>0, <2>1, <2>2, <2>3, <2>4, <2>5, <2>6 DEF TruthInv
<1>2. ASSUME \/ \E m \in Markets : MarketResolved(m) \/ SettlementTrade(m)
             \/ Ticker \/ TakeBatch \/ FlushFails
      PROVE  TruthInv'
  <2>1. UNCHANGED <<venue, status, result, waiting, task, cron, sync>>
    BY <1>2 DEF MarketResolved, SettlementTrade, Ticker, TakeBatch, FlushFails, rows
  <2>2. \A n \in Markets, o \in Outcomes : <<n, o>> \in wsResolutions' => venue[n] = o
    BY <1>2 DEF MarketResolved, SettlementTrade, Ticker, TakeBatch, FlushFails,
                TruthInv, feed
  <2> QED
    BY <1>0, <2>1, <2>2, QuietRows, QuietRuns, QuietTasks, QuietWaiting DEF TruthInv
<1>3. ASSUME NEW m \in Markets, SyncFetch(m) PROVE TruthInv'
  <2>1. UNCHANGED <<venue, status, result, wsResolutions, waiting, task, cron>>
    BY <1>3 DEF SyncFetch, rows, feed
  <2>2. sync'.status # "active" => venue[sync'.market] # "open"
    BY <1>3 DEF SyncFetch
  <2> QED
    BY <1>0, <2>1, <2>2, QuietRows, QuietRuns, QuietTasks, QuietWaiting DEF TruthInv
<1>4. ASSUME Flushed PROVE TruthInv'
  <2>1. UNCHANGED <<venue, status, result, task, cron, sync>> /\ wsResolutions' = {}
    BY <1>4 DEF Flushed, rows
  <2>2. ASSUME NEW j \in waiting' PROVE JobTrue(j)'
    <3>1. CASE j \in waiting
      BY <2>1, <3>1 DEF TruthInv, JobTrue
    <3>2. CASE \E r \in wsResolutions :
                  j = [path |-> "A", market |-> r[1], outcome |-> r[2]]
      BY <1>0, <2>1, <3>2 DEF TruthInv, TypeOK, JobTrue
    <3>3. CASE \E m \in candidates :
                  j = [path |-> "B", market |-> m, outcome |-> "none"]
      BY <3>3 DEF JobTrue
    <3> QED
      BY <1>4, <2>2, <3>1, <3>2, <3>3 DEF Flushed
  <2> QED
    BY <1>0, <2>1, <2>2, QuietRows, QuietRuns, QuietTasks DEF TruthInv
<1>5. ASSUME NEW s \in Slots, Acquire(s) PROVE TruthInv'
  <2>1. UNCHANGED <<venue, status, result, wsResolutions, cron, sync>>
    BY <1>5 DEF Acquire, rows, feed
  <2>2. PICK j \in waiting : waiting' = waiting \ {j} /\ Becomes(s, TaskAt("select", j))
    BY <1>5 DEF Acquire
  <2>3. \A v \in Slots : TaskTrue(v)'
    <3>1. JobTrue(j)
      BY DEF TruthInv
    <3>2. TaskAt("select", j).step = "select" /\ TaskAt("select", j).job = j
      BY DEF TaskAt
    <3> QED
      BY <2>1, <2>2, <3>1, <3>2, OneTask
  <2> QED
    BY <1>0, <2>1, <2>2, <2>3, QuietRows, QuietRuns, QuietWaiting DEF TruthInv
<1>6. ASSUME NEW s \in Slots, SelectMarket(s) PROVE TruthInv'
  <2> DEFINE j == task[s].job
             w == [status |-> "resolved", result |-> j.outcome]
  <2>1. UNCHANGED <<venue, status, result, wsResolutions, waiting, cron, sync>>
    BY <1>6 DEF SelectMarket, rows, feed
  <2>2. JobTrue(j) /\ j \in Jobs
    BY <1>0, <1>6, TaskFields DEF SelectMarket, TruthInv, TaskTrue, TypeOK
  <2>3. \A v \in Slots : TaskTrue(v)'
    <3>1. CASE Becomes(s, IdleTask)
      BY <2>1, <3>1, OneTask DEF IdleTask
    <3>2. CASE j.path = "A" /\ Becomes(s, Writing(j, w))
      <4>1. Backed(j.market, w)
        BY <2>2, <3>2, ConstantsAssumption DEF JobTrue, Backed
      <4>2. /\ Writing(j, w).step = "update"
            /\ Writing(j, w).job = j /\ Writing(j, w).write = w
        BY DEF Writing
      <4> HIDE DEF w
      <4> QED
        BY <2>1, <2>2, <3>2, <4>1, <4>2, OneTask
    <3>3. CASE Becomes(s, Checking(j, status[j.market]))
      <4>1. /\ Checking(j, status[j.market]).step = "gamma"
            /\ Checking(j, status[j.market]).job = j
        BY DEF Checking
      <4> QED
        BY <2>1, <2>2, <3>3, <4>1, OneTask
    <3> QED
      BY <1>6, <3>1, <3>2, <3>3 DEF SelectMarket
  <2> QED
    BY <1>0, <2>1, <2>3, QuietRows, QuietRuns, QuietWaiting DEF TruthInv
<1>7. ASSUME NEW s \in Slots, AskGamma(s) PROVE TruthInv'
  <2> DEFINE j == task[s].job
             w == Verdict(venue[j.market])
  <2>1. UNCHANGED <<venue, status, result, wsResolutions, waiting, cron, sync>>
    BY <1>7 DEF AskGamma, rows, feed
  <2>2. JobTrue(j) /\ j \in Jobs
    BY <1>0, <1>7, TaskFields DEF AskGamma, TruthInv, TaskTrue, TypeOK
  <2>3. Backed(j.market, w)
    BY <1>0, <2>2, VerdictBacked DEF Jobs
  <2>4. \A v \in Slots : TaskTrue(v)'
    <3>1. CASE Becomes(s, IdleTask)
      BY <2>1, <3>1, OneTask DEF IdleTask
    <3>2. CASE Becomes(s, Writing(j, w))
      <4>1. /\ Writing(j, w).step = "update"
            /\ Writing(j, w).job = j /\ Writing(j, w).write = w
        BY DEF Writing
      <4> HIDE DEF w
      <4> QED
        BY <2>1, <2>2, <2>3, <3>2, <4>1, OneTask
    <3> QED
      BY <1>7, <3>1, <3>2 DEF AskGamma
  <2> QED
    BY <1>0, <2>1, <2>4, QuietRows, QuietRuns, QuietWaiting DEF TruthInv
<1>8. ASSUME NEW s \in Slots, UpdateMarket(s) PROVE TruthInv'
  <2> DEFINE m == task[s].job.market
             w == task[s].write
  <2>1. UNCHANGED <<venue, wsResolutions, waiting, cron, sync>>
    BY <1>8 DEF UpdateMarket, feed
  <2>2. m \in Markets /\ w \in Writes /\ Backed(m, w)
    BY <1>0, <1>8, TaskFields DEF UpdateMarket, TruthInv, TaskTrue, TypeOK, Jobs
  <2>3. TableBacked'
    <3> DEFINE new == [n \in Markets |-> w]
    <3>1. \A n \in Markets :
              /\ status'[n] = IF n \in {m} THEN w.status ELSE status[n]
              /\ result'[n] = IF n \in {m} THEN w.result ELSE result[n]
      BY <1>0, <1>8 DEF UpdateMarket, TypeOK
    <3>2. new \in [Markets -> Writes] /\ \A n \in Markets : new[n] = w
      BY <2>2
    <3>3. {m} \in SUBSET Markets /\ \A n \in {m} : Backed(n, new[n])
      BY <2>2, <3>2
    <3>4. \A n \in Markets :
              /\ status'[n] = IF n \in {m} THEN new[n].status ELSE status[n]
              /\ result'[n] = IF n \in {m} THEN new[n].result ELSE result[n]
      BY <3>1, <3>2
    <3>5. TypeOK /\ TableBacked /\ venue' = venue
      BY <2>1 DEF TruthInv
    <3> HIDE DEF new, w, m
    <3> QED
      BY <3>2, <3>3, <3>4, <3>5, WriteKeepsTable
  <2>4. \A v \in Slots : TaskTrue(v)'
    BY <1>8, <2>1, OneTask DEF UpdateMarket, IdleTask
  <2> QED
    BY <1>0, <2>1, <2>3, <2>4, QuietRuns, QuietWaiting DEF TruthInv
<1>9. ASSUME NEW s \in Slots, TaskFails(s) PROVE TruthInv'
  <2>1. UNCHANGED <<venue, status, result, wsResolutions, waiting, cron, sync>>
    BY <1>9 DEF TaskFails, rows, feed
  <2>2. \A v \in Slots : TaskTrue(v)'
    BY <1>9, <2>1, OneTask DEF TaskFails, IdleTask
  <2> QED
    BY <1>0, <2>1, <2>2, QuietRows, QuietRuns, QuietWaiting DEF TruthInv
<1>10. ASSUME NEW c \in Crons, CronSelect(c) PROVE TruthInv'
  <2>1. UNCHANGED <<venue, status, result, wsResolutions, waiting, task, sync>>
    BY <1>10 DEF CronSelect, rows, feed
  <2>2. PICK S \in SUBSET Markets :
            cron' = [cron EXCEPT ![c] = Run("call", Kept(status, S), S, {}, {})]
    BY <1>10 DEF CronSelect
  <2>3. Run("call", Kept(status, S), S, {}, {}).updates = {}
    BY DEF Run
  <2>4. \A d \in Crons : RunTrue(d)'
    BY <2>1, <2>2, <2>3, OneRun
  <2> QED
    BY <1>0, <2>1, <2>4, QuietRows, QuietTasks, QuietWaiting DEF TruthInv
<1>11. ASSUME NEW c \in Crons, NEW B \in SUBSET Markets, NEW A \in SUBSET B,
              CronCall(c, B, A)
       PROVE  TruthInv'
  <2> DEFINE q == cron[c]
             todo == q.todo \ B
             updates == q.updates \cup Changes(A, q.seen)
             next == Run(IF todo # {} THEN "call"
                         ELSE IF updates # {} THEN "update" ELSE "volume",
                         Kept(q.seen, todo), todo, updates, q.volumes \cup A)
  <2>1. UNCHANGED <<venue, status, result, wsResolutions, waiting, task, sync>>
    BY <1>11 DEF CronCall, rows, feed
  <2>2. cron' = [cron EXCEPT ![c] = next] /\ q.step # "idle"
    BY <1>11 DEF CronCall
  <2>3. ASSUME NEW m \in Markets, NEW w \in Writes, <<m, w>> \in updates
        PROVE  Backed(m, w)
    <3>1. CASE <<m, w>> \in q.updates
      BY <2>2, <3>1 DEF TruthInv, RunTrue
    <3>2. CASE <<m, w>> \in Changes(A, q.seen)
      <4>1. w = Verdict(venue[m])
        BY <3>2 DEF Changes
      <4> QED
        BY <1>0, <4>1, VerdictBacked
    <3> QED
      BY <2>3, <3>1, <3>2
  <2>4. next.updates = updates
    BY DEF Run
  <2>5. \A d \in Crons : RunTrue(d)'
    <3> HIDE DEF next, updates
    <3> QED
      BY <2>1, <2>2, <2>3, <2>4, OneRun
  <2> QED
    BY <1>0, <2>1, <2>5, QuietRows, QuietTasks, QuietWaiting DEF TruthInv
<1>12. ASSUME NEW c \in Crons, CronUpdate(c) PROVE TruthInv'
  <2> DEFINE q == cron[c]
             next == Run("volume", q.seen, {}, {}, q.volumes)
             new == [m \in Markets |-> IF m \in Changed(q) THEN NewWrite(q, m)
                                       ELSE Verdict("open")]
  <2>1. UNCHANGED <<venue, wsResolutions, waiting, task, sync>>
    BY <1>12 DEF CronUpdate, feed
  <2>2. cron' = [cron EXCEPT ![c] = next] /\ q.step # "idle"
    BY <1>12 DEF CronUpdate
  <2>3. TableBacked'
    <3>1. Changed(q) \subseteq Markets
      BY DEF Changed
    <3>2. ASSUME NEW m \in Changed(q)
          PROVE  NewWrite(q, m) \in Writes /\ Backed(m, NewWrite(q, m))
      BY <2>2, <3>1, NewWriteType DEF TruthInv, RunTrue
    <3>3. new \in [Markets -> Writes]
      BY <3>2, VerdictType DEF Venues
    <3>4. \A m \in Markets :
             /\ status'[m] = IF m \in Changed(q) THEN NewWrite(q, m).status ELSE status[m]
             /\ result'[m] = IF m \in Changed(q) THEN NewWrite(q, m).result ELSE result[m]
      BY <1>12 DEF CronUpdate
    <3>5. \A m \in Changed(q) : new[m] = NewWrite(q, m)
      BY <3>1
    <3> HIDE DEF new, q
    <3> QED
      BY <1>0, <2>1, <3>1, <3>2, <3>3, <3>4, <3>5, WriteKeepsTable DEF TruthInv
  <2>4. next.updates = {}
    BY DEF Run
  <2>5. \A d \in Crons : RunTrue(d)'
    <3> HIDE DEF next
    <3> QED
      BY <2>1, <2>2, <2>4, OneRun
  <2> QED
    BY <1>0, <2>1, <2>3, <2>5, QuietTasks, QuietWaiting DEF TruthInv
<1>13. ASSUME NEW c \in Crons, CronVolume(c) \/ CronAbort(c) PROVE TruthInv'
  <2>1. /\ UNCHANGED <<venue, status, result, wsResolutions, waiting, task, sync>>
        /\ cron' = [cron EXCEPT ![c] = NoRun]
    BY <1>13 DEF CronVolume, CronAbort, rows, feed
  <2>2. \A d \in Crons : RunTrue(d)'
    BY <2>1, OneRun DEF NoRun
  <2> QED
    BY <1>0, <2>1, <2>2, QuietRows, QuietTasks, QuietWaiting DEF TruthInv
<1>14. ASSUME Restart PROVE TruthInv'
  <2>1. UNCHANGED <<venue, status, result, cron>>
    BY <1>14 DEF Restart, rows
  <2>2. \A s \in Slots : TaskTrue(s)'
    BY <1>14 DEF Restart, TaskTrue, IdleTask
  <2>3. wsResolutions' = {} /\ waiting' = {} /\ sync' = NoSync
    BY <1>14 DEF Restart
  <2> QED
    BY <1>0, <2>1, <2>2, <2>3, QuietRows, QuietRuns DEF TruthInv, NoSync
<1>15. ASSUME SyncUpsert PROVE TruthInv'
  <2>1. UNCHANGED <<venue, result, wsResolutions, waiting, task, cron>> /\ sync' = NoSync
    BY <1>15 DEF SyncUpsert, feed
  <2>2. /\ sync.market \in Markets /\ sync.status \in {"active", "closed"}
        /\ sync.status # "active" => venue[sync.market] # "open"
    BY <1>0, <1>15 DEF SyncUpsert, TruthInv, TypeOK, Syncs, NoSync
  <2>3. TableBacked'
    BY <1>0, <1>15, <2>1, <2>2 DEF SyncUpsert, TruthInv, TypeOK, TableBacked,
       ResultTruthful, ResolvedHasWinner, NeverClosedEarly
  <2> QED
    BY <1>0, <2>1, <2>3, QuietRuns, QuietTasks, QuietWaiting DEF TruthInv, NoSync
<1>16. CASE UNCHANGED vars
  BY <1>0, <1>16, QuietRows, QuietRuns, QuietTasks, QuietWaiting DEF TruthInv, vars
<1> QED
  BY <1>1, <1>2, <1>3, <1>4, <1>5, <1>6, <1>7, <1>8, <1>9, <1>10, <1>11, <1>12,
     <1>13, <1>14, <1>15, <1>16
  DEF Next, StreamStep, CronStep

LEMMA TruthInvariant == Spec => []TruthInv
  BY TruthInit, TruthNext, PTL DEF Spec

\* A result in the table is the winner that Polymarket reported, whatever tasks,
\* cron runs and syncs overlap.
THEOREM ResultsTrue == Spec => []ResultTruthful
<1>1. TruthInv => ResultTruthful
  BY DEF TruthInv, TableBacked
<1> QED
  BY <1>1, TruthInvariant, PTL

\* A resolved market has its winner.
THEOREM ResolvedComplete == Spec => []ResolvedHasWinner
<1>1. TruthInv => ResolvedHasWinner
  BY DEF TruthInv, TableBacked
<1> QED
  BY <1>1, TruthInvariant, PTL

\* No market is closed or resolved in the table while it still trades.
THEOREM NotClosedEarly == Spec => []NeverClosedEarly
<1>1. TruthInv => NeverClosedEarly
  BY DEF TruthInv, TableBacked
<1> QED
  BY <1>1, TruthInvariant, PTL
=============================================================================
