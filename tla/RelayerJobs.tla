------------------------------ MODULE RelayerJobs ------------------------------
(***************************************************************************)
(* Transactions through Polymarket's relayer: the token approvals of a     *)
(* wallet (services/approvals.py, api/routes/v1/approvals.py) and the      *)
(* deployment of its Safe (services/polymarket/wallet.py).  A job is       *)
(* submitted and then polled, every five seconds, MaxPolls times; the      *)
(* relayer goes on with it whatever became of the call.                    *)
(***************************************************************************)
EXTENDS UserAccounts

CONSTANT MaxPolls    \* 24 in the code

ASSUME RelayerConstantsAssumption == MaxPolls \in Nat \ {0}

VARIABLES
    onChain,  \* external: pairs of a wallet and what is set on chain for it
    pending,  \* external: such pairs that a job without a call may still set
    job,      \* external: the state of the job of each call
    polls,    \* per worker: polls made
    garbled   \* history: workers whose call met a body that is not JSON

relayVars == <<onChain, pending, job, polls, garbled>>

-----------------------------------------------------------------------------
Kinds == {"approve", "deploy"}
Effect(w) == <<call[w].by, IF call[w].op = "deploy" THEN "deploy" ELSE "approve">>

\* NEW: under way.  DEPLOYED: failed because the Safe is there already.
JobStates == {"none", "NEW", "MINED", "CONFIRMED", "FAILED", "INVALID", "REJECTED",
              "DEPLOYED"}
Dead == {"FAILED", "INVALID", "REJECTED", "DEPLOYED"}

RelayTypeOK ==
    /\ onChain \in SUBSET (Wallets \X Kinds)
    /\ pending \in SUBSET (Wallets \X Kinds)
    /\ job \in [Workers -> JobStates]
    /\ polls \in [Workers -> 0..MaxPolls]
    /\ garbled \in SUBSET Workers
    /\ \A w \in Workers : job[w] \in {"MINED", "CONFIRMED"} => Effect(w) \in onChain

RelayInit ==
    /\ onChain = {}
    /\ pending = {}
    /\ job = [w \in Workers |-> "none"]
    /\ polls = [w \in Workers |-> 0]
    /\ garbled = {}

-----------------------------------------------------------------------------
(* POST /polymarket/approvals/execute, for the wallet named in the body; and *)
(* deploy_safe, which no route calls.                                        *)
ApproveCall(w, d, a) ==
    /\ \/ Registered(d) \subseteq {a} /\ AuthenticatedCall(w, "approve", d, a)
       \/ Registered(d) \notin SUBSET {a} /\ RefusedCall(w, "approve", d, "forbidden")
    /\ UNCHANGED <<tables, relayVars>>

DeployCall(w, a) ==
    /\ Call(w, "deploy", None, a, None)
    /\ UNCHANGED <<tables, relayVars>>

\* A job is made of the submission, or not; the answer comes, is an error or
\* nothing (502), or is not JSON, which is a ValueError like a failed job (400).
RelaySubmit(w) ==
    /\ call[w].op \in Kinds /\ call[w].step = "find"
    /\ \/ /\ job' = [job EXCEPT ![w] = "NEW"]
          /\ \/ Move(w, "poll", FALSE) /\ UNCHANGED garbled
             \/ "lost" \in Faults /\ Reply(w, "unknown", TRUE) /\ UNCHANGED garbled
             \/ /\ "unreadable" \in Faults
                /\ Reply(w, "failed", TRUE)
                /\ garbled' = garbled \cup {w}
       \/ /\ "status" \in Faults
          /\ Reply(w, "unknown", FALSE)
          /\ UNCHANGED <<job, garbled>>
    /\ UNCHANGED <<tables, onChain, pending, polls>>

JobMoves(w, s) ==
    /\ \/ /\ job[w] = "NEW" /\ s = "MINED"
          /\ ~(call[w].op = "deploy" /\ Effect(w) \in onChain)
          /\ onChain' = onChain \cup {Effect(w)}
       \/ /\ job[w] = "NEW"
          /\ s = "DEPLOYED" => call[w].op = "deploy" /\ Effect(w) \in onChain
          /\ s \in Dead
          /\ UNCHANGED onChain
       \/ job[w] = "MINED" /\ s = "CONFIRMED" /\ UNCHANGED onChain
    /\ job' = [job EXCEPT ![w] = s]
    /\ UNCHANGED <<tables, call, pending, polls, garbled>>

\* A job whose call ended without seeing its end is mined.
LateJobMined(e) ==
    /\ e \in pending \ onChain
    /\ onChain' = onChain \cup {e}
    /\ UNCHANGED <<tables, call, pending, job, polls, garbled>>

\* How each of the two loops reads the state.
Success(w) ==
    IF call[w].op = "approve" THEN {"MINED", "CONFIRMED"} ELSE {"MINED", "DEPLOYED"}
Failure(w) ==
    IF call[w].op = "approve" THEN {"FAILED", "INVALID"} ELSE {"FAILED", "REJECTED"}

RelayPoll_TimeoutFails(w) ==
    /\ call[w].op \in Kinds /\ call[w].step = "poll"
    /\ polls' = [polls EXCEPT ![w] = @ + 1]
    /\ \/ job[w] \in Success(w) /\ Reply(w, "done", FALSE)
       \/ job[w] \in Failure(w) /\ Reply(w, "failed", FALSE)
       \/ /\ job[w] \notin Success(w) \cup Failure(w)
          /\ IF polls'[w] = MaxPolls THEN Reply(w, "failed", FALSE)
             ELSE UNCHANGED call
    /\ UNCHANGED <<tables, onChain, pending, job, garbled>>

\* A final state, one more round, or the time is up (504).
RelayPoll(w) ==
    /\ call[w].op \in Kinds /\ call[w].step = "poll"
    /\ polls' = [polls EXCEPT ![w] = @ + 1]
    /\ \/ job[w] \in Success(w) /\ Reply(w, "done", FALSE)
       \/ job[w] \in Failure(w) /\ Reply(w, "failed", FALSE)
       \/ /\ job[w] \notin Success(w) \cup Failure(w)
          /\ IF polls'[w] = MaxPolls THEN Reply(w, "unknown", FALSE)
             ELSE UNCHANGED call
    /\ UNCHANGED <<tables, onChain, pending, job, garbled>>

\* A poll that fails ends the call, although nothing is known of the job.
RelayPollFails(w) ==
    /\ call[w].op \in Kinds /\ call[w].step = "poll"
    /\ \/ "status" \in Faults /\ Reply(w, "unknown", TRUE) /\ UNCHANGED garbled
       \/ /\ "unreadable" \in Faults
          /\ Reply(w, "failed", TRUE)
          /\ garbled' = garbled \cup {w}
    /\ UNCHANGED <<tables, onChain, pending, job, polls>>

-----------------------------------------------------------------------------
(* GET /polymarket/approvals/status: six reads of the chain; what cannot be  *)
(* read counts as not approved.                                              *)
StatusCall(w, d) ==
    /\ AuthenticatedCall(w, "status", d, None)
    /\ UNCHANGED <<tables, relayVars>>

StatusRead(w) ==
    /\ Is(w, "status", "find")
    /\ \/ Reply(w, IF <<call[w].by, "approve">> \in onChain THEN "done" ELSE "missing", FALSE)
       \/ "lost" \in Faults /\ Reply(w, "missing", TRUE)
    /\ UNCHANGED <<tables, relayVars>>

-----------------------------------------------------------------------------
RelaySteps(w) == RelaySubmit(w) \/ RelayPoll(w) \/ RelayPollFails(w) \/ StatusRead(w)

\* The call is over, its job may go on.
RelayForget(w) ==
    /\ pending' = IF job[w] = "NEW" THEN pending \cup {Effect(w)} ELSE pending
    /\ job' = [job EXCEPT ![w] = "none"]
    /\ polls' = [polls EXCEPT ![w] = 0]
    /\ garbled' = garbled \ {w}
    /\ UNCHANGED onChain

-----------------------------------------------------------------------------
(* The promise the answers keep: "done" of an execution, a deployment or a   *)
(* status says that it is so on chain, "failed" that the job of the call is  *)
(* dead, unless a body was not JSON; what ends otherwise is left open.       *)
Asks(w) == call[w].op \in Kinds \cup {"status"} /\ call[w].by # None

MayStillBring == {Effect(w) : w \in {v \in Workers : call[v].op \in Kinds /\ call[v].by # None
                                        /\ (call[v].step = "find" \/ job[v] = "NEW")}}

Promise == INSTANCE RelayPromise WITH
    Clients <- Workers,
    Effects <- Wallets \X Kinds,
    happened <- onChain,
    wanted <- pending \cup MayStillBring,
    attempt <- [w \in Workers |-> IF Asks(w) THEN {Effect(w)} ELSE {}],
    dead <- {w \in Workers : job[w] \in Dead},
    told <- [w \in Workers |-> IF ~Asks(w) THEN "none"
                               ELSE IF call[w].answer = "missing" THEN "unknown"
                               ELSE call[w].answer]

RelayPromised == Promise!Spec
=============================================================================
