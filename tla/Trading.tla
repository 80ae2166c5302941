------------------------------- MODULE Trading -------------------------------
(***************************************************************************)
(* The requests of a user who trades: accounts, orders and the relayer     *)
(* together.  They meet in the rows of users and accounts (every request   *)
(* finds its wallet there, credentials are stored there) and in the        *)
(* workers that handle them.                                               *)
(***************************************************************************)
EXTENDS OrderFlow, RelayerJobs

vars == <<tables, call, offered, seen, orderVars, relayVars>>

TypeOK == AccountTypeOK /\ OrderTypeOK /\ RelayTypeOK

Init == AccountInit /\ OrderInit /\ RelayInit

Ends(w) == Return(w) /\ OrderForget(w) /\ RelayForget(w)

\* One step of the call a worker handles.
Works(w) ==
    \/ AccountSteps(w) /\ UNCHANGED <<orderVars, relayVars>>
    \/ OrderSteps(w) /\ UNCHANGED relayVars
    \/ RelaySteps(w) /\ UNCHANGED orderVars
    \/ Ends(w)

Arrives(w) ==
    \/ /\ \/ \E t \in Tokens : LoginCall(w, t)
          \/ \E d \in Dids :
                \/ \E b \in Wallets : FollowCall(w, d, b) \/ UnfollowCall(w, d, b)
                \/ \E n \in Names : RenameCall(w, d, n)
       /\ UNCHANGED <<orderVars, relayVars>>
    \/ /\ \/ \E a \in Wallets : StoreCall(w, a)
          \/ \E d \in Dids :
                \/ PrepareCall(w, d)
                \/ \E o \in Orders : SubmitCall(w, d, o) \/ CancelCall(w, d, o)
       /\ UNCHANGED relayVars
    \/ /\ \/ \E a \in Wallets : DeployCall(w, a)
          \/ \E d \in Dids :
                \/ \E a \in Wallets : ApproveCall(w, d, a)
                \/ StatusCall(w, d)
       /\ UNCHANGED orderVars

\* The CLOB, Redis, the relayer and the chain.
Outside ==
    \/ /\ \E p \in Params : ParamMoves(p) \/ ExpireParam(p)
       /\ UNCHANGED relayVars
    \/ /\ \/ \E w \in Workers, s \in JobStates : JobMoves(w, s)
          \/ \E e \in pending : LateJobMined(e)
       /\ UNCHANGED orderVars

Next ==
    /\ \/ \E w \in Workers : Arrives(w) \/ Works(w)
       \/ Outside
    /\ Watch
    /\ UNCHANGED offered

Spec == Init /\ [][Next]_vars

\* Requests end (every call to the outside has a timeout) and Redis drops the
\* keys whose TTL is over.
FairSpec ==
    /\ Spec
    /\ \A w \in Workers : WF_vars(Works(w) /\ Watch /\ UNCHANGED offered)
    /\ \A p \in Params : WF_vars(ExpireParam(p) /\ UNCHANGED relayVars /\ Watch
                                 /\ UNCHANGED offered)
=============================================================================
