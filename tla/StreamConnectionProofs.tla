------------------------ MODULE StreamConnectionProofs ------------------------
(***************************************************************************)
(* Proofs about StreamConnection, for every finite set of tokens and every *)
(* cap of the backoff.                                                     *)
(***************************************************************************)
EXTENDS StreamConnection, TLAPS

LEMMA InitialBackoff == INITIAL_BACKOFF \in INITIAL_BACKOFF..MaxBackoff
<1>1. 1 <= MaxBackoff
  BY ConstantsAssumption
<1> QED
  BY <1>1, ConstantsAssumption DEF INITIAL_BACKOFF

LEMMA TypeInit == Init => TypeOK
  BY InitialBackoff DEF Init, TypeOK, States

LEMMA TypeNext == TypeOK /\ [Next]_vars => TypeOK'
<1> SUFFICES ASSUME TypeOK, [Next]_vars PROVE TypeOK'
  OBVIOUS
<1> USE DEF TypeOK
<1>1. ASSUME NEW fresh \in SUBSET Tokens, Start(fresh) PROVE TypeOK'
  BY <1>1, InitialBackoff DEF Start, Leave, States
<1>2. ASSUME NEW fresh \in SUBSET Tokens, Reload(fresh) PROVE TypeOK'
  <2>1. CASE fresh \in {{}, active}
    BY <1>2, <2>1 DEF Reload, States
  <2>2. CASE fresh \notin {{}, active}
    BY <1>2, <2>2 DEF Reload, Leave, States
  <2> QED
    BY <2>1, <2>2
<1>3. ASSUME NEW fresh \in SUBSET Tokens, Refresh(fresh) PROVE TypeOK'
  <2>1. CASE fresh = {}
    BY <1>3, <2>1 DEF Refresh, States
  <2>2. CASE fresh # {}
    BY <1>3, <2>2 DEF Refresh, States
  <2> QED
    BY <2>1, <2>2
<1>4. CASE Connect
  BY <1>4, InitialBackoff DEF Connect, States
<1>5. CASE Subscribe \/ Elapse \/ Receive \/ ReloadMap
  BY <1>5 DEF Subscribe, Elapse, Receive, ReloadMap, States
<1>6. CASE Silence \/ Fail \/ Shutdown
  BY <1>6 DEF Silence, Fail, Shutdown, Leave, States
<1>7. CASE Wake
  BY <1>7, ConstantsAssumption DEF Wake, States, INITIAL_BACKOFF
<1>8. ASSUME NEW t \in Tokens, List(t) PROVE TypeOK'
  <2>1. listed' \in SUBSET Tokens
    BY <1>8 DEF List
  <2> QED
    BY <1>8, <2>1 DEF List
<1>9. CASE UNCHANGED vars
  BY <1>9 DEF vars
<1> QED
  BY <1>1, <1>2, <1>3, <1>4, <1>5, <1>6, <1>7, <1>8, <1>9 DEF Next

\* Every variable keeps its type; in particular the backoff never exceeds its cap
\* (min(backoff * 2, MAX_BACKOFF) in run_polymarket_ws).
THEOREM TypeCorrect == Spec => []TypeOK
  BY TypeInit, TypeNext, PTL DEF Spec

-----------------------------------------------------------------------------
\* What makes OpenFollowsActive hold in every step: the list changes only where no
\* connection receives, and a connection opens only with the list of that moment.
LEMMA FollowsNext == OpenFollowsActive /\ [Next]_vars => OpenFollowsActive'
<1> SUFFICES ASSUME OpenFollowsActive, [Next]_vars PROVE OpenFollowsActive'
  OBVIOUS
<1> USE DEF OpenFollowsActive
<1>1. ASSUME NEW fresh \in SUBSET Tokens, Start(fresh) PROVE OpenFollowsActive'
  BY <1>1 DEF Start, Leave
<1>2. ASSUME NEW fresh \in SUBSET Tokens, Reload(fresh) PROVE OpenFollowsActive'
  BY <1>2 DEF Reload, Leave
<1>3. ASSUME NEW fresh \in SUBSET Tokens, Refresh(fresh) PROVE OpenFollowsActive'
  BY <1>3 DEF Refresh
<1>4. CASE Connect \/ Subscribe \/ Elapse \/ Receive \/ ReloadMap \/ Wake
  BY <1>4 DEF Connect, Subscribe, Elapse, Receive, ReloadMap, Wake
<1>5. CASE Silence \/ Fail \/ Shutdown
  BY <1>5 DEF Silence, Fail, Shutdown, Leave
<1>6. ASSUME NEW t \in Tokens, List(t) PROVE OpenFollowsActive'
  BY <1>6 DEF List
<1>7. CASE UNCHANGED vars
  BY <1>7 DEF vars
<1> QED
  BY <1>1, <1>2, <1>3, <1>4, <1>5, <1>6, <1>7 DEF Next

\* While messages are received, the loop's token list is what the connection is
\* subscribed to, which its comparison with a fresh list relies on.
THEOREM SubscriptionKnown == Spec => []OpenFollowsActive
<1>1. Init => OpenFollowsActive
  BY DEF Init, OpenFollowsActive
<1> QED
  BY <1>1, FollowsNext, PTL DEF Spec
===============================================================================
