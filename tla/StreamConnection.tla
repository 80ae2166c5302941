--------------------------- MODULE StreamConnection ---------------------------
(***************************************************************************)
(* The connection loop of the Polymarket stream (run_polymarket_ws of      *)
(* app/workers/polymarket/stream.py): connect, subscribe to a list of      *)
(* tokens, receive until the connection dies, falls silent or is 30        *)
(* minutes old, and find out which tokens the database lists by then.      *)
(* What the messages do is in TickerPipeline and MarketResolution; the     *)
(* token to event map, which no reader of an update uses, is left out but  *)
(* for the await that reloads it.                                          *)
(***************************************************************************)
EXTENDS Naturals, FiniteSets

CONSTANTS
    Tokens,
    MaxBackoff    \* MAX_BACKOFF, 60 seconds in the code

INITIAL_BACKOFF == 1

ASSUME ConstantsAssumption ==
    /\ IsFiniteSet(Tokens)
    /\ MaxBackoff \in Nat \ {0}

VARIABLES
    listed,       \* the tokens of markets neither resolved nor canceled, in the table
    active,       \* active_token_ids
    conn,         \* where the loop is
    subscribed,   \* what the open connection is subscribed to
    due,          \* RESUBSCRIBE_INTERVAL has passed since connection_start
    backoff

vars == <<listed, active, conn, subscribed, due, backoff>>

-----------------------------------------------------------------------------
\* down: about to connect; map: reloading the token to event map; refresh: loading
\* the list after an error; stopped: the process is down.
States ==
    {"down", "connected", "open", "reload", "map", "sleep", "refresh", "stopped"}

TypeOK ==
    /\ listed \in SUBSET Tokens
    /\ active \in SUBSET Tokens
    /\ conn \in States
    /\ subscribed \in SUBSET Tokens
    /\ due \in BOOLEAN
    /\ backoff \in INITIAL_BACKOFF..MaxBackoff

Init ==
    /\ listed \in SUBSET Tokens
    /\ active = {}
    /\ conn = "stopped"
    /\ subscribed = {}
    /\ due = FALSE
    /\ backoff = INITIAL_BACKOFF

\* _load_active_token_ids: a database error is an empty list.
Loaded(fresh) == fresh \in {listed, {}}

\* The connection is gone and the loop goes on in some state.
Leave(state) ==
    /\ conn' = state
    /\ subscribed' = {}
    /\ due' = FALSE

-----------------------------------------------------------------------------
\* lifespan: load the tokens (load_polymarket_token_ids_from_db), start the task.
Start(fresh) ==
    /\ conn = "stopped"
    /\ Loaded(fresh)
    /\ active' = fresh
    /\ backoff' = INITIAL_BACKOFF
    /\ Leave("down")
    /\ UNCHANGED listed

Connect ==
    /\ conn = "down"
    /\ conn' = "connected"
    /\ backoff' = INITIAL_BACKOFF
    /\ UNCHANGED <<listed, active, subscribed, due>>

Subscribe ==
    /\ conn = "connected"
    /\ conn' = "open"
    /\ subscribed' = active
    /\ due' = FALSE
    /\ UNCHANGED <<listed, active, backoff>>

Elapse ==
    /\ conn = "open"
    /\ due' = TRUE
    /\ UNCHANGED <<listed, active, conn, subscribed, backoff>>

\* Only after a message is it checked whether the interval has passed.
Receive ==
    /\ conn = "open"
    /\ due
    /\ conn' = "reload"
    /\ UNCHANGED <<listed, active, subscribed, due, backoff>>

Reload_GrownOnly(fresh) ==
    /\ conn = "reload"
    /\ Loaded(fresh)
    /\ IF fresh \subseteq active
       THEN conn' = "open" /\ due' = FALSE /\ UNCHANGED <<active, subscribed>>
       ELSE active' = fresh /\ Leave("map")
    /\ UNCHANGED <<listed, backoff>>

\* An empty or unchanged list keeps the connection, another one replaces it.
Reload(fresh) ==
    /\ conn = "reload"
    /\ Loaded(fresh)
    /\ IF fresh \in {{}, active}
       THEN conn' = "open" /\ due' = FALSE /\ UNCHANGED <<active, subscribed>>
       ELSE active' = fresh /\ Leave("map")
    /\ UNCHANGED <<listed, backoff>>

ReloadMap ==
    /\ conn = "map"
    /\ conn' = "down"
    /\ UNCHANGED <<listed, active, subscribed, due, backoff>>

\* No message for RECEIVE_TIMEOUT: connect again at once, with the list as it is.
Silence ==
    /\ conn = "open"
    /\ Leave("down")
    /\ UNCHANGED <<listed, active, backoff>>

\* Any exception: no connection, a failed send, a closed connection.
Fail ==
    /\ conn \in {"down", "connected", "open"}
    /\ Leave("sleep")
    /\ UNCHANGED <<listed, active, backoff>>

Wake ==
    /\ conn = "sleep"
    /\ conn' = "refresh"
    /\ backoff' = IF backoff * 2 > MaxBackoff THEN MaxBackoff ELSE backoff * 2
    /\ UNCHANGED <<listed, active, subscribed, due>>

Refresh(fresh) ==
    /\ conn = "refresh"
    /\ Loaded(fresh)
    /\ IF fresh = {}
       THEN conn' = "down" /\ UNCHANGED active
       ELSE conn' = "map" /\ active' = fresh
    /\ UNCHANGED <<listed, subscribed, due, backoff>>

\* The task is cancelled.
Shutdown ==
    /\ conn # "stopped"
    /\ Leave("stopped")
    /\ UNCHANGED <<listed, active, backoff>>

\* The catalogue sync adds markets, others are resolved.
List(t) ==
    /\ listed' = IF t \in listed THEN listed \ {t} ELSE listed \cup {t}
    /\ UNCHANGED <<active, conn, subscribed, due, backoff>>

Next ==
    \/ \E fresh \in SUBSET Tokens : Start(fresh) \/ Reload(fresh) \/ Refresh(fresh)
    \/ Connect \/ Subscribe \/ Elapse \/ Receive \/ ReloadMap
    \/ Silence \/ Fail \/ Wake \/ Shutdown
    \/ \E t \in Tokens : List(t)

Spec == Init /\ [][Next]_vars

\* The loop goes on.  It is assumed that things that may fail do not fail for ever:
\* sooner or later the server accepts, the database answers, and a connection lives
\* until the interval has passed; messages have to come only if it is subscribed to
\* some token that still trades.
Fairness ==
    /\ WF_vars(ReloadMap) /\ WF_vars(Wake)
    /\ SF_vars(Start(listed)) /\ SF_vars(Reload(listed)) /\ SF_vars(Refresh(listed))
    /\ SF_vars(Connect) /\ SF_vars(Subscribe) /\ SF_vars(Elapse)
    /\ SF_vars(Receive /\ subscribed \cap listed # {})

FairSpec == Spec /\ Fairness

-----------------------------------------------------------------------------
\* While messages are received, active_token_ids is what the connection is
\* subscribed to, so comparing it with a fresh list tells whether to reconnect.
OpenFollowsActive == conn \in {"open", "reload"} => subscribed = active

\* If the table lists the same tokens from some time on and the process, while it
\* lives, always knows one of them, then the stream comes back again and again to
\* being subscribed to exactly these, although connections fail and fall silent.
\* (A process that knows none of them hears nothing, and a connection that falls
\* silent is replaced without asking the database.)
SubscriptionConverges ==
    \A S \in SUBSET Tokens :
        <>[](listed = S /\ conn # "stopped" /\ active \cap S # {})
          => []<>(conn = "open" /\ subscribed = S)
=============================================================================
