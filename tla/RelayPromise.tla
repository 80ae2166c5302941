----------------------------- MODULE RelayPromise -----------------------------
(***************************************************************************)
(* What a client may conclude from the answers of a service that asks a    *)
(* third party for an effect, or after it.  The effect cannot be undone    *)
(* and may come at any time, also after the answer.  "done" means that it  *)
(* is there, "failed" that this attempt will never bring it, "unknown"     *)
(* nothing.  No effect comes that nobody has asked for.                    *)
(* Once the third party has sent something that could not be read,         *)
(* "failed" means nothing either.                                          *)
(***************************************************************************)
CONSTANTS Clients, Effects

VARIABLES
    happened,  \* the effects that are there
    wanted,    \* the effects an attempt may still bring
    attempt,   \* per client: the effect its attempt is for, if any
    dead,      \* the clients whose attempt has no effect any more
    garbled,   \* the clients whose attempt met something unreadable
    told       \* per client: the answer

vars == <<happened, wanted, attempt, dead, garbled, told>>

Init ==
    /\ happened \subseteq Effects
    /\ wanted = {}
    /\ attempt = [c \in Clients |-> {}]
    /\ dead = {} /\ garbled = {}
    /\ told = [c \in Clients |-> "none"]

\* A question after the effect does not ask for it.
Ask(c, e) ==
    /\ attempt[c] = {}
    /\ attempt' = [attempt EXCEPT ![c] = {e}]
    /\ wanted' \in {wanted, wanted \cup {e}}
    /\ UNCHANGED <<happened, dead, garbled, told>>

Happen(e) ==
    /\ e \in wanted
    /\ happened' = happened \cup {e}
    /\ wanted' \in {wanted, wanted \ {e}}
    /\ UNCHANGED <<attempt, dead, garbled, told>>

Die(c) ==
    /\ attempt[c] # {}
    /\ dead' = dead \cup {c}
    /\ wanted' \in {wanted, wanted \ attempt[c]}
    /\ UNCHANGED <<happened, attempt, garbled, told>>

\* The answer; what it rests on may have become so in the same step.
Tell(c, answer) ==
    /\ told[c] = "none" /\ attempt[c] # {}
    /\ answer = "done" => attempt[c] \subseteq happened
    /\ answer = "failed" => c \in dead \cup garbled'
    /\ told' = [told EXCEPT ![c] = answer]
    /\ garbled' \in {garbled, garbled \cup {c}}
    /\ wanted' \in {wanted, wanted \ attempt[c]}
    /\ UNCHANGED <<happened, attempt, dead>>

Leave(c) ==
    /\ attempt' = [attempt EXCEPT ![c] = {}]
    /\ dead' = dead \ {c} /\ garbled' = garbled \ {c}
    /\ told' = [told EXCEPT ![c] = "none"]
    /\ UNCHANGED <<happened, wanted>>

Next ==
    \/ \E c \in Clients :
        \/ \E e \in Effects : Ask(c, e)
        \/ Die(c)
        \/ \E answer \in {"done", "failed", "unknown"} : Tell(c, answer)
        \/ Leave(c)
    \/ \E e \in Effects : Happen(e)

Spec == Init /\ [][Next]_vars
=============================================================================
