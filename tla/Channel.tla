------------------------------ MODULE Channel ------------------------------
(***************************************************************************)
(* What the session promises its user about the channel, without threads,  *)
(* events or windows.  In one generation (the time between two resets) the *)
(* channel is attempted at most once, for a key that is fixed when the     *)
(* attempt starts; the attempt opens it with that key or fails; an open    *)
(* channel may be lost, and then only a reset brings another one.          *)
(***************************************************************************)
EXTENDS Naturals

CONSTANTS
    Keys,         \* the keys a channel can be attempted with
    None          \* no key

VARIABLES
    generation,   \* how many resets there have been
    phase,        \* where the channel of this generation stands
    agreed,       \* the key the attempt was started with
    channel_key   \* the key the channel was verified with

vars == <<generation, phase, agreed, channel_key>>

TypeOK ==
    /\ generation \in Nat
    /\ phase \in {"idle", "pending", "open", "failed", "lost"}
    /\ agreed \in Keys \cup {None}
    /\ channel_key \in Keys \cup {None}

Init ==
    /\ generation = 0
    /\ phase = "idle"
    /\ agreed = None
    /\ channel_key = None

Start(key) ==
    /\ phase = "idle"
    /\ phase' = "pending"
    /\ agreed' = key
    /\ UNCHANGED <<generation, channel_key>>

Reset ==
    /\ generation' = generation + 1
    /\ phase' = "idle"
    /\ agreed' = None
    /\ channel_key' = None

(* A confirmed new session and a retry reset the attempt and start the     *)
(* next one in the same handler.                                           *)
Restart(key) ==
    /\ generation' = generation + 1
    /\ phase' = "pending"
    /\ agreed' = key
    /\ channel_key' = None

Open ==
    /\ phase = "pending"
    /\ phase' = "open"
    /\ channel_key' = agreed
    /\ UNCHANGED <<generation, agreed>>

Fail ==
    /\ phase = "pending"
    /\ phase' = "failed"
    /\ UNCHANGED <<generation, agreed, channel_key>>

Lose ==
    /\ phase = "open"
    /\ phase' = "lost"
    /\ UNCHANGED <<generation, agreed, channel_key>>

Next ==
    \/ \E key \in Keys : Start(key) \/ Restart(key)
    \/ Reset
    \/ Open
    \/ Fail
    \/ Lose

Spec == Init /\ [][Next]_vars

(* An attempt that has started opens its channel or fails, unless a reset  *)
(* overtakes it.                                                           *)
FairSpec == Spec /\ WF_vars(Open \/ Fail)
=============================================================================
