---------------------------- MODULE EventDelivery ----------------------------
(***************************************************************************)
(* What the outbox promises to those who write events to it: a committed   *)
(* event reaches every channel of its route at least once before it is     *)
(* settled, an uncommitted one reaches none, and every committed event is  *)
(* settled in the end (docs/OUTBOX-PATTERN.md, "Publisher").  Nothing is   *)
(* said about duplicates or about order.                                   *)
(***************************************************************************)
EXTENDS Naturals

CONSTANTS
    Events,     \* the events that may be committed
    Channels,   \* where events are delivered to
    Route       \* Events -> SUBSET Channels: the channels an event must reach

VARIABLES
    committed,  \* SUBSET Events
    delivered,  \* Channels -> [Events -> Nat], how often a channel accepted an event
    settled     \* SUBSET Events, no longer the outbox's business

vars == <<committed, delivered, settled>>

Init ==
    /\ committed = {}
    /\ delivered = [c \in Channels |-> [e \in Events |-> 0]]
    /\ settled = {}

Commit(e) ==
    /\ e \notin committed
    /\ committed' = committed \union {e}
    /\ UNCHANGED <<delivered, settled>>

Deliver(e, c) ==
    /\ e \in committed
    /\ c \in Route[e]
    /\ delivered' = [delivered EXCEPT ![c][e] = @ + 1]
    /\ UNCHANGED <<committed, settled>>

Settle(e) ==
    /\ e \notin settled
    /\ \A c \in Route[e] : delivered[c][e] > 0
    /\ settled' = settled \union {e}
    /\ UNCHANGED <<committed, delivered>>

Next == \E e \in Events : Commit(e) \/ Settle(e) \/ \E c \in Channels : Deliver(e, c)

Spec == Init /\ [][Next]_vars

\* No committed event is forgotten.
AllSettled == \A e \in Events : e \in committed ~> e \in settled
=============================================================================
