-------------------------- MODULE OutboxProperties --------------------------
(***************************************************************************)
(* What the outbox of module Outbox guarantees, the contract it            *)
(* implements, and the inductive invariant its safety rests on.            *)
(***************************************************************************)
EXTENDS Outbox

\* A row is marked published only after the stream, and for an integration
\* event also the bus, has accepted it: no failure path marks a row early.
PublishedWasDelivered ==
    \A e \in Events : published[e] =>
        /\ streamed[e] > 0
        /\ e \in IntegrationEvents => bused[e] > 0

\* The outbox is transactional: an event whose business transaction is still
\* open or was rolled back has reached nobody.
OnlyCommittedDelivered ==
    \A e \in Events : streamed[e] + bused[e] > 0 => txn[e] = "committed"

\* Two publishers work on the same row only after a claim on it has expired:
\* the compare-and-set and the releases keep publishers apart until then.
SinglePublisher ==
    \A e \in Events : expiries[e] = 0 =>
        \A v, w \in Workers :
            (pc[v] \in InFlight /\ row[v] = e /\ pc[w] \in InFlight /\ row[w] = e) => v = w

\* Every duplicate on the stream or the bus is paid for by a reported failure
\* or an expired claim of that event: with neither, delivery is exactly once.
DuplicatesAccounted ==
    \A e \in Events :
        /\ streamed[e] <= 1 + failures[e] + expiries[e]
        /\ bused[e] <= 1 + failures[e] + expiries[e]

\* A published row is never claimed again, whatever a publisher read before.
PublishedStaysSettled ==
    [][\A e \in Events : published[e] => published'[e] /\ claims'[e] = claims[e]]_vars

-----------------------------------------------------------------------------
(* The same schedule seen as EventDelivery: a delivery is an acceptance by *)
(* the broker, a settled event is a row marked published.                  *)

Delivery == INSTANCE EventDelivery WITH
    Channels  <- {"stream", "bus"},
    Route     <- [e \in Events |->
                    IF e \in IntegrationEvents THEN {"stream", "bus"} ELSE {"stream"}],
    committed <- {e \in Events : txn[e] = "committed"},
    delivered <- [c \in {"stream", "bus"} |-> IF c = "stream" THEN streamed ELSE bused],
    settled   <- {e \in Events : published[e]}

\* The publishers deliver what docs/OUTBOX-PATTERN.md promises: at least once,
\* nothing before its commit, and no row settled before its deliveries.
ImplementsDelivery == Delivery!Spec

\* ... and no committed event is forgotten: each is eventually marked published,
\* through failures, crashes with the claim held and failures of the failure update
\* itself, and though look-ups begin with the oldest row and a lost claim ends the
\* batch, in whatever order the requests' transactions commit.
EventuallyPublished == Delivery!AllSettled

-----------------------------------------------------------------------------
(* The inductive invariant behind the safety properties. *)

\* A publisher that holds a row holds a committed one; so are all rows that
\* were delivered or marked.
CommittedInv ==
    /\ \A w \in Workers : pc[w] \in InFlight \union {"claim"} =>
          row[w] \in Events /\ txn[row[w]] = "committed"
    /\ \A e \in Events : published[e] => txn[e] = "committed"

\* What a publisher past a publish step knows about the broker.
ProgressInv ==
    \A w \in Workers :
        /\ pc[w] \in {"bus", "mark"} => streamed[row[w]] > 0
        /\ pc[w] = "bus" => row[w] \in IntegrationEvents
        /\ pc[w] = "mark" /\ row[w] \in IntegrationEvents => bused[row[w]] > 0

\* Until a claim on e expires, its holder holds the lock or has marked the row,
\* and no publisher can have seen the lock stale.
LeaseInv ==
    /\ \A e \in Events : locked[e] = "stale" => expiries[e] > 0
    /\ \A w \in Workers : pc[w] = "claim" /\ sawStale[w] =>
          expiries[row[w]] > 0 /\ locked[row[w]] # "fresh"
    /\ \A w \in Workers : pc[w] \in InFlight /\ expiries[row[w]] = 0 =>
          locked[row[w]] = "fresh" \/ published[row[w]]

\* Claims of e are paid for by failures and expiries, except the current or the
\* last one.
ClaimsInv ==
    \A e \in Events :
        /\ claims[e] <= 1 + failures[e] + expiries[e]
        /\ locked[e] # "fresh" /\ ~published[e] => claims[e] <= failures[e] + expiries[e]

\* Publishers that have claimed e and still owe it to the stream, or the bus.
OwesStream(e) == {w \in Workers : pc[w] = "stream" /\ row[w] = e}
OwesBus(e) == {w \in Workers : pc[w] \in {"stream", "bus"} /\ row[w] = e}

\* Every publish spends a claim of its own.
SpendInv ==
    \A e \in Events :
        /\ streamed[e] + Cardinality(OwesStream(e)) <= claims[e]
        /\ bused[e] + Cardinality(OwesBus(e)) <= claims[e]

\* An inductive strengthening of the safety properties above.
IInv ==
    /\ TypeOK
    /\ CommittedInv
    /\ ProgressInv
    /\ LeaseInv
    /\ ClaimsInv
    /\ SpendInv
    /\ PublishedWasDelivered
    /\ OnlyCommittedDelivered
    /\ SinglePublisher
=============================================================================
