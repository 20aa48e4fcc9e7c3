------------------------------- MODULE Outbox -------------------------------
(***************************************************************************)
(* The transactional outbox: enqueue inside a request's transaction, and   *)
(* the polling publishers that claim rows with a compare-and-set on        *)
(* lockedAt, publish them to the stream and (integration events) to the    *)
(* event bus, and mark them published (events/outbox.service.ts,           *)
(* workers/outbox-worker.ts).                                              *)
(*                                                                         *)
(* Every await of publishPending/claimOne is a step of its own, so that    *)
(* publishers interleave between them.  A timestamp is kept as what the    *)
(* code compares it with: availableAt as "is it due", lockedAt as free,    *)
(* fresh or stale (older than five minutes).                               *)
(***************************************************************************)
EXTENDS Naturals, FiniteSets

CONSTANTS
    Events,             \* the outbox rows that requests may write
    IntegrationEvents,  \* those whose type is also forwarded to the event bus
    NoRow,              \* null
    Workers,            \* the publisher processes
    Limit,              \* OUTBOX_BATCH_SIZE: rows a publisher takes per poll
    MaxFailures,        \* bound: an event's publishes stop failing after this many
    MaxCrashes          \* bound: publisher crashes, in all

ASSUME IntegrationAssumption == IntegrationEvents \subseteq Events
ASSUME NoRowAssumption == NoRow \notin Events
ASSUME WorkersAssumption == IsFiniteSet(Workers)
ASSUME LimitAssumption == Limit \in Nat \ {0}
ASSUME BoundsAssumption == MaxFailures \in Nat /\ MaxCrashes \in Nat

VARIABLES
    \* columns of outbox_events
    txn,        \* the writing transaction: "none", "open", "committed", "aborted"
    clock,      \* the next createdAt
    createdAt,  \* Events -> Nat
    published,  \* publishedAt is set
    locked,     \* lockedAt: "free", "fresh" or "stale"
    available,  \* availableAt has passed
    \* locals of each publisher
    pc,         \* where it is in publishPending
    row,        \* the row it looked up or claimed
    sawStale,   \* that row's lockedAt was older than the `stale` it computed
    iter,       \* i, the rows it has taken in this batch
    \* what the stream and the bus have accepted
    streamed, bused,
    \* history: what has happened so far, read by properties and bounds only
    claims, failures, expiries, crashes

rowVars     == <<txn, clock, createdAt, published, locked, available>>
workerVars  == <<pc, row, sawStale, iter>>
brokerVars  == <<streamed, bused>>
historyVars == <<claims, failures, expiries, crashes>>
vars        == <<rowVars, workerVars, brokerVars, historyVars>>

Steps == {"sleep", "find", "claim", "stream", "bus", "mark", "fail", "down"}
InFlight == {"stream", "bus", "mark", "fail"}

TypeOK ==
    /\ txn \in [Events -> {"none", "open", "committed", "aborted"}]
    /\ clock \in Nat
    /\ createdAt \in [Events -> Nat]
    /\ published \in [Events -> BOOLEAN]
    /\ locked \in [Events -> {"free", "fresh", "stale"}]
    /\ available \in [Events -> BOOLEAN]
    /\ pc \in [Workers -> Steps]
    /\ row \in [Workers -> Events \union {NoRow}]
    /\ sawStale \in [Workers -> BOOLEAN]
    /\ iter \in [Workers -> 0 .. Limit - 1]
    /\ streamed \in [Events -> Nat]
    /\ bused \in [Events -> Nat]
    /\ claims \in [Events -> Nat]
    /\ failures \in [Events -> Nat]
    /\ expiries \in [Events -> Nat]
    /\ crashes \in Nat

Init ==
    /\ txn = [e \in Events |-> "none"]
    /\ clock = 1
    /\ createdAt = [e \in Events |-> 0]
    /\ published = [e \in Events |-> FALSE]
    /\ locked = [e \in Events |-> "free"]
    /\ available = [e \in Events |-> TRUE]
    /\ pc = [w \in Workers |-> "find"]
    /\ row = [w \in Workers |-> NoRow]
    /\ sawStale = [w \in Workers |-> FALSE]
    /\ iter = [w \in Workers |-> 0]
    /\ streamed = [e \in Events |-> 0]
    /\ bused = [e \in Events |-> 0]
    /\ claims = [e \in Events |-> 0]
    /\ failures = [e \in Events |-> 0]
    /\ expiries = [e \in Events |-> 0]
    /\ crashes = 0

-----------------------------------------------------------------------------
(* The request side. *)

\* The business write and the outbox insert, inside an open transaction:
\* publishers do not see the row yet.
Enqueue(e) ==
    /\ txn[e] = "none"
    /\ txn' = [txn EXCEPT ![e] = "open"]
    /\ createdAt' = [createdAt EXCEPT ![e] = clock]
    /\ clock' = clock + 1
    /\ UNCHANGED <<published, locked, available, workerVars, brokerVars, historyVars>>

\* The transaction ends either way; createdAt order need not be commit order.
EndTransaction(e) ==
    /\ txn[e] = "open"
    /\ \E outcome \in {"committed", "aborted"} : txn' = [txn EXCEPT ![e] = outcome]
    /\ UNCHANGED <<clock, createdAt, published, locked, available,
                   workerVars, brokerVars, historyVars>>

-----------------------------------------------------------------------------
(* Time. *)

\* Five minutes pass on a claim: `lockedAt < now - 5min` becomes true.
LeaseExpires(e) ==
    /\ locked[e] = "fresh"
    /\ locked' = [locked EXCEPT ![e] = "stale"]
    /\ expiries' = [expiries EXCEPT ![e] = @ + 1]
    /\ UNCHANGED <<txn, clock, createdAt, published, available,
                   workerVars, brokerVars, claims, failures, crashes>>

\* The back-off of a failed row is over: `availableAt <= now` becomes true.
BackoffElapses(e) ==
    /\ ~available[e]
    /\ available' = [available EXCEPT ![e] = TRUE]
    /\ UNCHANGED <<txn, clock, createdAt, published, locked,
                   workerVars, brokerVars, historyVars>>

-----------------------------------------------------------------------------
(* A publisher. *)

Goto(w, step) == pc' = [pc EXCEPT ![w] = step]

\* claimOne returned null, or the loop is over: the batch ends and the worker
\* sleeps OUTBOX_POLL_MS.
EndBatch(w) ==
    /\ Goto(w, "sleep")
    /\ row' = [row EXCEPT ![w] = NoRow]
    /\ iter' = [iter EXCEPT ![w] = 0]

\* The row is dealt with: next turn of the for loop.
NextRow(w) ==
    IF iter[w] + 1 < Limit
    THEN /\ Goto(w, "find")
         /\ row' = [row EXCEPT ![w] = NoRow]
         /\ iter' = [iter EXCEPT ![w] = @ + 1]
    ELSE EndBatch(w)

WakeUp(w) ==
    /\ pc[w] = "sleep"
    /\ Goto(w, "find")
    /\ UNCHANGED <<rowVars, row, sawStale, iter, brokerVars, historyVars>>

\* Seeded bug: findFirst only looks for unlocked rows.
EligibleUnlocked(e) ==
    /\ txn[e] = "committed"
    /\ ~published[e]
    /\ available[e]
    /\ locked[e] = "free"

\* What findFirst selects.
Eligible(e) ==
    /\ txn[e] = "committed"
    /\ ~published[e]
    /\ available[e]
    /\ locked[e] \in {"free", "stale"}

FindOldest(w) ==
    /\ pc[w] = "find"
    /\ \E e \in Events :
        /\ Eligible(e)
        /\ \A f \in Events : Eligible(f) => createdAt[e] <= createdAt[f]
        /\ row' = [row EXCEPT ![w] = e]
        /\ sawStale' = [sawStale EXCEPT ![w] = (locked[e] = "stale")]
    /\ Goto(w, "claim")
    /\ UNCHANGED <<rowVars, iter, brokerVars, historyVars>>

FindNothing(w) ==
    /\ pc[w] = "find"
    /\ \A e \in Events : ~Eligible(e)
    /\ EndBatch(w)
    /\ UNCHANGED <<rowVars, sawStale, brokerVars, historyVars>>

\* Seeded bugs: the updateMany drops a part of its condition.
ClaimableThoughPublished(w) == locked[row[w]] = "free" \/ sawStale[w]
ClaimableThoughLocked(w) == ~published[row[w]]

\* The condition of the updateMany.  `stale` was computed before findFirst: a
\* lock that has grown stale since, or was taken since, does not match.
Claimable(w) ==
    /\ ~published[row[w]]
    /\ locked[row[w]] = "free" \/ sawStale[w]

\* count = 1: the claim is this worker's.  The findUnique that follows re-reads
\* columns no other step changes (a failure in it kills the process: Crash).
Claim(w) ==
    /\ pc[w] = "claim"
    /\ Claimable(w)
    /\ locked' = [locked EXCEPT ![row[w]] = "fresh"]
    /\ sawStale' = [v \in Workers |-> sawStale[v] /\ v # w /\ row[v] # row[w]]
    /\ claims' = [claims EXCEPT ![row[w]] = @ + 1]
    /\ Goto(w, "stream")
    /\ UNCHANGED <<txn, clock, createdAt, published, available,
                   row, iter, brokerVars, failures, expiries, crashes>>

\* count = 0: another publisher was faster, and claimOne's null ends the batch.
ClaimLost(w) ==
    /\ pc[w] = "claim"
    /\ ~Claimable(w)
    /\ EndBatch(w)
    /\ sawStale' = [sawStale EXCEPT ![w] = FALSE]
    /\ UNCHANGED <<rowVars, brokerVars, historyVars>>

CanFail(e) == failures[e] < MaxFailures

\* The provider stores the event: producer.send, and PutEvents.
StreamAccepts(e) == streamed' = [streamed EXCEPT ![e] = @ + 1]
BusAccepts(e) == bused' = [bused EXCEPT ![e] = @ + 1]

\* Where publishPending goes once the stream has acknowledged row e.
AfterStream(e) == IF e \in IntegrationEvents THEN "bus" ELSE "mark"

\* Seeded bug: publish is not awaited, so its error is not seen.
StreamPublishUnawaited(w) ==
    LET e == row[w] IN
    /\ pc[w] = "stream"
    /\ \/ StreamAccepts(e)
       \/ CanFail(e) /\ UNCHANGED streamed
    /\ Goto(w, AfterStream(e))
    /\ UNCHANGED <<rowVars, row, sawStale, iter, bused, historyVars>>

\* stream.publish: acknowledged; or an error, which may have come after the
\* broker had stored the event.
StreamPublish(w) ==
    LET e == row[w] IN
    /\ pc[w] = "stream"
    /\ \/ /\ StreamAccepts(e)
          /\ Goto(w, AfterStream(e))
       \/ /\ CanFail(e)
          /\ StreamAccepts(e)
          /\ Goto(w, "fail")
       \/ /\ CanFail(e)
          /\ Goto(w, "fail")
          /\ UNCHANGED streamed
    /\ UNCHANGED <<rowVars, row, sawStale, iter, bused, historyVars>>

\* Seeded bug: a bus error is caught and dropped.
BusPublishIgnoringErrors(w) ==
    LET e == row[w] IN
    /\ pc[w] = "bus"
    /\ \/ BusAccepts(e)
       \/ CanFail(e) /\ UNCHANGED bused
    /\ Goto(w, "mark")
    /\ UNCHANGED <<rowVars, row, sawStale, iter, streamed, historyVars>>

\* eventBus.publish, with the same three outcomes.
BusPublish(w) ==
    LET e == row[w] IN
    /\ pc[w] = "bus"
    /\ \/ /\ BusAccepts(e)
          /\ Goto(w, "mark")
       \/ /\ CanFail(e)
          /\ BusAccepts(e)
          /\ Goto(w, "fail")
       \/ /\ CanFail(e)
          /\ Goto(w, "fail")
          /\ UNCHANGED bused
    /\ UNCHANGED <<rowVars, row, sawStale, iter, streamed, historyVars>>

\* Seeded bug: the success update only unlocks.
SetUnlocked(e) ==
    /\ locked' = [locked EXCEPT ![e] = "free"]
    /\ UNCHANGED published

\* The columns the success update writes, by id and with no further condition.
SetPublished(e) ==
    /\ published' = [published EXCEPT ![e] = TRUE]
    /\ locked' = [locked EXCEPT ![e] = "free"]

MarkPublished(w) ==
    /\ pc[w] = "mark"
    /\ SetPublished(row[w])
    /\ NextRow(w)
    /\ UNCHANGED <<txn, clock, createdAt, available, sawStale, brokerVars, historyVars>>

\* The update fails, before or after the database applied it: the catch block
\* treats the published event as a failed one.
MarkFails(w) ==
    /\ pc[w] = "mark"
    /\ CanFail(row[w])
    /\ SetPublished(row[w]) \/ UNCHANGED <<published, locked>>
    /\ Goto(w, "fail")
    /\ UNCHANGED <<txn, clock, createdAt, available, row, sawStale, iter,
                   brokerVars, historyVars>>

\* The columns the failure update writes, by id: whoever holds the claim.
Release(e) ==
    /\ locked' = [locked EXCEPT ![e] = "free"]
    /\ available' = [available EXCEPT ![e] = FALSE]

\* The catch block.  Its update may fail too, and the error is dropped.
RecordFailure(w) ==
    /\ pc[w] = "fail"
    /\ Release(row[w]) \/ UNCHANGED <<locked, available>>
    /\ failures' = [failures EXCEPT ![row[w]] = @ + 1]
    /\ NextRow(w)
    /\ UNCHANGED <<txn, clock, createdAt, published, sawStale, brokerVars,
                   claims, expiries, crashes>>

\* The process dies: killed, SIGTERM (the exit does not wait for the batch), or
\* a database error in claimOne, which nothing catches.
Crash(w) ==
    /\ pc[w] # "down"
    /\ crashes < MaxCrashes
    /\ Goto(w, "down")
    /\ row' = [row EXCEPT ![w] = NoRow]
    /\ iter' = [iter EXCEPT ![w] = 0]
    /\ sawStale' = [sawStale EXCEPT ![w] = FALSE]
    /\ crashes' = crashes + 1
    /\ UNCHANGED <<rowVars, brokerVars, claims, failures, expiries>>

Restart(w) ==
    /\ pc[w] = "down"
    /\ Goto(w, "find")
    /\ UNCHANGED <<rowVars, row, sawStale, iter, brokerVars, historyVars>>

-----------------------------------------------------------------------------
\* One turn of a publisher's loop, as its own code takes it.
Publish(w) ==
    \/ WakeUp(w) \/ FindOldest(w) \/ FindNothing(w) \/ Claim(w) \/ ClaimLost(w)
    \/ StreamPublish(w) \/ BusPublish(w) \/ MarkPublished(w) \/ MarkFails(w)
    \/ RecordFailure(w)

Next ==
    \/ \E e \in Events : Enqueue(e) \/ EndTransaction(e) \/ LeaseExpires(e) \/ BackoffElapses(e)
    \/ \E w \in Workers : Publish(w) \/ Crash(w) \/ Restart(w)

Spec == Init /\ [][Next]_vars

\* Publishers keep running, a supervisor restarts a dead one, and time passes.
\* Requests owe nothing: a transaction may never be opened or stay open.
Fairness ==
    /\ \A w \in Workers : WF_vars(Publish(w)) /\ WF_vars(Restart(w))
    /\ \A e \in Events : WF_vars(LeaseExpires(e)) /\ WF_vars(BackoffElapses(e))

FairSpec == Spec /\ Fairness
=============================================================================
