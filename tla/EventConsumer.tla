--------------------------- MODULE EventConsumer ---------------------------
(***************************************************************************)
(* One consumer group on one partition of a topic: the stream delivers     *)
(* events at least once, EventConsumerService.processOnce inserts a        *)
(* receipt, runs the handler, and takes the receipt back when it throws.   *)
(* The five groups of event-consumer-worker.ts differ in their handlers    *)
(* only, and receipts carry the consumer's name, so one group is modelled. *)
(***************************************************************************)
EXTENDS Naturals, Sequences

CONSTANTS
    Events,         \* the events on the partition
    Instances,      \* processes of the group
    None,           \* no instance
    MaxLog,         \* bound: messages on the partition
    MaxFailures,    \* bound: failing attempts of one event
    MaxCrashes,     \* bound: crashes, in all
    MaxRebalances   \* bound: times the partition moves from a live instance

ASSUME NoneAssumption == None \notin Instances
ASSUME BoundsAssumption == {MaxLog, MaxFailures, MaxCrashes, MaxRebalances} \subseteq Nat

VARIABLES
    \* the stream
    log,            \* Seq(Events); an event may stand on it more than once
    joined,         \* the group has an offset
    start,          \* where it began: messages up to here are never delivered
    offset,         \* last committed position
    owner,          \* the instance the partition is assigned to
    \* each instance
    pc,             \* where it is in eachMessage
    pos,            \* the last message it resolved, or the one in hand
    \* the database, and whatever the handler acts on
    receipts,       \* events with a ProcessedEvent row
    effects,        \* how often an event's handler took effect
    \* history, read by properties and bounds only
    failures,       \* attempts at an event that threw
    failedEffects,  \* those of them that threw after the effect
    interrupted,    \* events whose attempt was cut off or left to a non-owner
    crashes, rebalances

streamVars  == <<log, joined, start, offset, owner>>
localVars   == <<pc, pos>>
dbVars      == <<receipts, effects>>
historyVars == <<failures, failedEffects, interrupted, crashes, rebalances>>
vars        == <<streamVars, localVars, dbVars, historyVars>>

Steps == {"idle", "insert", "handle", "cleanup", "down"}

TypeOK ==
    /\ log \in Seq(Events)
    /\ joined \in BOOLEAN
    /\ start \in 0 .. Len(log)
    /\ offset \in start .. Len(log)
    /\ owner \in Instances \union {None}
    /\ pc \in [Instances -> Steps]
    /\ pos \in [Instances -> 0 .. Len(log)]
    /\ receipts \subseteq Events
    /\ effects \in [Events -> Nat]
    /\ failures \in [Events -> Nat]
    /\ failedEffects \in [Events -> Nat]
    /\ interrupted \subseteq Events
    /\ crashes \in Nat
    /\ rebalances \in Nat

Init ==
    /\ log = <<>>
    /\ joined = FALSE
    /\ start = 0
    /\ offset = 0
    /\ owner = None
    /\ pc = [i \in Instances |-> "idle"]
    /\ pos = [i \in Instances |-> 0]
    /\ receipts = {}
    /\ effects = [e \in Events |-> 0]
    /\ failures = [e \in Events |-> 0]
    /\ failedEffects = [e \in Events |-> 0]
    /\ interrupted = {}
    /\ crashes = 0
    /\ rebalances = 0

-----------------------------------------------------------------------------
(* The stream. *)

\* The outbox publishes e, perhaps again.
Publish(e) ==
    /\ Len(log) < MaxLog
    /\ log' = Append(log, e)
    /\ UNCHANGED <<joined, start, offset, owner, localVars, dbVars, historyVars>>

\* fromBeginning: false: a group without an offset starts at the end.
Subscribe ==
    /\ ~joined
    /\ joined' = TRUE
    /\ start' = Len(log)
    /\ offset' = Len(log)
    /\ UNCHANGED <<log, owner, localVars, dbVars, historyVars>>

\* The event of the message in hand, and who has one in hand.
Current(i) == log[pos[i]]
Busy(i) == pc[i] \in {"insert", "handle", "cleanup"}

\* i has inserted its event's receipt and is not done with it.
Holds(i) == pc[i] \in {"handle", "cleanup"}

\* No live instance has the partition.
Unowned == owner \notin {j \in Instances : pc[j] # "down"}

\* The partition goes to i, which resumes after the committed offset.  The old
\* owner may be a live one that was too slow: it finishes its message all the
\* same.
Assign(i) ==
    /\ joined /\ owner # i /\ pc[i] = "idle"
    /\ Unowned \/ rebalances < MaxRebalances
    /\ owner' = i
    /\ pos' = [pos EXCEPT ![i] = offset]
    /\ rebalances' = IF Unowned THEN rebalances ELSE rebalances + 1
    /\ interrupted' = interrupted \union {Current(j) : j \in {owner} \cap {k \in Instances : Busy(k)}}
    /\ UNCHANGED <<log, joined, start, offset, pc, dbVars, failures, failedEffects, crashes>>

\* Offsets of resolved messages are committed by the owner, some time later.
CommitOffset(i) ==
    /\ owner = i /\ pc[i] = "idle" /\ pos[i] > offset
    /\ offset' = pos[i]
    /\ UNCHANGED <<log, joined, start, owner, localVars, dbVars, historyVars>>

-----------------------------------------------------------------------------
(* eachMessage, which calls processOnce. *)

Goto(i, step) == pc' = [pc EXCEPT ![i] = step]

Receive(i) ==
    /\ owner = i /\ pc[i] = "idle" /\ pos[i] < Len(log)
    /\ pos' = [pos EXCEPT ![i] = @ + 1]
    /\ Goto(i, "insert")
    /\ UNCHANGED <<streamVars, dbVars, historyVars>>

\* eachMessage throws: the message is not resolved and will be delivered again.
Throw(i) ==
    /\ Goto(i, "idle")
    /\ pos' = [pos EXCEPT ![i] = @ - 1]

CanFail(e) == failures[e] < MaxFailures
Failed(e) == failures' = [failures EXCEPT ![e] = @ + 1]

\* Seeded bug: the receipt is keyed by the message, not by the event.
InsertReceiptByMessage(i) ==
    /\ pc[i] = "insert"
    /\ receipts' = receipts \union {pos[i]}
    /\ Goto(i, "handle")
    /\ UNCHANGED <<streamVars, pos, effects, historyVars>>

\* Seeded bug: the receipt is upserted, so a duplicate runs the handler again.
InsertReceiptUpsert(i) ==
    /\ pc[i] = "insert"
    /\ receipts' = receipts \union {Current(i)}
    /\ Goto(i, "handle")
    /\ UNCHANGED <<streamVars, pos, effects, historyVars>>

\* processedEvent.create succeeds: the handler may run.
InsertReceipt(i) ==
    /\ pc[i] = "insert"
    /\ Current(i) \notin receipts
    /\ receipts' = receipts \union {Current(i)}
    /\ Goto(i, "handle")
    /\ UNCHANGED <<streamVars, pos, effects, historyVars>>

\* Seeded bug: P2002 is rethrown like any other error.
SkipDuplicateRethrows(i) ==
    /\ pc[i] = "insert"
    /\ Current(i) \in receipts
    /\ Throw(i)
    /\ UNCHANGED <<streamVars, dbVars, historyVars>>

\* P2002: somebody has inserted the receipt.  processOnce returns false and the
\* message is resolved.
SkipDuplicate(i) ==
    /\ pc[i] = "insert"
    /\ Current(i) \in receipts
    /\ Goto(i, "idle")
    /\ UNCHANGED <<streamVars, pos, dbVars, historyVars>>

\* Any other database error is rethrown; the insert may have been applied.
InsertFails(i) ==
    LET e == Current(i) IN
    /\ pc[i] = "insert"
    /\ e \notin receipts
    /\ CanFail(e)
    /\ Failed(e)
    /\ \/ receipts' = receipts \union {e} /\ interrupted' = interrupted \union {e}
       \/ UNCHANGED <<receipts, interrupted>>
    /\ Throw(i)
    /\ UNCHANGED <<streamVars, effects, failedEffects, crashes, rebalances>>

Handle(i) ==
    /\ pc[i] = "handle"
    /\ effects' = [effects EXCEPT ![Current(i)] = @ + 1]
    /\ Goto(i, "idle")
    /\ UNCHANGED <<streamVars, pos, receipts, historyVars>>

\* The handler throws, perhaps after its effect (an insert or a send whose
\* answer was lost).
HandleFails(i) ==
    LET e == Current(i) IN
    /\ pc[i] = "handle"
    /\ CanFail(e)
    /\ Failed(e)
    /\ \/ /\ effects' = [effects EXCEPT ![e] = @ + 1]
          /\ failedEffects' = [failedEffects EXCEPT ![e] = @ + 1]
       \/ UNCHANGED <<effects, failedEffects>>
    /\ Goto(i, "cleanup")
    /\ UNCHANGED <<streamVars, pos, receipts, interrupted, crashes, rebalances>>

\* Seeded bug: the error is rethrown without deleting the receipt.
DeleteReceiptForgotten(i) ==
    /\ pc[i] = "cleanup"
    /\ Throw(i)
    /\ UNCHANGED <<streamVars, dbVars, historyVars>>

\* The receipt is taken back and the handler's error rethrown.
DeleteReceipt(i) ==
    /\ pc[i] = "cleanup"
    /\ receipts' = receipts \ {Current(i)}
    /\ Throw(i)
    /\ UNCHANGED <<streamVars, effects, historyVars>>

\* deleteMany throws instead, before or after it was applied.
DeleteFails(i) ==
    /\ pc[i] = "cleanup"
    /\ \/ /\ interrupted' = interrupted \union {Current(i)}
          /\ UNCHANGED receipts
       \/ /\ receipts' = receipts \ {Current(i)}
          /\ UNCHANGED interrupted
    /\ Throw(i)
    /\ UNCHANGED <<streamVars, effects, failures, failedEffects, crashes, rebalances>>

\* The process dies; nothing it holds is undone.
Crash(i) ==
    /\ pc[i] # "down"
    /\ crashes < MaxCrashes
    /\ crashes' = crashes + 1
    /\ interrupted' = IF Busy(i) THEN interrupted \union {Current(i)} ELSE interrupted
    /\ Goto(i, "down")
    /\ pos' = [pos EXCEPT ![i] = 0]
    /\ UNCHANGED <<streamVars, dbVars, failures, failedEffects, rebalances>>

\* The process comes back.  If its partition went nowhere, it is assigned again.
Restart(i) ==
    /\ pc[i] = "down"
    /\ Goto(i, "idle")
    /\ owner' = IF owner = i THEN None ELSE owner
    /\ UNCHANGED <<log, joined, start, offset, pos, dbVars, historyVars>>

-----------------------------------------------------------------------------
\* One message through eachMessage.
Process(i) ==
    \/ Receive(i) \/ InsertReceipt(i) \/ SkipDuplicate(i) \/ InsertFails(i)
    \/ Handle(i) \/ HandleFails(i) \/ DeleteReceipt(i) \/ DeleteFails(i)

Next ==
    \/ \E e \in Events : Publish(e)
    \/ Subscribe
    \/ \E i \in Instances :
          Assign(i) \/ CommitOffset(i) \/ Process(i) \/ Crash(i) \/ Restart(i)

Spec == Init /\ [][Next]_vars

\* Instances run and are restarted, the group keeps an owner and commits.
Fairness ==
    /\ WF_vars(Subscribe)
    /\ \A i \in Instances :
          /\ WF_vars(Process(i))
          /\ WF_vars(Restart(i))
          /\ WF_vars(Unowned /\ Assign(i))
          /\ WF_vars(CommitOffset(i))

FairSpec == Spec /\ Fairness

-----------------------------------------------------------------------------
(* Properties. *)

Delivered == start + 1 .. offset

\* The receipt is a lock: an event's handler never runs in two instances at
\* once, however the partition moves and whatever duplicates the log carries.
OneHandlerAtATime ==
    \A i, j \in Instances : Holds(i) /\ Holds(j) /\ Current(i) = Current(j) => i = j

\* An effect is repeated only after a run that threw having already had it.
RepeatsAccounted == \A e \in Events : effects[e] <= 1 + failedEffects[e]

\* A message is committed without its effect only if an attempt at its event
\* was cut off: by a crash, a lost database answer, or a move of the partition.
LossesAccounted ==
    \A p \in Delivered : effects[log[p]] > 0 \/ log[p] \in interrupted

\* Once a run has finished, its receipt stays and the effect is not repeated,
\* not even by an instance that had lost the partition half-way.
FinishedStaysFinished ==
    [][\A e \in Events : (e \in receipts /\ effects[e] > failedEffects[e]) =>
          e \in receipts' /\ effects'[e] = effects[e]]_vars

\* The partition is never stuck: each message after the start is committed.
EventuallyCommitted ==
    \A p \in 1 .. MaxLog : (joined /\ start < p /\ p <= Len(log)) ~> (offset >= p)

-----------------------------------------------------------------------------
(* The inductive invariant behind the safety properties. *)

\* A message in hand is on the log.
BusyInv == \A i \in Instances : Busy(i) => pos[i] > 0

\* An instance in a handler has the receipt of its event.
HolderInv == \A i \in Instances : Holds(i) => Current(i) \in receipts

\* Before a receipt is there, and while it is held, no run has finished.
EffectInv ==
    \A e \in Events :
        \/ effects[e] <= failedEffects[e]
        \/ e \in receipts /\ \A i \in Instances : Holds(i) => Current(i) # e

\* Nothing is lost of an event that had its effect or was reported interrupted.
Safe(e) == effects[e] > 0 \/ e \in interrupted

\* A message finished by an instance that lost the partition was reported.
NonOwnerInv == \A i \in Instances : Busy(i) /\ owner # i => Current(i) \in interrupted

\* A receipt whose event is not safe is held.
ReceiptInv == \A e \in receipts : Safe(e) \/ \E i \in Instances : Holds(i) /\ Current(i) = e

\* What the owner has resolved is safe.
ResolvedInv ==
    \A i \in Instances : owner = i =>
        \A p \in start + 1 .. pos[i] : Safe(log[p]) \/ (p = pos[i] /\ Busy(i))

\* An inductive strengthening of the safety properties above.
IInv ==
    /\ TypeOK /\ BusyInv
    /\ HolderInv /\ OneHandlerAtATime
    /\ EffectInv /\ RepeatsAccounted
    /\ NonOwnerInv /\ ReceiptInv /\ ResolvedInv
    /\ LossesAccounted
=============================================================================
