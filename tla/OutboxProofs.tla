---------------------------- MODULE OutboxProofs ----------------------------
(***************************************************************************)
(* TLAPS proofs of the safety properties of Outbox, for any set of events, *)
(* any finite set of publishers, and any batch size and bounds.            *)
(***************************************************************************)
EXTENDS OutboxProperties, FiniteSetTheorems, TLAPS

(* A worker step is one of the publisher's own, a crash or a restart. *)
WorkerStep(w) == Publish(w) \/ Crash(w) \/ Restart(w)
EventStep(e) == Enqueue(e) \/ EndTransaction(e) \/ LeaseExpires(e) \/ BackoffElapses(e)

\* A publisher with a row in hand has a row of the table (outbox.service.ts,
\* claimOne returns null or a row; publishPending breaks on null).
HasRow == \A w \in Workers : pc[w] \in InFlight \union {"claim"} => row[w] \in Events

-----------------------------------------------------------------------------
(* Type correctness. *)

LEMMA TypeInit == Init => TypeOK
  BY LimitAssumption DEF Init, TypeOK, Steps

\* The end of an iteration leaves the loop's locals in their types: the index
\* stays below the batch size.
LEMMA NextRowType ==
  ASSUME TypeOK, NEW w \in Workers, NextRow(w)
  PROVE  /\ pc' \in [Workers -> Steps]
         /\ row' \in [Workers -> Events \union {NoRow}]
         /\ iter' \in [Workers -> 0 .. Limit - 1]
<1> USE LimitAssumption DEF TypeOK, Steps, NextRow, EndBatch, Goto
<1>1. CASE iter[w] + 1 < Limit
  BY <1>1
<1>2. CASE ~(iter[w] + 1 < Limit)
  BY <1>2
<1> QED BY <1>1, <1>2

\* Each kind of step keeps every variable in its type, the batch index
\* included.
LEMMA TypeStep ==
  ASSUME TypeOK, HasRow, [Next]_vars
  PROVE  TypeOK'
<1> USE DEF rowVars, workerVars, brokerVars, historyVars
<1>1. ASSUME NEW e \in Events, EventStep(e) PROVE TypeOK'
  <2>1. CASE Enqueue(e)
    BY <2>1 DEF Enqueue, TypeOK
  <2>2. CASE EndTransaction(e)
    BY <2>2 DEF EndTransaction, TypeOK
  <2>3. CASE LeaseExpires(e)
    BY <2>3 DEF LeaseExpires, TypeOK
  <2>4. CASE BackoffElapses(e)
    BY <2>4 DEF BackoffElapses, TypeOK
  <2> QED BY <1>1, <2>1, <2>2, <2>3, <2>4 DEF EventStep
<1>2. ASSUME NEW w \in Workers, WorkerStep(w) PROVE TypeOK'
  <2> USE LimitAssumption DEF Goto, EndBatch, Steps
  <2>1. CASE WakeUp(w)
    BY <2>1 DEF WakeUp, TypeOK
  <2>2. CASE FindOldest(w)
    BY <2>2 DEF FindOldest, TypeOK
  <2>3. CASE FindNothing(w)
    BY <2>3 DEF FindNothing, TypeOK
  <2>4. CASE Claim(w)
    BY <2>4 DEF Claim, HasRow, TypeOK
  <2>5. CASE ClaimLost(w)
    BY <2>5 DEF ClaimLost, TypeOK
  <2>6. CASE StreamPublish(w)
    BY <2>6 DEF StreamPublish, StreamAccepts, AfterStream, TypeOK
  <2>7. CASE BusPublish(w)
    BY <2>7 DEF BusPublish, BusAccepts, TypeOK
  <2>8. CASE MarkPublished(w)
    <3>1. NextRow(w)
      BY <2>8 DEF MarkPublished
    <3> QED BY <2>8, <3>1, NextRowType DEF MarkPublished, SetPublished, TypeOK
  <2>9. CASE MarkFails(w)
    BY <2>9 DEF MarkFails, SetPublished, TypeOK
  <2>10. CASE RecordFailure(w)
    <3>1. NextRow(w)
      BY <2>10 DEF RecordFailure
    <3>2. locked' \in [Events -> {"free", "fresh", "stale"}] /\ available' \in [Events -> BOOLEAN]
      BY <2>10 DEF RecordFailure, Release, TypeOK
    <3>3. failures' \in [Events -> Nat]
      BY <2>10 DEF RecordFailure, HasRow, InFlight, TypeOK
    <3> QED BY <2>10, <3>1, <3>2, <3>3, NextRowType DEF RecordFailure, TypeOK
  <2>11. CASE Crash(w)
    BY <2>11 DEF Crash, TypeOK
  <2>12. CASE Restart(w)
    BY <2>12 DEF Restart, TypeOK
  <2> QED BY <1>2, <2>1, <2>2, <2>3, <2>4, <2>5, <2>6, <2>7, <2>8, <2>9, <2>10,
             <2>11, <2>12 DEF WorkerStep, Publish
<1>3. CASE UNCHANGED vars
  BY <1>3 DEF vars, TypeOK
<1> QED BY <1>1, <1>2, <1>3 DEF Next, EventStep, WorkerStep

-----------------------------------------------------------------------------
(* The parts of the inductive invariant, one lemma each. *)

\* The end of an iteration moves only its own publisher, to the top of the
\* loop or to sleep.
LEMMA NextRowFrame ==
  ASSUME TypeOK, NEW w \in Workers, NextRow(w)
  PROVE  /\ pc'[w] \in {"find", "sleep"}
         /\ \A v \in Workers : v # w => pc'[v] = pc[v] /\ row'[v] = row[v]
BY DEF TypeOK, NextRow, EndBatch, Goto

\* Only committed rows are found, claimed, published and marked.
LEMMA CommittedStep ==
  ASSUME IInv, [Next]_vars
  PROVE  CommittedInv'
<1> USE DEF rowVars, workerVars, brokerVars, historyVars
<1>1. ASSUME NEW e \in Events, EventStep(e) PROVE CommittedInv'
  <2>1. CASE Enqueue(e)
    BY <2>1 DEF Enqueue, IInv, TypeOK, CommittedInv, InFlight, Steps
  <2>2. CASE EndTransaction(e)
    BY <2>2 DEF EndTransaction, IInv, TypeOK, CommittedInv, InFlight, Steps
  <2>3. CASE LeaseExpires(e)
    BY <2>3 DEF LeaseExpires, IInv, TypeOK, CommittedInv, InFlight, Steps
  <2>4. CASE BackoffElapses(e)
    BY <2>4 DEF BackoffElapses, IInv, TypeOK, CommittedInv, InFlight, Steps
  <2> QED BY <1>1, <2>1, <2>2, <2>3, <2>4 DEF EventStep
<1>2. ASSUME NEW w \in Workers, WorkerStep(w) PROVE CommittedInv'
  <2>1. CASE WakeUp(w)
    BY <2>1 DEF WakeUp, Goto, IInv, TypeOK, CommittedInv, InFlight, Steps
  <2>2. CASE FindOldest(w)
    BY <2>2 DEF FindOldest, Goto, Eligible, IInv, TypeOK, CommittedInv, InFlight, Steps
  <2>3. CASE FindNothing(w)
    BY <2>3 DEF FindNothing, Goto, EndBatch, IInv, TypeOK, CommittedInv, InFlight, Steps
  <2>4. CASE Claim(w)
    BY <2>4 DEF Claim, Goto, Claimable, IInv, TypeOK, CommittedInv, InFlight, Steps
  <2>5. CASE ClaimLost(w)
    BY <2>5 DEF ClaimLost, Goto, EndBatch, IInv, TypeOK, CommittedInv, InFlight, Steps
  <2>6. CASE StreamPublish(w)
    BY <2>6 DEF StreamPublish, StreamAccepts, Goto, AfterStream, IInv, TypeOK, CommittedInv, InFlight, Steps
  <2>7. CASE BusPublish(w)
    BY <2>7 DEF BusPublish, BusAccepts, Goto, IInv, TypeOK, CommittedInv, InFlight, Steps
  <2>8. CASE MarkPublished(w)
    <3>1. NextRow(w)
      BY <2>8 DEF MarkPublished
    <3> QED BY <2>8, <3>1, NextRowFrame
           DEF MarkPublished, SetPublished, IInv, TypeOK, CommittedInv, InFlight, Steps
  <2>9. CASE MarkFails(w)
    BY <2>9 DEF MarkFails, Goto, SetPublished, IInv, TypeOK, CommittedInv, InFlight, Steps
  <2>10. CASE RecordFailure(w)
    <3>1. NextRow(w)
      BY <2>10 DEF RecordFailure
    <3> QED BY <2>10, <3>1, NextRowFrame
           DEF RecordFailure, Release, IInv, TypeOK, CommittedInv, InFlight, Steps
  <2>11. CASE Crash(w)
    BY <2>11 DEF Crash, Goto, IInv, TypeOK, CommittedInv, InFlight, Steps
  <2>12. CASE Restart(w)
    BY <2>12 DEF Restart, Goto, IInv, TypeOK, CommittedInv, InFlight, Steps
  <2> QED BY <1>2, <2>1, <2>2, <2>3, <2>4, <2>5, <2>6, <2>7, <2>8,
             <2>9, <2>10, <2>11, <2>12 DEF WorkerStep, Publish
<1>3. CASE UNCHANGED vars
  BY <1>3 DEF vars, IInv, CommittedInv, InFlight, Steps
<1> QED BY <1>1, <1>2, <1>3 DEF Next, EventStep, WorkerStep

\* No step reaches the bus or the mark without the acceptances before it, and
\* acceptances are never taken back.
LEMMA ProgressStep ==
  ASSUME IInv, [Next]_vars
  PROVE  ProgressInv'
<1> USE DEF rowVars, workerVars, brokerVars, historyVars
<1>1. ASSUME NEW e \in Events, EventStep(e) PROVE ProgressInv'
  <2>1. CASE Enqueue(e)
    BY <2>1 DEF Enqueue, IInv, TypeOK, ProgressInv, CommittedInv, InFlight, Steps
  <2>2. CASE EndTransaction(e)
    BY <2>2 DEF EndTransaction, IInv, TypeOK, ProgressInv, CommittedInv, InFlight, Steps
  <2>3. CASE LeaseExpires(e)
    BY <2>3 DEF LeaseExpires, IInv, TypeOK, ProgressInv, CommittedInv, InFlight, Steps
  <2>4. CASE BackoffElapses(e)
    BY <2>4 DEF BackoffElapses, IInv, TypeOK, ProgressInv, CommittedInv, InFlight, Steps
  <2> QED BY <1>1, <2>1, <2>2, <2>3, <2>4 DEF EventStep
<1>2. ASSUME NEW w \in Workers, WorkerStep(w) PROVE ProgressInv'
  <2>1. CASE WakeUp(w)
    BY <2>1 DEF WakeUp, Goto, IInv, TypeOK, ProgressInv, CommittedInv, InFlight, Steps
  <2>2. CASE FindOldest(w)
    BY <2>2 DEF FindOldest, Goto, Eligible, IInv, TypeOK, ProgressInv, CommittedInv, InFlight, Steps
  <2>3. CASE FindNothing(w)
    BY <2>3 DEF FindNothing, Goto, EndBatch, IInv, TypeOK, ProgressInv, CommittedInv, InFlight, Steps
  <2>4. CASE Claim(w)
    BY <2>4 DEF Claim, Goto, Claimable, IInv, TypeOK, ProgressInv, CommittedInv, InFlight, Steps
  <2>5. CASE ClaimLost(w)
    BY <2>5 DEF ClaimLost, Goto, EndBatch, IInv, TypeOK, ProgressInv, CommittedInv, InFlight, Steps
  <2>6. CASE StreamPublish(w)
    BY <2>6 DEF StreamPublish, StreamAccepts, Goto, AfterStream, IInv, TypeOK, ProgressInv, CommittedInv, InFlight, Steps
  <2>7. CASE BusPublish(w)
    BY <2>7 DEF BusPublish, BusAccepts, Goto, IInv, TypeOK, ProgressInv, CommittedInv, InFlight, Steps
  <2>8. CASE MarkPublished(w)
    <3>1. NextRow(w)
      BY <2>8 DEF MarkPublished
    <3> QED BY <2>8, <3>1, NextRowFrame
           DEF MarkPublished, SetPublished, IInv, TypeOK, ProgressInv, CommittedInv, InFlight, Steps
  <2>9. CASE MarkFails(w)
    BY <2>9 DEF MarkFails, Goto, SetPublished, IInv, TypeOK, ProgressInv, CommittedInv, InFlight, Steps
  <2>10. CASE RecordFailure(w)
    <3>1. NextRow(w)
      BY <2>10 DEF RecordFailure
    <3> QED BY <2>10, <3>1, NextRowFrame
           DEF RecordFailure, Release, IInv, TypeOK, ProgressInv, CommittedInv, InFlight, Steps
  <2>11. CASE Crash(w)
    BY <2>11 DEF Crash, Goto, IInv, TypeOK, ProgressInv, CommittedInv, InFlight, Steps
  <2>12. CASE Restart(w)
    BY <2>12 DEF Restart, Goto, IInv, TypeOK, ProgressInv, CommittedInv, InFlight, Steps
  <2> QED BY <1>2, <2>1, <2>2, <2>3, <2>4, <2>5, <2>6, <2>7, <2>8,
             <2>9, <2>10, <2>11, <2>12 DEF WorkerStep, Publish
<1>3. CASE UNCHANGED vars
  BY <1>3 DEF vars, IInv, ProgressInv, CommittedInv, InFlight, Steps
<1> QED BY <1>1, <1>2, <1>3 DEF Next, EventStep, WorkerStep

\* A row is marked only where ProgressInv vouches for its deliveries.
LEMMA DeliveredStep ==
  ASSUME IInv, [Next]_vars
  PROVE  PublishedWasDelivered'
<1> USE DEF rowVars, workerVars, brokerVars, historyVars
<1>1. ASSUME NEW e \in Events, EventStep(e) PROVE PublishedWasDelivered'
  <2>1. CASE Enqueue(e)
    BY <2>1 DEF Enqueue, IInv, TypeOK, PublishedWasDelivered, ProgressInv, CommittedInv, InFlight, Steps
  <2>2. CASE EndTransaction(e)
    BY <2>2 DEF EndTransaction, IInv, TypeOK, PublishedWasDelivered, ProgressInv, CommittedInv, InFlight, Steps
  <2>3. CASE LeaseExpires(e)
    BY <2>3 DEF LeaseExpires, IInv, TypeOK, PublishedWasDelivered, ProgressInv, CommittedInv, InFlight, Steps
  <2>4. CASE BackoffElapses(e)
    BY <2>4 DEF BackoffElapses, IInv, TypeOK, PublishedWasDelivered, ProgressInv, CommittedInv, InFlight, Steps
  <2> QED BY <1>1, <2>1, <2>2, <2>3, <2>4 DEF EventStep
<1>2. ASSUME NEW w \in Workers, WorkerStep(w) PROVE PublishedWasDelivered'
  <2>1. CASE WakeUp(w)
    BY <2>1 DEF WakeUp, Goto, IInv, TypeOK, PublishedWasDelivered, ProgressInv, CommittedInv, InFlight, Steps
  <2>2. CASE FindOldest(w)
    BY <2>2 DEF FindOldest, Goto, Eligible, IInv, TypeOK, PublishedWasDelivered, ProgressInv, CommittedInv, InFlight, Steps
  <2>3. CASE FindNothing(w)
    BY <2>3 DEF FindNothing, Goto, EndBatch, IInv, TypeOK, PublishedWasDelivered, ProgressInv, CommittedInv, InFlight, Steps
  <2>4. CASE Claim(w)
    BY <2>4 DEF Claim, Goto, Claimable, IInv, TypeOK, PublishedWasDelivered, ProgressInv, CommittedInv, InFlight, Steps
  <2>5. CASE ClaimLost(w)
    BY <2>5 DEF ClaimLost, Goto, EndBatch, IInv, TypeOK, PublishedWasDelivered, ProgressInv, CommittedInv, InFlight, Steps
  <2>6. CASE StreamPublish(w)
    BY <2>6 DEF StreamPublish, StreamAccepts, Goto, AfterStream, IInv, TypeOK, PublishedWasDelivered, ProgressInv, CommittedInv, InFlight, Steps
  <2>7. CASE BusPublish(w)
    BY <2>7 DEF BusPublish, BusAccepts, Goto, IInv, TypeOK, PublishedWasDelivered, ProgressInv, CommittedInv, InFlight, Steps
  <2>8. CASE MarkPublished(w)
    <3>1. NextRow(w)
      BY <2>8 DEF MarkPublished
    <3> QED BY <2>8, <3>1, NextRowFrame
           DEF MarkPublished, SetPublished, IInv, TypeOK, PublishedWasDelivered, ProgressInv, CommittedInv, InFlight, Steps
  <2>9. CASE MarkFails(w)
    BY <2>9 DEF MarkFails, Goto, SetPublished, IInv, TypeOK, PublishedWasDelivered, ProgressInv, CommittedInv, InFlight, Steps
  <2>10. CASE RecordFailure(w)
    <3>1. NextRow(w)
      BY <2>10 DEF RecordFailure
    <3> QED BY <2>10, <3>1, NextRowFrame
           DEF RecordFailure, Release, IInv, TypeOK, PublishedWasDelivered, ProgressInv, CommittedInv, InFlight, Steps
  <2>11. CASE Crash(w)
    BY <2>11 DEF Crash, Goto, IInv, TypeOK, PublishedWasDelivered, ProgressInv, CommittedInv, InFlight, Steps
  <2>12. CASE Restart(w)
    BY <2>12 DEF Restart, Goto, IInv, TypeOK, PublishedWasDelivered, ProgressInv, CommittedInv, InFlight, Steps
  <2> QED BY <1>2, <2>1, <2>2, <2>3, <2>4, <2>5, <2>6, <2>7, <2>8,
             <2>9, <2>10, <2>11, <2>12 DEF WorkerStep, Publish
<1>3. CASE UNCHANGED vars
  BY <1>3 DEF vars, IInv, PublishedWasDelivered, ProgressInv, CommittedInv, InFlight, Steps
<1> QED BY <1>1, <1>2, <1>3 DEF Next, EventStep, WorkerStep

\* Publishers hold committed rows, and a committed row stays committed.
LEMMA OnlyCommittedStep ==
  ASSUME IInv, [Next]_vars
  PROVE  OnlyCommittedDelivered'
<1> USE DEF rowVars, workerVars, brokerVars, historyVars
<1>1. ASSUME NEW e \in Events, EventStep(e) PROVE OnlyCommittedDelivered'
  <2>1. CASE Enqueue(e)
    BY <2>1 DEF Enqueue, IInv, TypeOK, OnlyCommittedDelivered, CommittedInv, InFlight, Steps
  <2>2. CASE EndTransaction(e)
    BY <2>2 DEF EndTransaction, IInv, TypeOK, OnlyCommittedDelivered, CommittedInv, InFlight, Steps
  <2>3. CASE LeaseExpires(e)
    BY <2>3 DEF LeaseExpires, IInv, TypeOK, OnlyCommittedDelivered, CommittedInv, InFlight, Steps
  <2>4. CASE BackoffElapses(e)
    BY <2>4 DEF BackoffElapses, IInv, TypeOK, OnlyCommittedDelivered, CommittedInv, InFlight, Steps
  <2> QED BY <1>1, <2>1, <2>2, <2>3, <2>4 DEF EventStep
<1>2. ASSUME NEW w \in Workers, WorkerStep(w) PROVE OnlyCommittedDelivered'
  <2>1. CASE WakeUp(w)
    BY <2>1 DEF WakeUp, Goto, IInv, TypeOK, OnlyCommittedDelivered, CommittedInv, InFlight, Steps
  <2>2. CASE FindOldest(w)
    BY <2>2 DEF FindOldest, Goto, Eligible, IInv, TypeOK, OnlyCommittedDelivered, CommittedInv, InFlight, Steps
  <2>3. CASE FindNothing(w)
    BY <2>3 DEF FindNothing, Goto, EndBatch, IInv, TypeOK, OnlyCommittedDelivered, CommittedInv, InFlight, Steps
  <2>4. CASE Claim(w)
    BY <2>4 DEF Claim, Goto, Claimable, IInv, TypeOK, OnlyCommittedDelivered, CommittedInv, InFlight, Steps
  <2>5. CASE ClaimLost(w)
    BY <2>5 DEF ClaimLost, Goto, EndBatch, IInv, TypeOK, OnlyCommittedDelivered, CommittedInv, InFlight, Steps
  <2>6. CASE StreamPublish(w)
    BY <2>6 DEF StreamPublish, StreamAccepts, Goto, AfterStream, IInv, TypeOK, OnlyCommittedDelivered, CommittedInv, InFlight, Steps
  <2>7. CASE BusPublish(w)
    BY <2>7 DEF BusPublish, BusAccepts, Goto, IInv, TypeOK, OnlyCommittedDelivered, CommittedInv, InFlight, Steps
  <2>8. CASE MarkPublished(w)
    <3>1. NextRow(w)
      BY <2>8 DEF MarkPublished
    <3> QED BY <2>8, <3>1, NextRowFrame
           DEF MarkPublished, SetPublished, IInv, TypeOK, OnlyCommittedDelivered, CommittedInv, InFlight, Steps
  <2>9. CASE MarkFails(w)
    BY <2>9 DEF MarkFails, Goto, SetPublished, IInv, TypeOK, OnlyCommittedDelivered, CommittedInv, InFlight, Steps
  <2>10. CASE RecordFailure(w)
    <3>1. NextRow(w)
      BY <2>10 DEF RecordFailure
    <3> QED BY <2>10, <3>1, NextRowFrame
           DEF RecordFailure, Release, IInv, TypeOK, OnlyCommittedDelivered, CommittedInv, InFlight, Steps
  <2>11. CASE Crash(w)
    BY <2>11 DEF Crash, Goto, IInv, TypeOK, OnlyCommittedDelivered, CommittedInv, InFlight, Steps
  <2>12. CASE Restart(w)
    BY <2>12 DEF Restart, Goto, IInv, TypeOK, OnlyCommittedDelivered, CommittedInv, InFlight, Steps
  <2> QED BY <1>2, <2>1, <2>2, <2>3, <2>4, <2>5, <2>6, <2>7, <2>8,
             <2>9, <2>10, <2>11, <2>12 DEF WorkerStep, Publish
<1>3. CASE UNCHANGED vars
  BY <1>3 DEF vars, IInv, OnlyCommittedDelivered, CommittedInv, InFlight, Steps
<1> QED BY <1>1, <1>2, <1>3 DEF Next, EventStep, WorkerStep

\* Without an expiry the holder keeps the lock until it lets go itself.
LEMMA LeaseStep ==
  ASSUME IInv, [Next]_vars
  PROVE  LeaseInv'
<1> USE DEF rowVars, workerVars, brokerVars, historyVars
<1>1. ASSUME NEW e \in Events, EventStep(e) PROVE LeaseInv'
  <2>1. CASE Enqueue(e)
    BY <2>1 DEF Enqueue, IInv, TypeOK, LeaseInv, SinglePublisher, CommittedInv, InFlight, Steps
  <2>2. CASE EndTransaction(e)
    BY <2>2 DEF EndTransaction, IInv, TypeOK, LeaseInv, SinglePublisher, CommittedInv, InFlight, Steps
  <2>3. CASE LeaseExpires(e)
    BY <2>3 DEF LeaseExpires, IInv, TypeOK, LeaseInv, SinglePublisher, CommittedInv, InFlight, Steps
  <2>4. CASE BackoffElapses(e)
    BY <2>4 DEF BackoffElapses, IInv, TypeOK, LeaseInv, SinglePublisher, CommittedInv, InFlight, Steps
  <2> QED BY <1>1, <2>1, <2>2, <2>3, <2>4 DEF EventStep
<1>2. ASSUME NEW w \in Workers, WorkerStep(w) PROVE LeaseInv'
  <2>1. CASE WakeUp(w)
    BY <2>1 DEF WakeUp, Goto, IInv, TypeOK, LeaseInv, SinglePublisher, CommittedInv, InFlight, Steps
  <2>2. CASE FindOldest(w)
    BY <2>2 DEF FindOldest, Goto, Eligible, IInv, TypeOK, LeaseInv, SinglePublisher, CommittedInv, InFlight, Steps
  <2>3. CASE FindNothing(w)
    BY <2>3 DEF FindNothing, Goto, EndBatch, IInv, TypeOK, LeaseInv, SinglePublisher, CommittedInv, InFlight, Steps
  <2>4. CASE Claim(w)
    BY <2>4 DEF Claim, Goto, Claimable, IInv, TypeOK, LeaseInv, SinglePublisher, CommittedInv, InFlight, Steps
  <2>5. CASE ClaimLost(w)
    BY <2>5 DEF ClaimLost, Goto, EndBatch, IInv, TypeOK, LeaseInv, SinglePublisher, CommittedInv, InFlight, Steps
  <2>6. CASE StreamPublish(w)
    BY <2>6 DEF StreamPublish, StreamAccepts, Goto, AfterStream, IInv, TypeOK, LeaseInv, SinglePublisher, CommittedInv, InFlight, Steps
  <2>7. CASE BusPublish(w)
    BY <2>7 DEF BusPublish, BusAccepts, Goto, IInv, TypeOK, LeaseInv, SinglePublisher, CommittedInv, InFlight, Steps
  <2>8. CASE MarkPublished(w)
    <3>1. NextRow(w)
      BY <2>8 DEF MarkPublished
    <3> QED BY <2>8, <3>1, NextRowFrame
           DEF MarkPublished, SetPublished, IInv, TypeOK, LeaseInv, SinglePublisher, CommittedInv, InFlight, Steps
  <2>9. CASE MarkFails(w)
    BY <2>9 DEF MarkFails, Goto, SetPublished, IInv, TypeOK, LeaseInv, SinglePublisher, CommittedInv, InFlight, Steps
  <2>10. CASE RecordFailure(w)
    <3>1. NextRow(w)
      BY <2>10 DEF RecordFailure
    <3> QED BY <2>10, <3>1, NextRowFrame
           DEF RecordFailure, Release, IInv, TypeOK, LeaseInv, SinglePublisher, CommittedInv, InFlight, Steps
  <2>11. CASE Crash(w)
    BY <2>11 DEF Crash, Goto, IInv, TypeOK, LeaseInv, SinglePublisher, CommittedInv, InFlight, Steps
  <2>12. CASE Restart(w)
    BY <2>12 DEF Restart, Goto, IInv, TypeOK, LeaseInv, SinglePublisher, CommittedInv, InFlight, Steps
  <2> QED BY <1>2, <2>1, <2>2, <2>3, <2>4, <2>5, <2>6, <2>7, <2>8,
             <2>9, <2>10, <2>11, <2>12 DEF WorkerStep, Publish
<1>3. CASE UNCHANGED vars
  BY <1>3 DEF vars, IInv, LeaseInv, SinglePublisher, CommittedInv, InFlight, Steps
<1> QED BY <1>1, <1>2, <1>3 DEF Next, EventStep, WorkerStep

\* A claim needs a free lock or an expiry, so it never joins a holder before one.
LEMMA SinglePublisherStep ==
  ASSUME IInv, [Next]_vars
  PROVE  SinglePublisher'
<1> USE DEF rowVars, workerVars, brokerVars, historyVars
<1>1. ASSUME NEW e \in Events, EventStep(e) PROVE SinglePublisher'
  <2>1. CASE Enqueue(e)
    BY <2>1 DEF Enqueue, IInv, TypeOK, SinglePublisher, LeaseInv, CommittedInv, InFlight, Steps
  <2>2. CASE EndTransaction(e)
    BY <2>2 DEF EndTransaction, IInv, TypeOK, SinglePublisher, LeaseInv, CommittedInv, InFlight, Steps
  <2>3. CASE LeaseExpires(e)
    BY <2>3 DEF LeaseExpires, IInv, TypeOK, SinglePublisher, LeaseInv, CommittedInv, InFlight, Steps
  <2>4. CASE BackoffElapses(e)
    BY <2>4 DEF BackoffElapses, IInv, TypeOK, SinglePublisher, LeaseInv, CommittedInv, InFlight, Steps
  <2> QED BY <1>1, <2>1, <2>2, <2>3, <2>4 DEF EventStep
<1>2. ASSUME NEW w \in Workers, WorkerStep(w) PROVE SinglePublisher'
  <2>1. CASE WakeUp(w)
    BY <2>1 DEF WakeUp, Goto, IInv, TypeOK, SinglePublisher, LeaseInv, CommittedInv, InFlight, Steps
  <2>2. CASE FindOldest(w)
    BY <2>2 DEF FindOldest, Goto, Eligible, IInv, TypeOK, SinglePublisher, LeaseInv, CommittedInv, InFlight, Steps
  <2>3. CASE FindNothing(w)
    BY <2>3 DEF FindNothing, Goto, EndBatch, IInv, TypeOK, SinglePublisher, LeaseInv, CommittedInv, InFlight, Steps
  <2>4. CASE Claim(w)
    BY <2>4 DEF Claim, Goto, Claimable, IInv, TypeOK, SinglePublisher, LeaseInv, CommittedInv, InFlight, Steps
  <2>5. CASE ClaimLost(w)
    BY <2>5 DEF ClaimLost, Goto, EndBatch, IInv, TypeOK, SinglePublisher, LeaseInv, CommittedInv, InFlight, Steps
  <2>6. CASE StreamPublish(w)
    BY <2>6 DEF StreamPublish, StreamAccepts, Goto, AfterStream, IInv, TypeOK, SinglePublisher, LeaseInv, CommittedInv, InFlight, Steps
  <2>7. CASE BusPublish(w)
    BY <2>7 DEF BusPublish, BusAccepts, Goto, IInv, TypeOK, SinglePublisher, LeaseInv, CommittedInv, InFlight, Steps
  <2>8. CASE MarkPublished(w)
    <3>1. NextRow(w)
      BY <2>8 DEF MarkPublished
    <3> QED BY <2>8, <3>1, NextRowFrame
           DEF MarkPublished, SetPublished, IInv, TypeOK, SinglePublisher, LeaseInv, CommittedInv, InFlight, Steps
  <2>9. CASE MarkFails(w)
    BY <2>9 DEF MarkFails, Goto, SetPublished, IInv, TypeOK, SinglePublisher, LeaseInv, CommittedInv, InFlight, Steps
  <2>10. CASE RecordFailure(w)
    <3>1. NextRow(w)
      BY <2>10 DEF RecordFailure
    <3> QED BY <2>10, <3>1, NextRowFrame
           DEF RecordFailure, Release, IInv, TypeOK, SinglePublisher, LeaseInv, CommittedInv, InFlight, Steps
  <2>11. CASE Crash(w)
    BY <2>11 DEF Crash, Goto, IInv, TypeOK, SinglePublisher, LeaseInv, CommittedInv, InFlight, Steps
  <2>12. CASE Restart(w)
    BY <2>12 DEF Restart, Goto, IInv, TypeOK, SinglePublisher, LeaseInv, CommittedInv, InFlight, Steps
  <2> QED BY <1>2, <2>1, <2>2, <2>3, <2>4, <2>5, <2>6, <2>7, <2>8,
             <2>9, <2>10, <2>11, <2>12 DEF WorkerStep, Publish
<1>3. CASE UNCHANGED vars
  BY <1>3 DEF vars, IInv, SinglePublisher, LeaseInv, CommittedInv, InFlight, Steps
<1> QED BY <1>1, <1>2, <1>3 DEF Next, EventStep, WorkerStep

\* Each claim uses up a failure or an expiry, or is the first.
LEMMA ClaimsStep ==
  ASSUME IInv, [Next]_vars
  PROVE  ClaimsInv'
<1> USE DEF rowVars, workerVars, brokerVars, historyVars
<1>1. ASSUME NEW e \in Events, EventStep(e) PROVE ClaimsInv'
  <2>1. CASE Enqueue(e)
    BY <2>1 DEF Enqueue, IInv, TypeOK, ClaimsInv, LeaseInv, CommittedInv, InFlight, Steps
  <2>2. CASE EndTransaction(e)
    BY <2>2 DEF EndTransaction, IInv, TypeOK, ClaimsInv, LeaseInv, CommittedInv, InFlight, Steps
  <2>3. CASE LeaseExpires(e)
    BY <2>3 DEF LeaseExpires, IInv, TypeOK, ClaimsInv, LeaseInv, CommittedInv, InFlight, Steps
  <2>4. CASE BackoffElapses(e)
    BY <2>4 DEF BackoffElapses, IInv, TypeOK, ClaimsInv, LeaseInv, CommittedInv, InFlight, Steps
  <2> QED BY <1>1, <2>1, <2>2, <2>3, <2>4 DEF EventStep
<1>2. ASSUME NEW w \in Workers, WorkerStep(w) PROVE ClaimsInv'
  <2>1. CASE WakeUp(w)
    BY <2>1 DEF WakeUp, Goto, IInv, TypeOK, ClaimsInv, LeaseInv, CommittedInv, InFlight, Steps
  <2>2. CASE FindOldest(w)
    BY <2>2 DEF FindOldest, Goto, Eligible, IInv, TypeOK, ClaimsInv, LeaseInv, CommittedInv, InFlight, Steps
  <2>3. CASE FindNothing(w)
    BY <2>3 DEF FindNothing, Goto, EndBatch, IInv, TypeOK, ClaimsInv, LeaseInv, CommittedInv, InFlight, Steps
  <2>4. CASE Claim(w)
    BY <2>4 DEF Claim, Goto, Claimable, IInv, TypeOK, ClaimsInv, LeaseInv, CommittedInv, InFlight, Steps
  <2>5. CASE ClaimLost(w)
    BY <2>5 DEF ClaimLost, Goto, EndBatch, IInv, TypeOK, ClaimsInv, LeaseInv, CommittedInv, InFlight, Steps
  <2>6. CASE StreamPublish(w)
    BY <2>6 DEF StreamPublish, StreamAccepts, Goto, AfterStream, IInv, TypeOK, ClaimsInv, LeaseInv, CommittedInv, InFlight, Steps
  <2>7. CASE BusPublish(w)
    BY <2>7 DEF BusPublish, BusAccepts, Goto, IInv, TypeOK, ClaimsInv, LeaseInv, CommittedInv, InFlight, Steps
  <2>8. CASE MarkPublished(w)
    <3>1. NextRow(w)
      BY <2>8 DEF MarkPublished
    <3> QED BY <2>8, <3>1, NextRowFrame
           DEF MarkPublished, SetPublished, IInv, TypeOK, ClaimsInv, LeaseInv, CommittedInv, InFlight, Steps
  <2>9. CASE MarkFails(w)
    BY <2>9 DEF MarkFails, Goto, SetPublished, IInv, TypeOK, ClaimsInv, LeaseInv, CommittedInv, InFlight, Steps
  <2>10. CASE RecordFailure(w)
    <3>1. NextRow(w)
      BY <2>10 DEF RecordFailure
    <3> QED BY <2>10, <3>1, NextRowFrame
           DEF RecordFailure, Release, IInv, TypeOK, ClaimsInv, LeaseInv, CommittedInv, InFlight, Steps
  <2>11. CASE Crash(w)
    BY <2>11 DEF Crash, Goto, IInv, TypeOK, ClaimsInv, LeaseInv, CommittedInv, InFlight, Steps
  <2>12. CASE Restart(w)
    BY <2>12 DEF Restart, Goto, IInv, TypeOK, ClaimsInv, LeaseInv, CommittedInv, InFlight, Steps
  <2> QED BY <1>2, <2>1, <2>2, <2>3, <2>4, <2>5, <2>6, <2>7, <2>8,
             <2>9, <2>10, <2>11, <2>12 DEF WorkerStep, Publish
<1>3. CASE UNCHANGED vars
  BY <1>3 DEF vars, IInv, ClaimsInv, LeaseInv, CommittedInv, InFlight, Steps
<1> QED BY <1>1, <1>2, <1>3 DEF Next, EventStep, WorkerStep

-----------------------------------------------------------------------------
(* SpendInv counts publishers, so it needs cardinalities. *)

\* Fewer publishers owe a publish: the counts do not grow.
LEMMA CountSubset ==
  ASSUME NEW S \in SUBSET Workers, NEW T \in SUBSET S
  PROVE  /\ Cardinality(S) \in Nat /\ Cardinality(T) \in Nat
         /\ Cardinality(T) <= Cardinality(S)
<1>1. IsFiniteSet(S)
  BY WorkersAssumption, FS_Subset
<1> QED BY <1>1, FS_Subset, FS_CardinalityType

\* One publisher starts, or stops, to owe a publish.
LEMMA CountOne ==
  ASSUME NEW S \in SUBSET Workers, NEW w \in Workers
  PROVE  /\ w \notin S => Cardinality(S \union {w}) = Cardinality(S) + 1
         /\ w \in S => Cardinality(S \ {w}) = Cardinality(S) - 1
<1>1. IsFiniteSet(S)
  BY WorkersAssumption, FS_Subset
<1> QED BY <1>1, FS_AddElement, FS_RemoveElement

\* Steps that neither claim nor publish leave both debts of an event as they
\* are, or drop publishers from them.
LEMMA SpendFrame ==
  ASSUME IInv, NEW e \in Events,
         OwesStream(e)' \subseteq OwesStream(e), OwesBus(e)' \subseteq OwesBus(e),
         streamed'[e] = streamed[e], bused'[e] = bused[e], claims'[e] = claims[e]
  PROVE  /\ streamed'[e] + Cardinality(OwesStream(e)') <= claims'[e]
         /\ bused'[e] + Cardinality(OwesBus(e)') <= claims'[e]
<1>1. OwesStream(e) \in SUBSET Workers /\ OwesBus(e) \in SUBSET Workers
  BY DEF OwesStream, OwesBus
<1>2. /\ Cardinality(OwesStream(e)') \in Nat
      /\ Cardinality(OwesStream(e)) \in Nat
      /\ Cardinality(OwesStream(e)') <= Cardinality(OwesStream(e))
  BY <1>1, CountSubset
<1>3. /\ Cardinality(OwesBus(e)') \in Nat
      /\ Cardinality(OwesBus(e)) \in Nat
      /\ Cardinality(OwesBus(e)') <= Cardinality(OwesBus(e))
  BY <1>1, CountSubset
<1>4. streamed[e] \in Nat /\ bused[e] \in Nat /\ claims[e] \in Nat
  BY DEF IInv, TypeOK
<1> QED BY <1>2, <1>3, <1>4 DEF IInv, SpendInv

\* A claim makes its publisher owe one publish to each channel, and counts.
LEMMA SpendClaim ==
  ASSUME IInv, NEW w \in Workers, Claim(w)
  PROVE  SpendInv'
<1> USE DEF rowVars, workerVars, brokerVars, historyVars
<1>1. SUFFICES ASSUME NEW e \in Events
               PROVE  /\ streamed'[e] + Cardinality(OwesStream(e)') <= claims'[e]
                      /\ bused'[e] + Cardinality(OwesBus(e)') <= claims'[e]
  BY DEF SpendInv, OwesStream, OwesBus
<1>2. CASE e # row[w]
  <2>1. OwesStream(e)' = OwesStream(e) /\ OwesBus(e)' = OwesBus(e)
    BY <1>2 DEF Claim, Goto, OwesStream, OwesBus, IInv, TypeOK
  <2>2. streamed'[e] = streamed[e] /\ bused'[e] = bused[e] /\ claims'[e] = claims[e]
    BY <1>2 DEF Claim, IInv, TypeOK
  <2> QED BY <2>1, <2>2, SpendFrame
<1>3. CASE e = row[w]
  <2>1. /\ OwesStream(e)' = OwesStream(e) \union {w}
        /\ OwesBus(e)' = OwesBus(e) \union {w}
    BY <1>3 DEF Claim, Goto, OwesStream, OwesBus, IInv, TypeOK
  <2>2. w \notin OwesStream(e) /\ w \notin OwesBus(e)
    BY DEF Claim, OwesStream, OwesBus
  <2>3. OwesStream(e) \in SUBSET Workers /\ OwesBus(e) \in SUBSET Workers
    BY DEF OwesStream, OwesBus
  <2>4. /\ Cardinality(OwesStream(e)') = Cardinality(OwesStream(e)) + 1
        /\ Cardinality(OwesBus(e)') = Cardinality(OwesBus(e)) + 1
    BY <2>1, <2>2, <2>3, CountOne
  <2>5. Cardinality(OwesStream(e)) \in Nat /\ Cardinality(OwesBus(e)) \in Nat
    BY <2>3, CountSubset
  <2>6. streamed'[e] = streamed[e] /\ bused'[e] = bused[e] /\ claims'[e] = claims[e] + 1
    BY <1>3 DEF Claim, IInv, TypeOK
  <2>7. streamed[e] \in Nat /\ bused[e] \in Nat /\ claims[e] \in Nat
    BY DEF IInv, TypeOK
  <2> QED BY <2>4, <2>5, <2>6, <2>7 DEF IInv, SpendInv
<1> QED BY <1>2, <1>3

\* A stream publish spends what its publisher owes the stream; on the way to
\* the bus the publisher still owes the bus.
LEMMA SpendStream ==
  ASSUME IInv, NEW w \in Workers, StreamPublish(w)
  PROVE  SpendInv'
<1> USE DEF rowVars, workerVars, brokerVars, historyVars
<1>1. SUFFICES ASSUME NEW e \in Events
               PROVE  /\ streamed'[e] + Cardinality(OwesStream(e)') <= claims'[e]
                      /\ bused'[e] + Cardinality(OwesBus(e)') <= claims'[e]
  BY DEF SpendInv, OwesStream, OwesBus
<1>2. pc'[w] # "stream" /\ \A v \in Workers : v # w => pc'[v] = pc[v]
  BY DEF StreamPublish, StreamAccepts, Goto, AfterStream, IInv, TypeOK
<1>3. row' = row /\ bused' = bused /\ claims' = claims
  BY DEF StreamPublish
<1>4. OwesBus(e)' \subseteq OwesBus(e)
  BY <1>2, <1>3 DEF StreamPublish, StreamAccepts, OwesBus
<1>5. CASE e # row[w]
  <2>1. OwesStream(e)' \subseteq OwesStream(e)
    BY <1>2, <1>3 DEF OwesStream
  <2>2. streamed'[e] = streamed[e]
    BY <1>5 DEF StreamPublish, StreamAccepts, IInv, TypeOK
  <2> QED BY <1>3, <1>4, <2>1, <2>2, SpendFrame
<1>6. CASE e = row[w]
  <2>1. OwesStream(e)' = OwesStream(e) \ {w} /\ w \in OwesStream(e)
    BY <1>2, <1>3, <1>6 DEF StreamPublish, StreamAccepts, OwesStream
  <2>2. OwesStream(e) \in SUBSET Workers /\ OwesBus(e) \in SUBSET Workers
    BY DEF OwesStream, OwesBus
  <2>3. /\ Cardinality(OwesStream(e)') = Cardinality(OwesStream(e)) - 1
        /\ Cardinality(OwesStream(e)) \in Nat
    BY <2>1, <2>2, CountOne, CountSubset
  <2>4. /\ Cardinality(OwesBus(e)') <= Cardinality(OwesBus(e))
        /\ Cardinality(OwesBus(e)') \in Nat /\ Cardinality(OwesBus(e)) \in Nat
    BY <1>4, <2>2, CountSubset
  <2>5. streamed'[e] \in {streamed[e], streamed[e] + 1}
    BY <1>6 DEF StreamPublish, StreamAccepts, IInv, TypeOK
  <2>6. streamed[e] \in Nat /\ bused[e] \in Nat /\ claims[e] \in Nat
    BY DEF IInv, TypeOK
  <2> QED BY <1>3, <2>3, <2>4, <2>5, <2>6 DEF IInv, SpendInv
<1> QED BY <1>5, <1>6

\* A bus publish spends what its publisher owes the bus.
LEMMA SpendBus ==
  ASSUME IInv, NEW w \in Workers, BusPublish(w)
  PROVE  SpendInv'
<1> USE DEF rowVars, workerVars, brokerVars, historyVars
<1>1. SUFFICES ASSUME NEW e \in Events
               PROVE  /\ streamed'[e] + Cardinality(OwesStream(e)') <= claims'[e]
                      /\ bused'[e] + Cardinality(OwesBus(e)') <= claims'[e]
  BY DEF SpendInv, OwesStream, OwesBus
<1>2. pc'[w] \notin {"stream", "bus"} /\ \A v \in Workers : v # w => pc'[v] = pc[v]
  BY DEF BusPublish, BusAccepts, Goto, IInv, TypeOK
<1>3. row' = row /\ streamed' = streamed /\ claims' = claims
  BY DEF BusPublish
<1>4. OwesStream(e)' \subseteq OwesStream(e)
  BY <1>2, <1>3 DEF OwesStream
<1>5. CASE e # row[w]
  <2>1. OwesBus(e)' \subseteq OwesBus(e)
    BY <1>2, <1>3 DEF OwesBus
  <2>2. bused'[e] = bused[e]
    BY <1>5 DEF BusPublish, BusAccepts, IInv, TypeOK
  <2> QED BY <1>3, <1>4, <2>1, <2>2, SpendFrame
<1>6. CASE e = row[w]
  <2>1. OwesBus(e)' = OwesBus(e) \ {w} /\ w \in OwesBus(e)
    BY <1>2, <1>3, <1>6 DEF BusPublish, BusAccepts, OwesBus
  <2>2. OwesStream(e) \in SUBSET Workers /\ OwesBus(e) \in SUBSET Workers
    BY DEF OwesStream, OwesBus
  <2>3. /\ Cardinality(OwesBus(e)') = Cardinality(OwesBus(e)) - 1
        /\ Cardinality(OwesBus(e)) \in Nat
    BY <2>1, <2>2, CountOne, CountSubset
  <2>4. /\ Cardinality(OwesStream(e)') <= Cardinality(OwesStream(e))
        /\ Cardinality(OwesStream(e)') \in Nat /\ Cardinality(OwesStream(e)) \in Nat
    BY <1>4, <2>2, CountSubset
  <2>5. bused'[e] \in {bused[e], bused[e] + 1}
    BY <1>6 DEF BusPublish, BusAccepts, IInv, TypeOK
  <2>6. streamed[e] \in Nat /\ bused[e] \in Nat /\ claims[e] \in Nat
    BY DEF IInv, TypeOK
  <2> QED BY <1>3, <2>3, <2>4, <2>5, <2>6 DEF IInv, SpendInv
<1> QED BY <1>5, <1>6

\* Every other step leaves the counters alone and starts no debt.
LEMMA SpendStep ==
  ASSUME IInv, [Next]_vars
  PROVE  SpendInv'
<1> USE DEF rowVars, workerVars, brokerVars, historyVars
<1> DEFINE Quiet == /\ streamed' = streamed /\ bused' = bused /\ claims' = claims
                    /\ \A w \in Workers :
                         pc'[w] \in {"stream", "bus"} => pc'[w] = pc[w] /\ row'[w] = row[w]
<1>1. ASSUME Quiet PROVE SpendInv'
  <2>1. SUFFICES ASSUME NEW e \in Events
                 PROVE  /\ streamed'[e] + Cardinality(OwesStream(e)') <= claims'[e]
                        /\ bused'[e] + Cardinality(OwesBus(e)') <= claims'[e]
    BY DEF SpendInv, OwesStream, OwesBus
  <2>2. OwesStream(e)' \subseteq OwesStream(e) /\ OwesBus(e)' \subseteq OwesBus(e)
    BY <1>1 DEF OwesStream, OwesBus
  <2> QED BY <1>1, <2>2, SpendFrame
<1>2. ASSUME NEW e \in Events, EventStep(e) PROVE Quiet
  BY <1>2 DEF EventStep, Enqueue, EndTransaction, LeaseExpires, BackoffElapses
<1>3. ASSUME NEW w \in Workers, WakeUp(w) \/ FindOldest(w) \/ FindNothing(w) \/ ClaimLost(w)
      PROVE  Quiet
  BY <1>3 DEF WakeUp, FindOldest, FindNothing, ClaimLost, Goto, EndBatch, IInv, TypeOK
<1>4. ASSUME NEW w \in Workers, MarkFails(w) \/ Crash(w) \/ Restart(w) PROVE Quiet
  BY <1>4 DEF MarkFails, Crash, Restart, Goto, IInv, TypeOK
<1>5. ASSUME NEW w \in Workers, MarkPublished(w) \/ RecordFailure(w) PROVE Quiet
  <2>1. NextRow(w) /\ streamed' = streamed /\ bused' = bused /\ claims' = claims
    BY <1>5 DEF MarkPublished, RecordFailure
  <2> QED BY <2>1, NextRowFrame DEF IInv
<1>6. CASE UNCHANGED vars
  BY <1>1, <1>6 DEF vars
<1> QED BY <1>1, <1>2, <1>3, <1>4, <1>5, <1>6, SpendClaim, SpendStream, SpendBus
        DEF Next, EventStep, Publish

-----------------------------------------------------------------------------
(* The theorems. *)

\* The inductive invariant holds when the publishers start on an empty outbox.
LEMMA IInvInit == Init => IInv
<1> SUFFICES ASSUME Init PROVE IInv
  OBVIOUS
<1>1. TypeOK
  BY TypeInit
<1>2. CommittedInv /\ ProgressInv /\ LeaseInv /\ ClaimsInv
  BY DEF Init, CommittedInv, ProgressInv, LeaseInv, ClaimsInv, InFlight
<1>3. PublishedWasDelivered /\ OnlyCommittedDelivered /\ SinglePublisher
  BY DEF Init, PublishedWasDelivered, OnlyCommittedDelivered, SinglePublisher, InFlight
<1>4. SpendInv
  <2>1. SUFFICES ASSUME NEW e \in Events
                 PROVE  /\ streamed[e] + Cardinality(OwesStream(e)) <= claims[e]
                        /\ bused[e] + Cardinality(OwesBus(e)) <= claims[e]
    BY DEF SpendInv
  <2>2. OwesStream(e) = {} /\ OwesBus(e) = {}
    BY DEF Init, OwesStream, OwesBus
  <2> QED BY <2>2, FS_EmptySet DEF Init
<1> QED BY <1>1, <1>2, <1>3, <1>4 DEF IInv

\* ... and every step preserves it.
LEMMA IInvStep == IInv /\ [Next]_vars => IInv'
<1> SUFFICES ASSUME IInv, [Next]_vars PROVE IInv'
  OBVIOUS
<1>1. TypeOK'
  BY TypeStep DEF IInv, CommittedInv, HasRow
<1> QED BY <1>1, CommittedStep, ProgressStep, LeaseStep, ClaimsStep, SpendStep,
           DeliveredStep, OnlyCommittedStep, SinglePublisherStep DEF IInv

\* The inductive invariant is an invariant of the publishers.
THEOREM Invariance == Spec => []IInv
BY IInvInit, IInvStep, PTL DEF Spec

\* Every variable keeps its type: in particular the loop index of a publisher
\* stays below the batch size, and a step is one publishPending has.
THEOREM TypeCorrect == Spec => []TypeOK
<1>1. IInv => TypeOK
  BY DEF IInv
<1> QED BY <1>1, Invariance, PTL

\* A row is marked published only after the stream, and the bus if the event is
\* an integration event, has accepted it (outbox.service.ts, publishPending).
THEOREM PublishedAreDelivered == Spec => []PublishedWasDelivered
<1>1. IInv => PublishedWasDelivered
  BY DEF IInv
<1> QED BY <1>1, Invariance, PTL

\* No event of an open or rolled-back transaction reaches the stream or the bus.
THEOREM DeliveredAreCommitted == Spec => []OnlyCommittedDelivered
<1>1. IInv => OnlyCommittedDelivered
  BY DEF IInv
<1> QED BY <1>1, Invariance, PTL

\* Without an expired claim, at most one publisher works on a row.
THEOREM OnePublisherPerLease == Spec => []SinglePublisher
<1>1. IInv => SinglePublisher
  BY DEF IInv
<1> QED BY <1>1, Invariance, PTL

\* Each acceptance by the stream or the bus spent a claim, and each claim but
\* one a failure or an expiry.
LEMMA DuplicatesFollow == IInv => DuplicatesAccounted
<1>1. SUFFICES ASSUME IInv, NEW e \in Events
               PROVE  /\ streamed[e] <= 1 + failures[e] + expiries[e]
                      /\ bused[e] <= 1 + failures[e] + expiries[e]
  BY DEF DuplicatesAccounted
<1>2. OwesStream(e) \in SUBSET Workers /\ OwesBus(e) \in SUBSET Workers
  BY DEF OwesStream, OwesBus
<1>3. Cardinality(OwesStream(e)) \in Nat /\ Cardinality(OwesBus(e)) \in Nat
  BY <1>2, CountSubset
<1> QED BY <1>1, <1>3 DEF IInv, SpendInv, ClaimsInv, TypeOK

\* An event is accepted at most once more than its publishes failed or its
\* claims expired; undisturbed, it is delivered at most once to each channel.
THEOREM DuplicatesArePaidFor == Spec => []DuplicatesAccounted
BY Invariance, DuplicatesFollow, PTL

\* claimOne's compare-and-set on publishedAt: a published row stays published
\* and no publisher claims it again, however old the read it acts on.
THEOREM PublishedIsFinal == Spec => PublishedStaysSettled
<1> DEFINE Settled == \A e \in Events : published[e] => published'[e] /\ claims'[e] = claims[e]
<1>1. IInv /\ [Next]_vars => [Settled]_vars
  <2> SUFFICES ASSUME IInv, Next PROVE Settled
    OBVIOUS
  <2> USE DEF rowVars, workerVars, brokerVars, historyVars, IInv
  <2>1. ASSUME NEW e \in Events, EventStep(e) PROVE Settled
    BY <2>1 DEF EventStep, Enqueue, EndTransaction, LeaseExpires, BackoffElapses
  <2>2. ASSUME NEW w \in Workers, Claim(w) PROVE Settled
    BY <2>2 DEF Claim, Claimable, TypeOK
  <2>3. ASSUME NEW w \in Workers, MarkPublished(w) \/ MarkFails(w) PROVE Settled
    BY <2>3 DEF MarkPublished, MarkFails, SetPublished, TypeOK
  <2>4. ASSUME NEW w \in Workers,
               \/ WakeUp(w) \/ FindOldest(w) \/ FindNothing(w) \/ ClaimLost(w)
               \/ StreamPublish(w) \/ BusPublish(w) \/ RecordFailure(w)
               \/ Crash(w) \/ Restart(w)
        PROVE  Settled
    BY <2>4 DEF WakeUp, FindOldest, FindNothing, ClaimLost, StreamPublish, StreamAccepts, BusPublish, BusAccepts,
                RecordFailure, Crash, Restart
  <2> QED BY <2>1, <2>2, <2>3, <2>4 DEF Next, EventStep, Publish
<1> QED BY <1>1, Invariance, PTL DEF Spec, PublishedStaysSettled

-----------------------------------------------------------------------------
(* Outbox implements EventDelivery. *)

\* A step of the publishers is a delivery, a settlement, a commit, or nothing
\* that the contract sees.
LEMMA DeliveryStep == IInv /\ [Next]_vars => [Delivery!Next]_Delivery!vars
<1> SUFFICES ASSUME IInv, [Next]_vars PROVE [Delivery!Next]_Delivery!vars
  OBVIOUS
<1> USE DEF rowVars, workerVars, brokerVars, historyVars, IInv
<1> DEFINE Seen == <<txn, published, streamed, bused>>
<1>1. ASSUME UNCHANGED Seen PROVE UNCHANGED Delivery!vars
  BY <1>1 DEF Delivery!vars
<1>2. ASSUME NEW e \in Events, EndTransaction(e) PROVE [Delivery!Next]_Delivery!vars
  <2>1. CASE txn' = [txn EXCEPT ![e] = "committed"]
    <3>1. Delivery!Commit(e)
      BY <1>2, <2>1 DEF EndTransaction, Delivery!Commit, TypeOK
    <3> QED BY <3>1 DEF Delivery!Next
  <2>2. CASE txn' = [txn EXCEPT ![e] = "aborted"]
    <3>1. {f \in Events : txn'[f] = "committed"} = {f \in Events : txn[f] = "committed"}
      BY <1>2, <2>2 DEF EndTransaction, TypeOK
    <3> QED BY <1>2, <3>1 DEF EndTransaction, Delivery!vars
  <2> QED BY <1>2, <2>1, <2>2 DEF EndTransaction
<1>3. ASSUME NEW w \in Workers, StreamPublish(w) PROVE [Delivery!Next]_Delivery!vars
  <2>1. PICK e \in Events : e = row[w] /\ txn[e] = "committed"
    BY <1>3 DEF StreamPublish, StreamAccepts, CommittedInv, InFlight
  <2>2. CASE streamed' = [streamed EXCEPT ![e] = @ + 1]
    <3>1. Delivery!Deliver(e, "stream")
      BY <1>3, <2>1, <2>2 DEF StreamPublish, StreamAccepts, Delivery!Deliver, TypeOK
    <3> QED BY <2>1, <3>1 DEF Delivery!Next
  <2>3. CASE streamed' = streamed
    BY <1>1, <1>3, <2>3 DEF StreamPublish
  <2> QED BY <1>3, <2>1, <2>2, <2>3 DEF StreamPublish, StreamAccepts
<1>4. ASSUME NEW w \in Workers, BusPublish(w) PROVE [Delivery!Next]_Delivery!vars
  <2>1. PICK e \in IntegrationEvents : e = row[w] /\ txn[e] = "committed"
    BY <1>4 DEF BusPublish, BusAccepts, CommittedInv, ProgressInv, InFlight
  <2>2. CASE bused' = [bused EXCEPT ![e] = @ + 1]
    <3>1. Delivery!Deliver(e, "bus")
      BY <1>4, <2>1, <2>2, IntegrationAssumption DEF BusPublish, BusAccepts, Delivery!Deliver, TypeOK
    <3> QED BY <2>1, <3>1, IntegrationAssumption DEF Delivery!Next
  <2>3. CASE bused' = bused
    BY <1>1, <1>4, <2>3 DEF BusPublish
  <2> QED BY <1>4, <2>1, <2>2, <2>3 DEF BusPublish, BusAccepts
<1>5. ASSUME NEW w \in Workers, MarkPublished(w) \/ MarkFails(w)
      PROVE  [Delivery!Next]_Delivery!vars
  <2>1. PICK e \in Events : e = row[w] /\ pc[w] = "mark" /\ UNCHANGED <<txn, streamed, bused>>
    BY <1>5 DEF MarkPublished, MarkFails, CommittedInv, InFlight
  <2>2. CASE published' = [published EXCEPT ![e] = TRUE] /\ ~published[e]
    <3>1. /\ streamed[e] > 0
          /\ e \in IntegrationEvents => bused[e] > 0
      BY <2>1 DEF ProgressInv
    <3>2. Delivery!Settle(e)
      BY <2>1, <2>2, <3>1 DEF Delivery!Settle, TypeOK
    <3> QED BY <2>1, <3>2 DEF Delivery!Next
  <2>3. CASE published' = published
    BY <1>1, <2>1, <2>3
  <2>4. published' = [published EXCEPT ![e] = TRUE] \/ published' = published
    BY <1>5, <2>1 DEF MarkPublished, MarkFails, SetPublished
  <2>5. published[e] /\ published' = [published EXCEPT ![e] = TRUE]
          => published' = published
    BY <2>1 DEF TypeOK
  <2> QED BY <2>2, <2>3, <2>4, <2>5
<1>6. ASSUME NEW e \in Events, Enqueue(e) PROVE [Delivery!Next]_Delivery!vars
  <2>1. {f \in Events : txn'[f] = "committed"} = {f \in Events : txn[f] = "committed"}
    BY <1>6 DEF Enqueue, TypeOK
  <2> QED BY <1>6, <2>1 DEF Enqueue, Delivery!vars
<1>7. ASSUME NEW e \in Events, LeaseExpires(e) \/ BackoffElapses(e)
      PROVE  UNCHANGED Seen
  BY <1>7 DEF LeaseExpires, BackoffElapses
<1>8. ASSUME NEW w \in Workers,
             \/ WakeUp(w) \/ FindOldest(w) \/ FindNothing(w) \/ Claim(w) \/ ClaimLost(w)
             \/ RecordFailure(w) \/ Crash(w) \/ Restart(w)
      PROVE  UNCHANGED Seen
  BY <1>8 DEF WakeUp, FindOldest, FindNothing, Claim, ClaimLost, RecordFailure, Crash, Restart
<1>9. CASE UNCHANGED vars
  BY <1>1, <1>9 DEF vars
<1> QED BY <1>1, <1>2, <1>3, <1>4, <1>5, <1>6, <1>7, <1>8, <1>9
        DEF Next, Publish

\* An empty outbox has committed, delivered and settled nothing.
LEMMA DeliveryInit == Init => Delivery!Init
BY DEF Init, Delivery!Init

\* The publishers implement at-least-once delivery (docs/OUTBOX-PATTERN.md).
THEOREM OutboxImplementsDelivery == Spec => ImplementsDelivery
BY Invariance, DeliveryInit, DeliveryStep, PTL DEF Spec, ImplementsDelivery, Delivery!Spec
=============================================================================
