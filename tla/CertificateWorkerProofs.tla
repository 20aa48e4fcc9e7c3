---------------------- MODULE CertificateWorkerProofs ----------------------
(* Proofs about CertificateWorker, for any number of messages, jobs and      *)
(* workers, and any bounds.                                                  *)
EXTENDS CertificateWorker, TLAPS

-----------------------------------------------------------------------------
(* Frame facts: what a step leaves as it was. *)

\* The steps of the queue, and those of one worker.
QueueStep ==
    \/ \E m \in Messages : Send(m) \/ VisibilityTimeout(m) \/ Redrive(m)
    \/ \E w \in Workers : Receive(w)
Ends(w)       == Crash(w) \/ InsertFails(w) \/ SkipFails(w) \/ CleanupFails(w)
WorkerStep(w) == Work(w) \/ Restart(w) \/ Ends(w)

LEMMA NextSteps ==
    ASSUME [Next]_vars
    PROVE  UNCHANGED vars \/ QueueStep \/ \E w \in Workers : WorkerStep(w)
BY DEF Next, QueueStep, WorkerStep, Ends

LEMMA Unchanged ==
    ASSUME UNCHANGED vars
    PROVE  /\ UNCHANGED <<place, receives, pc, batch, current, found, stamp, recorded>>
           /\ UNCHANGED <<receipts, certificates, documents, artifact>>
           /\ UNCHANGED <<clock, failures, interrupted, raced, crashes, timeouts>>
BY DEF vars, queueVars, localVars, dbVars, historyVars

\* The queue touches no attempt, and nothing that attempts have done.
LEMMA QueueKeeps ==
    ASSUME QueueStep
    PROVE  /\ UNCHANGED <<pc, current, found, stamp, recorded>>
           /\ UNCHANGED <<receipts, certificates, documents, artifact>>
           /\ UNCHANGED <<clock, failures, raced, crashes>>
           /\ interrupted \subseteq interrupted'
BY DEF QueueStep, Send, VisibilityTimeout, Redrive, Receive, localVars, dbVars, historyVars

\* What the attempt of a worker in hand is about.
LEMMA InHand ==
    ASSUME TypeOK, HolderInv, NEW w \in Workers, pc[w] \notin {"idle", "down"}
    PROVE  /\ current[w] \in Received
           /\ current[w].message \in Messages
           /\ Id(w) \in Ids
           /\ Result(w) \in Results
           /\ Award(w) \in Awards
<1>1. current[w] \in Received
  BY DEF TypeOK, HolderInv
<1>. QED BY <1>1, ShapeAssumption DEF Received, Id, Result, Award

\* The steps of a worker that keep its message in hand: where they are enabled
\* and where they lead.
Stays(w) ==
    \/ InsertReceipt(w) \/ FindDuplicate(w) \/ Look(w) \/ Put(w) \/ PutRefused(w)
    \/ FindDocument(w) \/ Commit(w) \/ Fails(w)

LEMMA StaysShape ==
    ASSUME TypeOK, NEW w \in Workers, Stays(w)
    PROVE  /\ pc[w] \in {"insert", "look", "put", "record", "commit", "delete"}
           /\ pc[w] = "insert" => pc'[w] \in {"skip", "look"}
           /\ pc[w] # "insert" => pc'[w] \in {"put", "record", "commit", "delete", "cleanup"}
           /\ \A v \in Workers \ {w} :
                pc'[v] = pc[v] /\ found'[v] = found[v] /\ stamp'[v] = stamp[v] /\ recorded'[v] = recorded[v]
           /\ pc' \in [Workers -> Steps]
           /\ UNCHANGED <<receives, batch, current, crashes, timeouts, interrupted>>
<1>1. CASE InsertReceipt(w) \/ FindDuplicate(w)
  BY <1>1 DEF TypeOK, InsertReceipt, FindDuplicate, Goto, Steps, queueVars, historyVars
<1>2. CASE Look(w) \/ Put(w) \/ PutRefused(w)
  BY <1>2 DEF TypeOK, Look, Put, PutRefused, Goto, Steps, queueVars, historyVars
<1>3. CASE FindDocument(w) \/ Commit(w)
  BY <1>3 DEF TypeOK, FindDocument, Commit, Goto, Steps, queueVars, historyVars
<1>4. CASE Fails(w)
  BY <1>4 DEF TypeOK, Fails, Goto, Steps
<1>. QED BY <1>1, <1>2, <1>3, <1>4 DEF Stays

\* The steps of a worker that put its message out of hand.
Leaves(w) == SkipDuplicate(w) \/ DeleteMessage(w) \/ Cleanup(w) \/ Ends(w)

LEMMA LeavesShape ==
    ASSUME TypeOK, NEW w \in Workers, Leaves(w)
    PROVE  /\ pc' \in [Workers -> Steps]
           /\ pc'[w] = IF Ends(w) THEN "down" ELSE "idle"
           /\ pc[w] # "down"
           /\ current' = [current EXCEPT ![w] = None]
           /\ found' = [found EXCEPT ![w] = FALSE]
           /\ stamp' = [stamp EXCEPT ![w] = 0]
           /\ recorded' = [recorded EXCEPT ![w] = FALSE]
           /\ batch' \in {batch, [batch EXCEPT ![w] = {}]}
           /\ \A v \in Workers \ {w} : pc'[v] = pc[v]
           /\ UNCHANGED <<receives, certificates, documents, artifact>>
           /\ UNCHANGED <<clock, failures, raced, timeouts>>
<1>1. CASE Ends(w)
  <2>1. Die(w) /\ pc[w] # "down"
    BY <1>1 DEF Ends, Crash, InsertFails, SkipFails, CleanupFails
  <2>. QED BY <1>1, <2>1 DEF TypeOK, Die, Forget, Goto, Steps
<1>2. CASE ~Ends(w)
  <2>1. /\ SkipDuplicate(w) \/ DeleteMessage(w) \/ Cleanup(w)
        /\ Finish(w) /\ pc[w] # "down"
    BY <1>2 DEF Leaves, SkipDuplicate, DeleteMessage, Cleanup
  <2>2. UNCHANGED <<receives, certificates, documents, artifact, clock, failures, raced, timeouts>>
    BY <2>1 DEF SkipDuplicate, DeleteMessage, Cleanup, queueVars, dbVars, historyVars
  <2>. QED BY <1>2, <2>1, <2>2 DEF TypeOK, Finish, Forget, Goto, Steps
<1>. QED BY <1>1, <1>2

LEMMA WorkerSteps ==
    ASSUME NEW w \in Workers, WorkerStep(w)
    PROVE  Take(w) \/ Restart(w) \/ Stays(w) \/ Leaves(w)
BY DEF WorkerStep, Work, Stays, Leaves

-----------------------------------------------------------------------------
(* Types. *)

LEMMA DeletedType ==
    ASSUME TypeOK, NEW b \in Received, Deleted(b)
    PROVE  /\ place' \in [Messages -> Places]
           /\ \A m \in Messages : place'[m] = place[m] \/ (m = b.message /\ place'[m] = "deleted")
BY DEF TypeOK, Deleted, Received, Places

LEMMA TypeStep ==
    ASSUME TypeOK, HolderInv, StoredInv, [Next]_vars
    PROVE  TypeOK'
<1>1. CASE UNCHANGED vars
  BY <1>1, Unchanged DEF TypeOK
<1>2. ASSUME NEW m \in Messages, Send(m) \/ Redrive(m)
      PROVE  TypeOK'
  BY <1>2 DEF TypeOK, Send, Redrive, Places, localVars, dbVars, historyVars
<1>3. ASSUME NEW m \in Messages, VisibilityTimeout(m)
      PROVE  TypeOK'
  <2>1. IdOf[m] \in Ids
    BY ShapeAssumption
  <2>. QED BY <1>3, <2>1 DEF TypeOK, VisibilityTimeout, Places, localVars, dbVars
<1>4. ASSUME NEW w \in Workers, Receive(w)
      PROVE  TypeOK'
  <2>1. PICK taken \in SUBSET Receivable :
          /\ place' = [m \in Messages |-> IF m \in taken THEN "inflight" ELSE place[m]]
          /\ receives' = [m \in Messages |-> receives[m] + IF m \in taken THEN 1 ELSE 0]
          /\ batch' = [batch EXCEPT ![w] =
                          {[message |-> m, handle |-> receives[m] + 1] : m \in taken}]
    BY <1>4 DEF Receive
  <2>2. place' \in [Messages -> Places]
    BY <2>1 DEF TypeOK, Places
  <2>3. receives' \in [Messages -> 0 .. MaxReceives]
    BY <2>1, BoundsAssumption DEF TypeOK, Receivable
  <2>4. {[message |-> m, handle |-> receives[m] + 1] : m \in taken} \subseteq Received
    BY <2>1 DEF TypeOK, Receivable, Received
  <2>5. batch' \in [Workers -> SUBSET Received]
    BY <2>1, <2>4 DEF TypeOK
  <2>. QED BY <1>4, <2>2, <2>3, <2>5 DEF TypeOK, Receive, dbVars, historyVars
<1>5. ASSUME NEW w \in Workers, Take(w)
      PROVE  TypeOK'
  BY <1>5 DEF TypeOK, Take, Goto, Steps, queueVars, dbVars, historyVars
<1>6. ASSUME NEW w \in Workers, Restart(w)
      PROVE  TypeOK'
  BY <1>6 DEF TypeOK, Restart, Goto, Steps, queueVars, dbVars, historyVars
<1>7. ASSUME NEW w \in Workers, Stays(w)
      PROVE  TypeOK'
  <2>1. /\ current[w] \in Received
        /\ Id(w) \in Ids /\ Result(w) \in Results /\ Award(w) \in Awards
    BY <1>7, StaysShape, InHand
  <2>2. pc' \in [Workers -> Steps]
    BY <1>7, StaysShape
  <2>3. CASE InsertReceipt(w) \/ FindDuplicate(w)
    BY <2>1, <2>2, <2>3
       DEF TypeOK, InsertReceipt, FindDuplicate, queueVars, historyVars, dbVars
  <2>4. CASE Look(w)
    <3>1. UNCHANGED <<queueVars, batch, current, recorded, dbVars,
                      failures, interrupted, crashes, timeouts>>
      BY <2>4 DEF Look
    <3>2. clock' = clock + 1 /\ clock' \in Nat /\ clock \in Nat
      BY <2>4 DEF Look, TypeOK
    <3>3. found' \in [Workers -> BOOLEAN]
      <4>1. (certificates[Award(w)] > 0) \in BOOLEAN
        OBVIOUS
      <4>2. found' = [found EXCEPT ![w] = certificates[Award(w)] > 0]
        BY <2>4 DEF Look
      <4>3. found \in [Workers -> BOOLEAN]
        BY DEF TypeOK
      <4>. QED BY <4>1, <4>2, <4>3, Zenon
    <3>4. stamp' \in [Workers -> 0 .. clock']
      BY <2>4, <3>2 DEF Look, TypeOK
    <3>5. raced' \subseteq Awards
      BY <2>1, <2>4 DEF Look, TypeOK
    <3>6. documents' \subseteq [key : Results, hash : 1 .. clock']
      <4>1. 1 .. clock \subseteq 1 .. clock'
        BY <3>2
      <4>. QED BY <3>1, <4>1 DEF TypeOK, dbVars
    <3>7. artifact' \in [Results -> 0 .. clock']
      BY <3>1, <3>2 DEF TypeOK, dbVars
    <3>. QED BY <2>2, <3>1, <3>2, <3>3, <3>4, <3>5, <3>6, <3>7 DEF TypeOK, queueVars, dbVars
  <2>5. CASE Put(w) \/ PutRefused(w)
    BY <2>1, <2>2, <2>5
       DEF TypeOK, Put, PutRefused, Store, queueVars, dbVars, historyVars
  <2>6. CASE FindDocument(w)
    <3>1. recorded' \in [Workers -> BOOLEAN]
      BY <2>6, Zenon DEF FindDocument, TypeOK
    <3>. QED BY <2>2, <2>6, <3>1 DEF TypeOK, FindDocument, queueVars, dbVars, historyVars
  <2>7. ASSUME Record(w), pc[w] = "commit"
        PROVE  /\ certificates' \in [Awards -> Nat]
               /\ documents' \subseteq [key : Results, hash : 1 .. clock]
    <3>1. stamp[w] \in 1 .. clock
      BY <2>7 DEF TypeOK, StoredInv
    <3>. QED BY <2>1, <2>7, <3>1 DEF Record, TypeOK
  <2>8. CASE Commit(w)
    BY <2>2, <2>7, <2>8 DEF TypeOK, Commit, queueVars, historyVars
  <2>9. CASE Fails(w)
    <3>1. /\ place' = place \/ Deleted(current[w])
          /\ artifact' = artifact \/ Store(w)
          /\ UNCHANGED <<certificates, documents>> \/ (pc[w] = "commit" /\ Record(w))
          /\ failures' = [failures EXCEPT ![Id(w)] = @ + 1]
          /\ UNCHANGED <<receives, batch, current, found, stamp, recorded, receipts,
                         clock, interrupted, raced, crashes, timeouts>>
      BY <2>9 DEF Fails
    <3>2. place' \in [Messages -> Places]
      BY <2>1, <3>1, DeletedType DEF TypeOK
    <3>3. artifact' \in [Results -> 0 .. clock] /\ failures' \in [Ids -> Nat]
      BY <2>1, <3>1 DEF TypeOK, Store
    <3>. QED BY <2>2, <2>7, <3>1, <3>2, <3>3 DEF TypeOK
  <2>. QED BY <1>7, <2>3, <2>4, <2>5, <2>6, <2>8, <2>9 DEF Stays
<1>8. ASSUME NEW w \in Workers, Leaves(w)
      PROVE  TypeOK'
  <2>1. place' \in [Messages -> Places]
    <3>1. CASE pc[w] \in {"skip", "delete"}
      <4>1. place' = place \/ Deleted(current[w])
        BY <1>8, <3>1 DEF Leaves, Ends, SkipDuplicate, DeleteMessage, Cleanup, Crash, InsertFails,
                          SkipFails, CleanupFails, queueVars
      <4>. QED BY <3>1, <4>1, InHand, DeletedType DEF TypeOK
    <3>2. CASE pc[w] \notin {"skip", "delete"}
      <4>1. place' = place
        BY <1>8, <3>2 DEF Leaves, Ends, SkipDuplicate, DeleteMessage, Cleanup, Crash, InsertFails,
                          SkipFails, CleanupFails, queueVars
      <4>. QED BY <4>1 DEF TypeOK
    <3>. QED BY <3>1, <3>2
  <2>2. /\ interrupted' \subseteq Ids /\ receipts' \subseteq Ids
        /\ crashes' \in Nat
    <3>1. CASE Ends(w) /\ pc[w] \notin {"idle", "down"}
      <4>1. Id(w) \in Ids
        BY <3>1, InHand
      <4>. QED BY <3>1, <4>1 DEF TypeOK, Ends, Crash, InsertFails, SkipFails, CleanupFails, Die
    <3>2. CASE Ends(w) /\ pc[w] \in {"idle", "down"}
      BY <3>2 DEF TypeOK, Ends, Crash, InsertFails, SkipFails, CleanupFails, Die, Holds
    <3>3. CASE SkipDuplicate(w) \/ DeleteMessage(w) \/ Cleanup(w)
      BY <3>3 DEF TypeOK, SkipDuplicate, DeleteMessage, Cleanup, dbVars, historyVars
    <3>. QED BY <1>8, <3>1, <3>2, <3>3 DEF Leaves
  <2>3. found' \in [Workers -> BOOLEAN] /\ recorded' \in [Workers -> BOOLEAN]
    <3>1. /\ found' = [found EXCEPT ![w] = FALSE]
          /\ recorded' = [recorded EXCEPT ![w] = FALSE]
      BY <1>8, LeavesShape
    <3>. QED BY <3>1, Zenon DEF TypeOK
  <2>. QED BY <1>8, <2>1, <2>2, <2>3, LeavesShape DEF TypeOK
<1>. QED BY <1>1, <1>2, <1>3, <1>4, <1>5, <1>6, <1>7, <1>8, NextSteps, WorkerSteps DEF QueueStep

-----------------------------------------------------------------------------
(* The receipt as a lock. *)

\* Where a step of a worker leaves its hand.
LEMMA TakeShape ==
    ASSUME TypeOK, NEW w \in Workers, Take(w)
    PROVE  \E b \in batch[w] :
              /\ b \in Received
              /\ current' = [current EXCEPT ![w] = b] /\ current'[w] = b
              /\ batch' = [batch EXCEPT ![w] = @ \ {b}] /\ batch'[w] = batch[w] \ {b}
              /\ pc' = [pc EXCEPT ![w] = "insert"]
              /\ pc[w] = "idle"
              /\ UNCHANGED <<place, receives, found, stamp, recorded>>
              /\ UNCHANGED <<receipts, certificates, documents, artifact>>
              /\ UNCHANGED <<clock, failures, interrupted, raced, crashes, timeouts>>
BY DEF TypeOK, Take, Idle, Goto, queueVars, dbVars, historyVars

\* Only the holder of a job takes its receipt away.
LEMMA ReceiptsKept ==
    ASSUME TypeOK, HolderInv, NEW w \in Workers, WorkerStep(w)
    PROVE  /\ receipts' \in {receipts, receipts \union {Id(w)}, receipts \ {Id(w)}}
           /\ receipts' # receipts => pc[w] \in {"insert", "cleanup"}
           /\ receipts \subseteq receipts' \/ pc[w] = "cleanup"
           /\ pc[w] = "insert" /\ pc'[w] = "look" => /\ Id(w) \notin receipts
                                                     /\ receipts' = receipts \union {Id(w)}
<1>1. CASE Take(w) \/ Restart(w)
  BY <1>1 DEF TypeOK, Take, Restart, Idle, Goto, dbVars
<1>2. CASE InsertReceipt(w) \/ FindDuplicate(w)
  BY <1>2 DEF TypeOK, InsertReceipt, FindDuplicate, Goto, dbVars, Steps
<1>3. CASE Look(w) \/ Put(w) \/ PutRefused(w) \/ FindDocument(w) \/ Commit(w) \/ Fails(w)
  BY <1>3 DEF Look, Put, PutRefused, FindDocument, Commit, Fails, dbVars
<1>4. CASE Leaves(w)
  <2>1. pc'[w] # "look"
    BY <1>4, LeavesShape
  <2>. QED
    BY <1>4, <2>1 DEF Leaves, Ends, SkipDuplicate, DeleteMessage, Cleanup, Crash, InsertFails,
                      SkipFails, CleanupFails, dbVars
<1>. QED BY <1>1, <1>2, <1>3, <1>4, WorkerSteps DEF Stays

\* A step of w changes no other worker's attempt.
LEMMA OthersKept ==
    ASSUME TypeOK, NEW w \in Workers, WorkerStep(w), NEW v \in Workers, v # w
    PROVE  /\ pc'[v] = pc[v] /\ current'[v] = current[v] /\ batch'[v] = batch[v]
           /\ found'[v] = found[v] /\ stamp'[v] = stamp[v] /\ recorded'[v] = recorded[v]
           /\ Id(v)' = Id(v) /\ Result(v)' = Result(v) /\ Award(v)' = Award(v)
           /\ Holds(v)' = Holds(v)
<1>1. CASE Take(w) \/ Restart(w)
  BY <1>1 DEF TypeOK, Take, Restart, Goto, Id, Result, Award, Holds
<1>2. CASE Stays(w)
  BY <1>2, StaysShape DEF Id, Result, Award, Holds
<1>3. CASE Leaves(w)
  BY <1>3, LeavesShape DEF TypeOK, Id, Result, Award, Holds
<1>. QED BY <1>1, <1>2, <1>3, WorkerSteps

\* What a queue step leaves, as the invariants read it.
LEMMA QueueKeepsAttempts ==
    ASSUME QueueStep, NEW w
    PROVE  /\ Id(w)' = Id(w) /\ Result(w)' = Result(w) /\ Award(w)' = Award(w)
           /\ Holds(w)' = Holds(w) /\ Unrecorded(w)' = Unrecorded(w)
BY QueueKeeps DEF Id, Result, Award, Holds, Unrecorded

LEMMA HolderStep ==
    ASSUME TypeOK, HolderInv, OneWorkerPerJob, [Next]_vars
    PROVE  HolderInv' /\ OneWorkerPerJob'
<1>1. CASE UNCHANGED vars
  BY <1>1, Unchanged DEF HolderInv, OneWorkerPerJob, Holds, Id
<1>2. CASE QueueStep
  BY <1>2, QueueKeeps, QueueKeepsAttempts DEF HolderInv, OneWorkerPerJob
<1>3. ASSUME NEW w \in Workers, WorkerStep(w)
      PROVE  HolderInv' /\ OneWorkerPerJob'
  <2>1. \A v \in Workers \ {w} : /\ pc'[v] = pc[v] /\ current'[v] = current[v]
                                 /\ Id(v)' = Id(v) /\ Holds(v)' = Holds(v)
    BY <1>3, OthersKept
  <2>2. \/ ~Holds(w)'
        \/ Holds(w) /\ Id(w)' = Id(w) /\ receipts' = receipts
        \/ Id(w)' = Id(w) /\ Id(w) \notin receipts /\ receipts' = receipts \union {Id(w)}
    <3>1. CASE Take(w) \/ Restart(w)
      BY <3>1 DEF TypeOK, Take, Restart, Goto, Holds
    <3>2. CASE Stays(w)
      BY <1>3, <3>2, StaysShape, ReceiptsKept DEF Holds, Id
    <3>3. CASE Leaves(w)
      BY <3>3, LeavesShape DEF Holds
    <3>. QED BY <1>3, <3>1, <3>2, <3>3, WorkerSteps
  <2>3. pc'[w] \in {"idle", "down"} <=> current'[w] = None
    <3>1. CASE Take(w)
      BY <3>1, TakeShape, ShapeAssumption DEF TypeOK, Received
    <3>2. CASE Restart(w)
      BY <3>2 DEF TypeOK, HolderInv, Restart, Goto
    <3>3. CASE Stays(w)
      BY <3>3, StaysShape DEF HolderInv
    <3>4. CASE Leaves(w)
      BY <3>4, LeavesShape DEF TypeOK
    <3>. QED BY <1>3, <3>1, <3>2, <3>3, <3>4, WorkerSteps
  <2>4. ASSUME NEW v \in Workers, v # w, Holds(v)
        PROVE  Id(v) \in receipts'
    <3>1. Id(v) \in receipts
      BY <2>4 DEF HolderInv
    <3>2. pc[w] = "cleanup" => Id(v) # Id(w)
      BY <2>4 DEF OneWorkerPerJob, Holds
    <3>. QED BY <1>3, <3>1, <3>2, ReceiptsKept
  <2>5. HolderInv'
    BY <2>1, <2>2, <2>3, <2>4 DEF HolderInv
  <2>6. ASSUME NEW v \in Workers, v # w, Holds(v), Holds(w)'
        PROVE  Id(v) # Id(w)'
    BY <2>2, <2>6 DEF HolderInv, OneWorkerPerJob
  <2>. QED BY <2>1, <2>5, <2>6 DEF OneWorkerPerJob
<1>. QED BY <1>1, <1>2, <1>3, NextSteps

-----------------------------------------------------------------------------
(* What is stored and recorded stays. *)

LEMMA RecordShape ==
    ASSUME TypeOK, HolderInv, NEW w \in Workers, pc[w] = "commit", Record(w)
    PROVE  /\ \A a \in Awards : certificates'[a] = certificates[a] +
                  IF a = Award(w) /\ ~found[w] THEN 1 ELSE 0
           /\ documents \subseteq documents'
           /\ documents' \subseteq documents \union {[key |-> Result(w), hash |-> stamp[w]]}
           /\ recorded[w] => documents' = documents
           /\ ~recorded[w] => [key |-> Result(w), hash |-> stamp[w]] \in documents'
BY InHand DEF TypeOK, Record

\* What a worker's step does to the certificates, the documents and the artifacts.
LEMMA Effects ==
    ASSUME TypeOK, NEW w \in Workers, WorkerStep(w)
    PROVE  /\ \/ UNCHANGED <<certificates, documents>>
              \/ /\ pc[w] = "commit" /\ Record(w)
                 /\ Commit(w) \/ Fails(w)
           /\ \/ artifact' = artifact
              \/ /\ pc[w] = "put" /\ ~Refused(w) /\ Store(w)
                 /\ Put(w) \/ Fails(w)
<1>1. CASE Take(w) \/ Restart(w)
  BY <1>1 DEF Take, Restart, dbVars
<1>2. CASE InsertReceipt(w) \/ FindDuplicate(w) \/ Look(w) \/ PutRefused(w) \/ FindDocument(w)
  BY <1>2 DEF InsertReceipt, FindDuplicate, Look, PutRefused, FindDocument, dbVars
<1>3. CASE Put(w) \/ Commit(w)
  BY <1>3 DEF Put, Commit
<1>4. CASE Fails(w)
  BY <1>4 DEF Fails
<1>5. CASE Leaves(w)
  BY <1>5, LeavesShape
<1>. QED BY <1>1, <1>2, <1>3, <1>4, <1>5, WorkerSteps DEF Stays

LEMMA Grows ==
    ASSUME TypeOK, HolderInv, StoredInv, [Next]_vars
    PROVE  /\ documents \subseteq documents'
           /\ \A a \in Awards : certificates[a] \in Nat /\ certificates'[a] \in Nat
                                /\ certificates'[a] >= certificates[a]
           /\ \A r \in Results : artifact[r] # 0 => artifact'[r] # 0
           /\ \A i \in Ids : Issued(i) => Issued(i)'
<1>1. /\ documents \subseteq documents'
      /\ \A a \in Awards : certificates[a] \in Nat /\ certificates'[a] \in Nat
                           /\ certificates'[a] >= certificates[a]
      /\ \A r \in Results : artifact[r] # 0 => artifact'[r] # 0
  <2>1. CASE UNCHANGED vars
    BY <2>1, Unchanged DEF TypeOK
  <2>2. CASE QueueStep
    BY <2>2, QueueKeeps DEF TypeOK
  <2>3. ASSUME NEW w \in Workers, WorkerStep(w)
        PROVE  \A r \in Results : artifact[r] # 0 => artifact'[r] # 0
    BY <2>3, Effects DEF TypeOK, Store, StoredInv
  <2>4. ASSUME NEW w \in Workers, WorkerStep(w)
        PROVE  /\ documents \subseteq documents'
               /\ \A a \in Awards : certificates[a] \in Nat /\ certificates'[a] \in Nat
                                    /\ certificates'[a] >= certificates[a]
    <3>1. CASE UNCHANGED <<certificates, documents>>
      BY <3>1 DEF TypeOK
    <3>2. CASE pc[w] = "commit" /\ Record(w)
      <4>1. \A a \in Awards : certificates'[a] = certificates[a] +
                IF a = Award(w) /\ ~found[w] THEN 1 ELSE 0
        BY <3>2, RecordShape
      <4>2. documents \subseteq documents'
        BY <3>2, RecordShape
      <4>. QED BY <4>1, <4>2 DEF TypeOK
    <3>. QED BY <2>4, <3>1, <3>2, Effects
  <2>. QED BY <2>1, <2>2, <2>3, <2>4, NextSteps
<1>2. ASSUME NEW i \in Ids, Issued(i)
      PROVE  Issued(i)'
  <2>1. AwardOf[ResultOf[i]] \in Awards
    BY ShapeAssumption
  <2>. QED BY <1>1, <1>2, <2>1 DEF Issued
<1>. QED BY <1>1, <1>2

LEMMA StoredStep ==
    ASSUME TypeOK, HolderInv, StoredInv, [Next]_vars
    PROVE  StoredInv'
<1>1. CASE UNCHANGED vars
  BY <1>1, Unchanged DEF StoredInv, DocumentsAreStored, Result, Id
<1>2. CASE QueueStep
  BY <1>2, QueueKeeps, QueueKeepsAttempts DEF StoredInv, DocumentsAreStored
<1>3. ASSUME NEW w \in Workers, WorkerStep(w)
      PROVE  StoredInv'
  <2>1. \A v \in Workers \ {w} : /\ pc'[v] = pc[v] /\ stamp'[v] = stamp[v]
                                 /\ Result(v)' = Result(v)
    BY <1>3, OthersKept
  <2>2. \A r \in Results : artifact[r] # 0 => artifact'[r] # 0
    BY <1>3, Grows DEF Next, WorkerStep, Ends
  <2>3. \A v \in Workers : pc[v] \notin {"idle", "down"} => Result(v) \in Results
    BY InHand
  <2>4. /\ pc'[w] \in {"put", "record", "commit"} => stamp'[w] # 0
        /\ pc'[w] \in {"record", "commit"} => artifact'[Result(w)'] # 0
    <3>1. CASE pc'[w] \notin {"put", "record", "commit"}
      BY <3>1
    <3>2. CASE Look(w)
      BY <3>2 DEF TypeOK, Look, Goto
    <3>3. CASE Put(w)
      BY <2>3, <3>3 DEF TypeOK, StoredInv, Put, Store, Goto, Result, Id, historyVars
    <3>4. CASE FindDocument(w)
      BY <2>2, <2>3, <3>4 DEF TypeOK, StoredInv, FindDocument, Goto, Result, Id
    <3>5. CASE InsertReceipt(w) \/ FindDuplicate(w) \/ PutRefused(w) \/ Commit(w) \/ Fails(w)
               \/ Take(w) \/ Restart(w)
      <4>1. pc'[w] \notin {"put", "record", "commit"}
        BY <3>5 DEF TypeOK, InsertReceipt, FindDuplicate, PutRefused, Commit, Fails, Take,
                    Restart, Goto
      <4>. QED BY <4>1
    <3>6. CASE Leaves(w)
      BY <3>1, <3>6, LeavesShape
    <3>. QED BY <1>3, <3>2, <3>3, <3>4, <3>5, <3>6, WorkerSteps DEF Stays
  <2>5. DocumentsAreStored'
    <3>1. ASSUME NEW d \in documents
          PROVE  artifact'[d.key] # 0
      BY <2>2, <3>1 DEF StoredInv, DocumentsAreStored, TypeOK
    <3>2. ASSUME NEW d \in documents' \ documents
          PROVE  artifact'[d.key] # 0
      <4>1. pc[w] = "commit" /\ Record(w)
        BY <1>3, <3>2, Effects
      <4>2. documents' \subseteq documents \union {[key |-> Result(w), hash |-> stamp[w]]}
        BY <4>1, RecordShape
      <4>3. d.key = Result(w)
        BY <3>2, <4>2
      <4>. QED BY <2>2, <2>3, <4>1, <4>3 DEF StoredInv
    <3>. QED BY <3>1, <3>2 DEF DocumentsAreStored
  <2>6. ASSUME NEW v \in Workers, v # w
        PROVE  /\ pc'[v] \in {"put", "record", "commit"} => stamp'[v] # 0
               /\ pc'[v] \in {"record", "commit"} => artifact'[Result(v)'] # 0
    BY <2>1, <2>2, <2>3, <2>6 DEF StoredInv
  <2>7. \A d \in documents' : \E i \in Ids : ResultOf[i] = d.key
    <3>1. CASE documents' = documents
      BY <3>1 DEF StoredInv
    <3>2. CASE pc[w] = "commit" /\ Record(w)
      <4>1. documents' \subseteq documents \union {[key |-> Result(w), hash |-> stamp[w]]}
        BY <3>2, RecordShape
      <4>2. Id(w) \in Ids /\ Result(w) = ResultOf[Id(w)]
        BY <3>2, InHand DEF Result
      <4>. QED BY <4>1, <4>2 DEF StoredInv
    <3>. QED BY <1>3, <3>1, <3>2, Effects
  <2>8. \A v \in Workers : /\ pc'[v] \in {"put", "record", "commit"} => stamp'[v] # 0
                           /\ pc'[v] \in {"record", "commit"} => artifact'[Result(v)'] # 0
    BY <2>4, <2>6
  <2>. QED BY <2>5, <2>7, <2>8 DEF StoredInv
<1>. QED BY <1>1, <1>2, <1>3, NextSteps

-----------------------------------------------------------------------------
(* What an attempt relies on, and the race of two. *)

LEMMA SeenStep ==
    ASSUME TypeOK, HolderInv, StoredInv, SeenInv, [Next]_vars
    PROVE  SeenInv'
<1>1. CASE UNCHANGED vars
  BY <1>1, Unchanged DEF SeenInv, Award, Result, Id, Issued
<1>2. CASE QueueStep
  BY <1>2, QueueKeeps, QueueKeepsAttempts DEF SeenInv, Issued
<1>3. ASSUME NEW w \in Workers, WorkerStep(w)
      PROVE  SeenInv'
  <2>1. \A v \in Workers : pc[v] \notin {"idle", "down"} =>
            Id(v) \in Ids /\ Result(v) \in Results /\ Award(v) \in Awards
    BY InHand
  <2>2. ASSUME NEW v \in Workers, v # w
        PROVE  /\ pc'[v] \in {"put", "record", "commit"} /\ found'[v] => certificates'[Award(v)'] > 0
               /\ pc'[v] = "commit" /\ recorded'[v] => \E d \in documents' : d.key = Result(v)'
               /\ pc'[v] = "delete" => Issued(Id(v))'
    <3>1. /\ pc'[v] = pc[v] /\ found'[v] = found[v] /\ recorded'[v] = recorded[v]
          /\ Id(v)' = Id(v) /\ Result(v)' = Result(v) /\ Award(v)' = Award(v)
      BY <1>3, <2>2, OthersKept
    <3>2. /\ documents \subseteq documents'
          /\ \A a \in Awards : certificates[a] > 0 => certificates'[a] > 0
          /\ \A i \in Ids : Issued(i) => Issued(i)'
      BY Grows
    <3>3. Issued(Id(v))' <=> /\ certificates'[AwardOf[ResultOf[Id(v)]]] > 0
                             /\ \E d \in documents' : d.key = ResultOf[Id(v)]
      BY <3>1 DEF Issued
    <3>4. pc[v] = "delete" => /\ certificates'[AwardOf[ResultOf[Id(v)]]] > 0
                              /\ \E d \in documents' : d.key = ResultOf[Id(v)]
      BY <2>1, <3>2 DEF SeenInv, Issued
    <3>. QED BY <2>1, <3>1, <3>2, <3>3, <3>4 DEF SeenInv
  <2>3. pc'[w] \in {"put", "record", "commit"} /\ found'[w] => certificates'[Award(w)'] > 0
    <3>1. CASE Look(w)
      BY <3>1 DEF TypeOK, Look, Award, Result, Id, dbVars
    <3>2. CASE Put(w) \/ FindDocument(w)
      <4>1. /\ pc[w] \in {"put", "record"} /\ found'[w] = found[w]
            /\ UNCHANGED <<certificates, current>>
        BY <3>2 DEF Put, FindDocument, dbVars
      <4>. QED BY <4>1 DEF SeenInv, Award, Result, Id
    <3>3. CASE pc'[w] \notin {"put", "record", "commit"}
      BY <3>3
    <3>4. CASE InsertReceipt(w) \/ FindDuplicate(w) \/ PutRefused(w) \/ Commit(w) \/ Fails(w)
               \/ Take(w) \/ Restart(w)
      BY <3>4, <3>3 DEF TypeOK, InsertReceipt, FindDuplicate, PutRefused, Commit, Fails, Take,
                        Restart, Goto
    <3>5. CASE Leaves(w)
      BY <3>5, <3>3, LeavesShape
    <3>. QED BY <1>3, <3>1, <3>2, <3>4, <3>5, WorkerSteps DEF Stays
  <2>4. pc'[w] = "commit" /\ recorded'[w] => \E d \in documents' : d.key = Result(w)'
    <3>1. CASE FindDocument(w)
      BY <3>1 DEF TypeOK, FindDocument, Result, Id, dbVars
    <3>2. CASE InsertReceipt(w) \/ FindDuplicate(w) \/ PutRefused(w) \/ Commit(w) \/ Fails(w)
               \/ Take(w) \/ Restart(w) \/ Look(w) \/ Put(w)
      <4>1. pc'[w] # "commit"
        BY <3>2 DEF TypeOK, InsertReceipt, FindDuplicate, PutRefused, Commit, Fails, Take,
                    Restart, Goto, Look, Put
      <4>. QED BY <4>1
    <3>3. CASE Leaves(w)
      BY <3>3, LeavesShape
    <3>. QED BY <1>3, <3>1, <3>2, <3>3, WorkerSteps DEF Stays
  <2>5. pc'[w] = "delete" => Issued(Id(w))'
    <3>1. CASE Commit(w)
      <4>1. /\ pc[w] = "commit" /\ Record(w) /\ UNCHANGED current
        BY <3>1 DEF Commit
      <4>2. Id(w)' = Id(w)
        BY <4>1 DEF Id
      <4>3. certificates'[Award(w)] > 0
        <5>1. Award(w) \in Awards /\ certificates[Award(w)] \in Nat
          BY <2>1, <4>1 DEF TypeOK
        <5>2. certificates'[Award(w)] = certificates[Award(w)] + IF ~found[w] THEN 1 ELSE 0
          BY <4>1, <5>1, RecordShape
        <5>3. found[w] => certificates[Award(w)] > 0
          BY <4>1 DEF SeenInv
        <5>. QED BY <5>1, <5>2, <5>3
      <4>4. documents \subseteq documents'
        BY <4>1, RecordShape
      <4>5. \E d \in documents' : d.key = Result(w)
        BY <4>1, <4>4, RecordShape DEF SeenInv
      <4>. QED BY <4>2, <4>3, <4>5 DEF Issued, Award, Result
    <3>2. CASE InsertReceipt(w) \/ FindDuplicate(w) \/ PutRefused(w) \/ FindDocument(w) \/ Fails(w)
               \/ Take(w) \/ Restart(w) \/ Look(w) \/ Put(w)
      <4>1. pc'[w] # "delete"
        BY <3>2 DEF TypeOK, InsertReceipt, FindDuplicate, PutRefused, FindDocument, Fails, Take,
                    Restart, Goto, Look, Put
      <4>. QED BY <4>1
    <3>3. CASE Leaves(w)
      BY <3>3, LeavesShape
    <3>. QED BY <1>3, <3>1, <3>2, <3>3, WorkerSteps DEF Stays
  <2>. QED BY <2>2, <2>3, <2>4, <2>5 DEF SeenInv
<1>. QED BY <1>1, <1>2, <1>3, NextSteps

LEMMA RaceStep ==
    ASSUME TypeOK, HolderInv, RaceInv, [Next]_vars
    PROVE  RaceInv'
<1>1. CASE UNCHANGED vars
  BY <1>1, Unchanged DEF RaceInv, Unrecorded, Award, Result, Id
<1>2. CASE QueueStep
  BY <1>2, QueueKeeps, QueueKeepsAttempts DEF RaceInv
<1>3. ASSUME NEW w \in Workers, WorkerStep(w)
      PROVE  RaceInv'
  <2>1. \A v \in Workers \ {w} : Unrecorded(v)' = Unrecorded(v) /\ Award(v)' = Award(v)
    BY <1>3, OthersKept DEF Unrecorded
  <2>2. raced \subseteq raced' /\ raced' \subseteq Awards
    <3>1. CASE Look(w)
      <4>1. Award(w) \in Awards
        BY <3>1, InHand DEF Look
      <4>. QED BY <3>1, <4>1 DEF Look, TypeOK
    <3>2. CASE Take(w) \/ Restart(w) \/ Leaves(w)
      BY <3>2, LeavesShape DEF Take, Restart, historyVars, TypeOK
    <3>3. CASE InsertReceipt(w) \/ FindDuplicate(w) \/ PutRefused(w) \/ Commit(w) \/ Fails(w)
               \/ Put(w) \/ FindDocument(w)
      BY <3>3 DEF InsertReceipt, FindDuplicate, PutRefused, Commit, Fails, Put, FindDocument,
                  historyVars, TypeOK
    <3>. QED BY <1>3, <3>1, <3>2, <3>3, WorkerSteps DEF Stays
  <2>3. CASE Look(w)
    <3>1. /\ pc[w] = "look" /\ Award(w)' = Award(w) /\ certificates' = certificates
          /\ Unrecorded(w)' <=> certificates[Award(w)] = 0
          /\ certificates[Award(w)] = 0 /\ (\E v \in Workers : Unrecorded(v) /\ Award(v) = Award(w))
                => Award(w) \in raced'
      <4>1. Award(w) \in Awards
        BY <2>3, InHand DEF Look
      <4>2. /\ pc[w] = "look" /\ pc'[w] = "put" /\ found'[w] = (certificates[Award(w)] > 0)
            /\ UNCHANGED <<current, certificates>>
        BY <2>3 DEF Look, Goto, TypeOK, dbVars
      <4>3. Unrecorded(w)' <=> certificates[Award(w)] = 0
        <5>1. certificates[Award(w)] \in Nat
          BY <4>1 DEF TypeOK
        <5>2. CASE certificates[Award(w)] = 0
          <6>1. (certificates[Award(w)] > 0) = FALSE
            BY <5>2
          <6>2. found'[w] = FALSE
            BY <4>2, <6>1, Zenon
          <6>. QED BY <4>2, <5>2, <6>2 DEF Unrecorded
        <5>3. CASE certificates[Award(w)] > 0
          <6>1. (certificates[Award(w)] > 0) = TRUE
            BY <5>3
          <6>2. found'[w] = TRUE
            BY <4>2, <6>1, Zenon
          <6>. QED BY <4>2, <5>1, <5>3, <6>2 DEF Unrecorded
        <5>. QED BY <5>1, <5>2, <5>3
      <4>. QED BY <2>3, <4>2, <4>3 DEF Look, Award, Result, Id
    <3>2. ASSUME NEW a \in Awards \ raced', NEW v \in Workers, Unrecorded(v)', Award(v)' = a
          PROVE  /\ certificates'[a] = 0
                 /\ \A u \in Workers : Unrecorded(u)' /\ Award(u)' = a => v = u
      BY <2>1, <2>2, <3>1, <3>2 DEF RaceInv
    <3>3. \A a \in Awards \ raced' : certificates'[a] <= 1
      BY <2>2, <3>1 DEF RaceInv
    <3>. QED BY <3>2, <3>3 DEF RaceInv
  <2>4. CASE ~Look(w)
    <3>1. /\ Unrecorded(w)' => Unrecorded(w) /\ Award(w)' = Award(w)
      <4>1. CASE Put(w) \/ FindDocument(w)
        <5>1. /\ pc[w] \in {"put", "record"} /\ UNCHANGED <<found, current>>
          BY <4>1 DEF Put, FindDocument
        <5>. QED BY <5>1 DEF Unrecorded, Award, Result, Id
      <4>2. CASE InsertReceipt(w) \/ FindDuplicate(w) \/ PutRefused(w) \/ Commit(w) \/ Fails(w)
                 \/ Take(w) \/ Restart(w)
        BY <4>2 DEF TypeOK, InsertReceipt, FindDuplicate, PutRefused, Commit, Fails, Take,
                    Restart, Goto, Unrecorded
      <4>3. CASE Leaves(w)
        BY <4>3, LeavesShape DEF Unrecorded
      <4>. QED BY <1>3, <2>4, <4>1, <4>2, <4>3, WorkerSteps DEF Stays
    <3>2. CASE UNCHANGED <<certificates, documents>>
      BY <2>1, <2>2, <3>1, <3>2 DEF RaceInv
    <3>3. CASE pc[w] = "commit" /\ Record(w) /\ (Commit(w) \/ Fails(w))
      <4>1. ~Unrecorded(w)'
        BY <3>3 DEF Commit, Fails, Goto, TypeOK, Unrecorded
      <4>2. Award(w) \in Awards /\ (Unrecorded(w) <=> ~found[w])
        BY <3>3, InHand DEF Unrecorded
      <4>3. \A a \in Awards : certificates[a] \in Nat /\ certificates'[a] =
                certificates[a] + IF a = Award(w) /\ Unrecorded(w) THEN 1 ELSE 0
        BY <3>3, <4>2, RecordShape DEF TypeOK
      <4>4. ASSUME NEW a \in Awards \ raced'
            PROVE  /\ certificates'[a] <= 1
                   /\ \A v \in Workers : Unrecorded(v)' /\ Award(v)' = a =>
                         /\ certificates'[a] = 0
                         /\ \A u \in Workers : Unrecorded(u)' /\ Award(u)' = a => v = u
        <5>1. CASE a = Award(w) /\ Unrecorded(w)
          BY <2>1, <2>2, <4>1, <4>2, <4>3, <5>1 DEF RaceInv
        <5>2. CASE ~(a = Award(w) /\ Unrecorded(w))
          BY <2>1, <2>2, <4>1, <4>3, <5>2 DEF RaceInv
        <5>. QED BY <5>1, <5>2
      <4>. QED BY <4>4 DEF RaceInv
    <3>. QED BY <1>3, <3>2, <3>3, Effects
  <2>. QED BY <2>3, <2>4
<1>. QED BY <1>1, <1>2, <1>3, NextSteps

-----------------------------------------------------------------------------
(* One attempt at a job that goes smoothly. *)

\* Failures are counted, and an interruption is not forgotten.
LEMMA TroubleKept ==
    ASSUME TypeOK, HolderInv, [Next]_vars
    PROVE  /\ interrupted \subseteq interrupted'
           /\ \A i \in Ids : failures[i] > 0 => failures'[i] > 0
           /\ \A i \in Ids : Smooth(i)' => Smooth(i)
<1>1. interrupted \subseteq interrupted' /\ \A i \in Ids : failures[i] > 0 => failures'[i] > 0
  <2>1. CASE UNCHANGED vars
    BY <2>1, Unchanged
  <2>2. CASE QueueStep
    BY <2>2, QueueKeeps
  <2>3. ASSUME NEW w \in Workers, Take(w) \/ Restart(w)
        PROVE  UNCHANGED <<interrupted, failures>>
    BY <2>3 DEF Take, Restart, historyVars
  <2>4. ASSUME NEW w \in Workers, Stays(w)
        PROVE  interrupted \subseteq interrupted' /\ \A i \in Ids : failures[i] > 0 => failures'[i] > 0
    <3>1. interrupted' = interrupted /\ Id(w) \in Ids
      BY <2>4, StaysShape, InHand
    <3>2. failures' \in {failures, [failures EXCEPT ![Id(w)] = @ + 1]}
      BY <2>4 DEF Stays, InsertReceipt, FindDuplicate, Look, Put, PutRefused, FindDocument, Commit,
                  Fails, historyVars
    <3>. QED BY <3>1, <3>2 DEF TypeOK
  <2>5. ASSUME NEW w \in Workers, Leaves(w)
        PROVE  interrupted \subseteq interrupted' /\ failures' = failures
    BY <2>5, LeavesShape DEF Leaves, Ends, SkipDuplicate, DeleteMessage, Cleanup, Crash, InsertFails,
                             SkipFails, CleanupFails, historyVars
  <2>. QED BY <2>1, <2>2, <2>3, <2>4, <2>5, NextSteps, WorkerSteps
<1>2. \A i \in Ids : failures[i] \in Nat
  BY DEF TypeOK
<1>. QED BY <1>1, <1>2 DEF Smooth

\* An attempt touches only its own result and its own receipt.
LEMMA Apart ==
    ASSUME TypeOK, HolderInv, NEW w \in Workers, WorkerStep(w)
    PROVE  /\ \A r \in Results : pc[w] \in {"idle", "down"} \/ Result(w) # r =>
                 /\ artifact'[r] = artifact[r]
                 /\ \A d : d.key = r => (d \in documents' <=> d \in documents)
           /\ \A i \in Ids : pc[w] \in {"idle", "down"} \/ Id(w) # i =>
                 (i \in receipts' <=> i \in receipts)
<1>1. ASSUME NEW r \in Results, pc[w] \in {"idle", "down"} \/ Result(w) # r
      PROVE  artifact'[r] = artifact[r]
  BY <1>1, Effects DEF TypeOK, Store
<1>2. ASSUME NEW r \in Results, pc[w] \in {"idle", "down"} \/ Result(w) # r, NEW d, d.key = r
      PROVE  d \in documents' <=> d \in documents
  <2>1. CASE documents' = documents
    BY <2>1
  <2>2. CASE pc[w] = "commit" /\ Record(w)
    <3>1. /\ documents \subseteq documents'
          /\ documents' \subseteq documents \union {[key |-> Result(w), hash |-> stamp[w]]}
      BY <2>2, RecordShape
    <3>2. d # [key |-> Result(w), hash |-> stamp[w]]
      BY <1>2, <2>2
    <3>. QED BY <3>1, <3>2
  <2>. QED BY <2>1, <2>2, Effects
<1>3. ASSUME NEW i \in Ids, pc[w] \in {"idle", "down"} \/ Id(w) # i
      PROVE  i \in receipts' <=> i \in receipts
  BY <1>3, ReceiptsKept
<1>. QED BY <1>1, <1>2, <1>3

\* How an attempt can end that is not counted as interrupted.
LEMMA CleanEnd ==
    ASSUME TypeOK, NEW w \in Workers, Leaves(w), Id(w) \notin interrupted',
           pc[w] \notin {"idle", "down"}
    PROVE  /\ pc[w] \in {"look", "put", "record", "commit", "delete"} => DeleteMessage(w)
           /\ pc[w] # "cleanup" => receipts' = receipts
           /\ pc[w] = "cleanup" => receipts' = receipts \ {Id(w)} /\ place' = place
           /\ pc[w] = "skip" => place' = place \/ Deleted(current[w])
           /\ pc[w] = "insert" => place' = place
<1>1. CASE SkipDuplicate(w) \/ DeleteMessage(w) \/ Cleanup(w)
  BY <1>1 DEF SkipDuplicate, DeleteMessage, Cleanup, queueVars, dbVars
<1>2. CASE Crash(w)
  BY <1>2 DEF Crash, Holds
<1>3. CASE InsertFails(w) \/ SkipFails(w) \/ CleanupFails(w)
  BY <1>3 DEF InsertFails, SkipFails, CleanupFails
<1>. QED BY <1>1, <1>2, <1>3 DEF Leaves, Ends

LEMMA HashStep ==
    ASSUME TypeOK, HolderInv, OneWorkerPerJob, StoredInv, HashInv, [Next]_vars
    PROVE  HashInv'
<1>1. CASE UNCHANGED vars
  BY <1>1, Unchanged DEF HashInv, Sole, Smooth, Holds, Id
<1>2. CASE QueueStep
  BY <1>2, QueueKeeps, QueueKeepsAttempts, TroubleKept DEF HashInv, Sole
<1>3. ASSUME NEW w \in Workers, WorkerStep(w), NEW i \in Ids, Sole(i), Smooth(i)'
      PROVE  /\ i \notin receipts' => artifact'[ResultOf[i]] = 0
             /\ \A d \in documents' : d.key = ResultOf[i] => d.hash = artifact'[d.key]
             /\ \A v \in Workers : Holds(v)' /\ Id(v)' = i =>
                   /\ pc'[v] # "cleanup"
                   /\ pc'[v] \in {"look", "put"} => artifact'[ResultOf[i]] = 0
                   /\ pc'[v] \in {"record", "commit"} => artifact'[ResultOf[i]] = stamp'[v]
  <2>1. Smooth(i) /\ i \notin interrupted' /\ failures'[i] = 0
    BY <1>3, TroubleKept DEF Smooth
  <2>2. /\ i \notin receipts => artifact[ResultOf[i]] = 0
        /\ \A d \in documents : d.key = ResultOf[i] => d.hash = artifact[d.key]
        /\ \A v \in Workers : Holds(v) /\ Id(v) = i =>
              /\ pc[v] # "cleanup"
              /\ pc[v] \in {"look", "put"} => artifact[ResultOf[i]] = 0
              /\ pc[v] \in {"record", "commit"} => artifact[ResultOf[i]] = stamp[v]
    BY <1>3, <2>1 DEF HashInv
  <2>3. \A v \in Workers \ {w} : /\ pc'[v] = pc[v] /\ stamp'[v] = stamp[v]
                                 /\ Id(v)' = Id(v) /\ Holds(v)' = Holds(v)
    BY <1>3, OthersKept
  <2>4. ResultOf[i] \in Results
    BY ShapeAssumption
  <2>5. CASE pc[w] \in {"idle", "down"} \/ Id(w) # i
    <3>1. pc[w] \in {"idle", "down"} \/ Result(w) # ResultOf[i]
      <4>1. CASE pc[w] \notin {"idle", "down"}
        <5>1. Id(w) \in Ids
          BY <4>1, InHand
        <5>. QED BY <1>3, <2>5, <4>1, <5>1 DEF Sole, Result
      <4>. QED BY <4>1
    <3>2. /\ artifact'[ResultOf[i]] = artifact[ResultOf[i]]
          /\ \A d : d.key = ResultOf[i] => (d \in documents' <=> d \in documents)
          /\ i \in receipts' <=> i \in receipts
      BY <1>3, <2>4, <2>5, <3>1, Apart
    <3>3. ~(Holds(w)' /\ Id(w)' = i)
      <4>1. CASE Take(w) \/ Restart(w)
        BY <4>1 DEF TypeOK, Take, Restart, Goto, Holds
      <4>2. CASE Stays(w)
        BY <2>5, <4>2, StaysShape DEF Id
      <4>3. CASE Leaves(w)
        BY <4>3, LeavesShape DEF Holds
      <4>. QED BY <1>3, <4>1, <4>2, <4>3, WorkerSteps
    <3>. QED BY <2>2, <2>3, <3>2, <3>3
  <2>6. CASE pc[w] \notin {"idle", "down"} /\ Id(w) = i
    <3>1. Result(w) = ResultOf[i]
      BY <2>6 DEF Result
    <3>2. CASE InsertReceipt(w)
      <4>1. /\ i \notin receipts /\ pc'[w] = "look"
            /\ UNCHANGED <<artifact, documents, current>>
        BY <2>6, <3>2 DEF InsertReceipt, Goto, TypeOK
      <4>2. \A v \in Workers \ {w} : ~(Holds(v) /\ Id(v) = i)
        BY <4>1 DEF HolderInv
      <4>. QED BY <2>2, <2>3, <4>1, <4>2
    <3>3. CASE FindDuplicate(w) \/ Look(w) \/ FindDocument(w)
      <4>1. /\ UNCHANGED <<artifact, documents, current, receipts>>
            /\ pc[w] \in {"insert", "look", "record"}
            /\ pc[w] = "insert" => pc'[w] = "skip"
            /\ pc[w] = "look" => pc'[w] = "put"
            /\ pc[w] = "record" => pc'[w] = "commit" /\ stamp'[w] = stamp[w]
        BY <3>3 DEF FindDuplicate, Look, FindDocument, Goto, TypeOK, dbVars
      <4>2. Holds(w)' => Holds(w)
        BY <4>1 DEF Holds
      <4>3. Holds(w)' => /\ pc'[w] # "cleanup"
                         /\ pc'[w] \in {"look", "put"} => artifact[ResultOf[i]] = 0
                         /\ pc'[w] \in {"record", "commit"} => artifact[ResultOf[i]] = stamp'[w]
        BY <2>2, <2>6, <4>1, <4>2
      <4>. QED BY <2>2, <2>3, <4>1, <4>3
    <3>4. CASE Put(w)
      <4>1. /\ pc[w] = "put" /\ pc'[w] = "record"
            /\ artifact'[ResultOf[i]] = stamp[w]
            /\ UNCHANGED <<documents, receipts, current, stamp>>
        BY <2>4, <3>1, <3>4 DEF Put, Store, Goto, TypeOK
      <4>2. Holds(w) /\ artifact[ResultOf[i]] = 0
        BY <2>2, <2>6, <4>1 DEF Holds
      <4>3. \A d \in documents : d.key # ResultOf[i]
        BY <4>2 DEF StoredInv, DocumentsAreStored
      <4>4. i \in receipts
        BY <2>6, <4>2 DEF HolderInv
      <4>5. \A v \in Workers \ {w} : ~(Holds(v) /\ Id(v) = i)
        BY <2>6, <4>2 DEF OneWorkerPerJob
      <4>. QED BY <2>2, <2>3, <4>1, <4>3, <4>4, <4>5
    <3>5. CASE PutRefused(w)
      BY <2>2, <2>6, <3>1, <3>5 DEF PutRefused, Refused, Holds
    <3>6. CASE Commit(w)
      <4>1. /\ pc[w] = "commit" /\ pc'[w] = "delete" /\ Record(w)
            /\ UNCHANGED <<artifact, receipts>>
        BY <3>6 DEF Commit, Goto, TypeOK
      <4>2. artifact[ResultOf[i]] = stamp[w]
        BY <2>2, <2>6, <4>1 DEF Holds
      <4>3. documents' \subseteq documents \union {[key |-> Result(w), hash |-> stamp[w]]}
        BY <4>1, RecordShape
      <4>4. ASSUME NEW d \in documents', d.key = ResultOf[i]
            PROVE  d.hash = artifact'[d.key]
        <5>1. CASE d \in documents
          BY <2>2, <4>1, <4>4, <5>1
        <5>2. CASE d = [key |-> Result(w), hash |-> stamp[w]]
          BY <3>1, <4>1, <4>2, <5>2
        <5>. QED BY <4>3, <5>1, <5>2
      <4>. QED BY <2>2, <2>3, <4>1, <4>4
    <3>7. CASE Fails(w)
      <4>1. failures'[i] = failures[i] + 1 /\ failures[i] \in Nat
        BY <2>6, <3>7 DEF Fails, TypeOK
      <4>. QED BY <2>1, <4>1
    <3>8. CASE Take(w) \/ Restart(w)
      BY <2>6, <3>8 DEF Take, Idle, Restart
    <3>9. CASE Leaves(w)
      <4>1. UNCHANGED <<artifact, documents>> /\ ~Holds(w)'
        BY <3>9, LeavesShape DEF Holds
      <4>2. pc[w] # "cleanup"
        BY <2>2, <2>6 DEF Holds
      <4>3. receipts' = receipts
        BY <2>1, <2>6, <3>9, <4>2, CleanEnd
      <4>. QED BY <2>2, <2>3, <4>1, <4>3
    <3>. QED BY <1>3, <3>2, <3>3, <3>4, <3>5, <3>6, <3>7, <3>8, <3>9, WorkerSteps DEF Stays
  <2>. QED BY <2>5, <2>6
<1>4. \A i : Sole(i)' <=> Sole(i)
  BY DEF Sole
<1>5. ASSUME NEW w \in Workers, WorkerStep(w)
      PROVE  HashInv'
  BY <1>3, <1>4, <1>5 DEF HashInv
<1>. QED BY <1>1, <1>2, <1>5, NextSteps

-----------------------------------------------------------------------------
(* A message in one hand. *)

\* A worker deletes the message in hand, as a duplicate or when it is done.
LEMMA PlaceEffect ==
    ASSUME TypeOK, HolderInv, NEW w \in Workers, WorkerStep(w), NEW m \in Messages
    PROVE  \/ place'[m] = place[m]
           \/ pc[w] \in {"skip", "delete"} /\ m = current[w].message /\ place'[m] = "deleted"
<1>1. \/ place' = place
      \/ pc[w] \in {"skip", "delete"} /\ Deleted(current[w])
  <2>1. CASE Take(w) \/ Restart(w)
    BY <2>1 DEF Take, Restart, queueVars
  <2>2. CASE Stays(w)
    BY <2>2 DEF Stays, InsertReceipt, FindDuplicate, Look, Put, PutRefused, FindDocument, Commit,
                Fails, queueVars
  <2>3. CASE Leaves(w)
    BY <2>3 DEF Leaves, Ends, SkipDuplicate, DeleteMessage, Cleanup, Crash, InsertFails,
                SkipFails, CleanupFails, queueVars
  <2>. QED BY <2>1, <2>2, <2>3, WorkerSteps
<1>2. CASE place' = place
  BY <1>2
<1>3. CASE pc[w] \in {"skip", "delete"} /\ Deleted(current[w])
  <2>1. current[w] \in Received
    BY <1>3, InHand
  <2>. QED BY <1>3, <2>1, DeletedType
<1>. QED BY <1>1, <1>2, <1>3

\* A worker adds nothing to what it has received.
LEMMA HandsKept ==
    ASSUME TypeOK, HolderInv, HandInv, NEW w \in Workers, WorkerStep(w), NEW v \in Workers
    PROVE  /\ Hand(v)' \subseteq Hand(v)
           /\ (\A b \in Hand(v) : current[v] \notin batch[v]) /\ Hand(v)' # {} =>
                 current'[v] \notin batch'[v]
           /\ v = w /\ Leaves(w) => Hand(v)' \subseteq batch[v]
<1>1. CASE v # w
  BY <1>1, OthersKept DEF Hand, TypeOK, Leaves
<1>2. CASE v = w /\ Take(w)
  <2>1. PICK b \in batch[w] :
            /\ current'[w] = b /\ batch'[w] = batch[w] \ {b} /\ b \in Received /\ pc[w] = "idle"
            /\ pc' = [pc EXCEPT ![w] = "insert"]
    BY <1>2, TakeShape
  <2>2. current[w] = None
    BY <2>1 DEF HolderInv
  <2>3. ~Leaves(w)
    BY <2>1, LeavesShape DEF TypeOK
  <2>. QED BY <1>2, <2>1, <2>2, <2>3 DEF Hand
<1>3. CASE v = w /\ (Restart(w) \/ Stays(w))
  <2>1. UNCHANGED <<batch, current>>
    BY <1>3, StaysShape DEF Restart
  <2>2. ~Leaves(w)
    BY <1>3, StaysShape, LeavesShape DEF Restart, Goto, TypeOK
  <2>. QED BY <1>3, <2>1, <2>2, Zenon DEF Hand
<1>4. CASE v = w /\ Leaves(w)
  <2>1. current'[w] = None /\ batch'[w] \subseteq batch[w]
    BY <1>4, LeavesShape DEF TypeOK
  <2>2. None \notin batch[w]
    BY ShapeAssumption DEF TypeOK, Received
  <2>. QED BY <1>4, <2>1, <2>2 DEF Hand
<1>. QED BY <1>1, <1>2, <1>3, <1>4, WorkerSteps

LEMMA HandType ==
    ASSUME TypeOK, NEW w \in Workers, NEW b \in Hand(w)
    PROVE  /\ b \in Received /\ b.message \in Messages
           /\ IdOf[b.message] \in Ids /\ Held(b.message)
<1>1. b \in Received
  BY DEF TypeOK, Hand
<1>2. Held(b.message)
  BY DEF Held, Pending, Hand
<1>. QED BY <1>1, <1>2, ShapeAssumption DEF Received

LEMMA HandStep ==
    ASSUME TypeOK, HolderInv, StoredInv, SeenInv, HandInv, [Next]_vars
    PROVE  HandInv'
<1>1. CASE UNCHANGED vars
  BY <1>1, Unchanged DEF HandInv, Hand, Issued
<1>2. ASSUME NEW m \in Messages, Send(m) \/ VisibilityTimeout(m) \/ Redrive(m)
      PROVE  HandInv'
  <2>1. /\ UNCHANGED <<batch, current, certificates, documents>>
        /\ interrupted \subseteq interrupted'
        /\ place[m] # "deleted" /\ \A n \in Messages \ {m} : place'[n] = place[n]
    BY <1>2 DEF Send, VisibilityTimeout, Redrive, localVars, dbVars, historyVars, TypeOK
  <2>2. ASSUME NEW w \in Workers, NEW b \in Hand(w), IdOf[b.message] \notin interrupted'
        PROVE  b.message # m
    <3>1. IdOf[b.message] \notin interrupted /\ Held(b.message)
      BY <2>1, <2>2, HandType
    <3>2. place[b.message] \in {"inflight", "deleted"}
      BY <2>2, <3>1 DEF HandInv
    <3>. QED BY <1>2, <2>2, <3>1, <3>2 DEF Send, VisibilityTimeout, Redrive
  <2>3. \A w \in Workers : Hand(w)' = Hand(w)
    BY <2>1 DEF Hand
  <2>4. \A i : Issued(i)' <=> Issued(i)
    BY <2>1 DEF Issued
  <2>5. ASSUME NEW w \in Workers, NEW b \in Hand(w), IdOf[b.message] \notin interrupted'
        PROVE  /\ \/ place'[b.message] = "inflight"
                  \/ place'[b.message] = "deleted" /\ Issued(IdOf[b.message])
               /\ \A v \in Workers : \A c \in Hand(v) : c.message = b.message => v = w /\ c = b
               /\ current[w] \notin batch[w]
    <3>1. b.message \in Messages \ {m}
      BY <2>2, <2>5, HandType
    <3>. QED BY <2>1, <2>5, <3>1 DEF HandInv
  <2>. QED BY <2>1, <2>3, <2>4, <2>5 DEF HandInv
<1>3. ASSUME NEW w \in Workers, Receive(w)
      PROVE  HandInv'
  <2>1. PICK taken \in SUBSET Receivable :
          /\ place' = [m \in Messages |-> IF m \in taken THEN "inflight" ELSE place[m]]
          /\ batch' = [batch EXCEPT ![w] =
                          {[message |-> m, handle |-> receives[m] + 1] : m \in taken}]
    BY <1>3 DEF Receive
  <2>2. /\ UNCHANGED <<current, certificates, documents, interrupted>>
        /\ batch[w] = {} /\ pc[w] = "idle"
    BY <1>3 DEF Receive, Idle, dbVars, historyVars
  <2>3. /\ taken \subseteq Messages
        /\ \A m \in taken : place[m] = "visible"
        /\ current[w] = None
    BY <2>2 DEF Receivable, HolderInv
  <2>4. Hand(w)' = {[message |-> m, handle |-> receives[m] + 1] : m \in taken}
    BY <2>1, <2>2, <2>3 DEF Hand, TypeOK
  <2>5. \A v \in Workers \ {w} : Hand(v)' = Hand(v) /\ batch'[v] = batch[v]
    BY <2>1, <2>2 DEF Hand, TypeOK
  <2>6. \A i : Issued(i)' <=> Issued(i)
    BY <2>2 DEF Issued
  <2>7. ASSUME NEW v \in Workers, NEW b \in Hand(v), IdOf[b.message] \notin interrupted
        PROVE  /\ b.message \in Messages \ taken
               /\ place'[b.message] = place[b.message]
    <3>1. b.message \in Messages /\ place[b.message] # "visible"
      BY <2>7, HandType DEF HandInv
    <3>. QED BY <2>1, <2>3, <3>1
  <2>8. ASSUME NEW v \in Workers \ {w}, NEW b \in Hand(v), IdOf[b.message] \notin interrupted
        PROVE  /\ \/ place'[b.message] = "inflight"
                  \/ place'[b.message] = "deleted" /\ Issued(IdOf[b.message])
               /\ \A u \in Workers : \A c \in Hand(u)' : c.message = b.message => u = v /\ c = b
               /\ current'[v] \notin batch'[v]
    BY <2>2, <2>4, <2>5, <2>7, <2>8 DEF HandInv
  <2>9. ASSUME NEW b \in Hand(w)', IdOf[b.message] \notin interrupted
        PROVE  /\ place'[b.message] = "inflight"
               /\ \A u \in Workers : \A c \in Hand(u)' : c.message = b.message => u = w /\ c = b
               /\ current'[w] \notin batch'[w]
    <3>1. b.message \in taken
      BY <2>4, <2>9
    <3>2. \A u \in Workers \ {w} : \A c \in Hand(u)' : c.message # b.message
      BY <2>5, <2>7, <2>9, <3>1
    <3>3. \A c \in Hand(w)' : c.message = b.message => c = b
      BY <2>4, <2>9
    <3>4. None \notin batch'[w]
      BY <2>1, <2>3, ShapeAssumption DEF TypeOK, Receivable
    <3>. QED BY <2>1, <2>2, <2>3, <3>1, <3>2, <3>3, <3>4
  <2>10. ASSUME NEW v \in Workers, NEW b \in Hand(v)', IdOf[b.message] \notin interrupted'
         PROVE  /\ \/ place'[b.message] = "inflight"
                   \/ place'[b.message] = "deleted" /\ Issued(IdOf[b.message])'
                /\ \A u \in Workers : \A c \in Hand(u)' : c.message = b.message => u = v /\ c = b
                /\ current'[v] \notin batch'[v]
    <3>1. CASE v = w
      BY <2>2, <2>9, <2>10, <3>1
    <3>2. CASE v # w
      <4>1. v \in Workers \ {w} /\ b \in Hand(v) /\ IdOf[b.message] \notin interrupted
        BY <2>2, <2>5, <2>10, <3>2
      <4>. QED BY <2>6, <2>8, <4>1
    <3>. QED BY <3>1, <3>2
  <2>. QED BY <2>10 DEF HandInv
<1>4. ASSUME NEW w \in Workers, WorkerStep(w)
      PROVE  HandInv'
  <2>1. interrupted \subseteq interrupted' /\ \A i \in Ids : Issued(i) => Issued(i)'
    BY TroubleKept, Grows
  <2>2. \A v \in Workers : Hand(v)' \subseteq Hand(v)
    BY <1>4, HandsKept
  <2>3. ASSUME NEW v \in Workers, NEW b \in Hand(v)', IdOf[b.message] \notin interrupted'
        PROVE  /\ \/ place'[b.message] = "inflight"
                  \/ place'[b.message] = "deleted" /\ Issued(IdOf[b.message])'
               /\ \A u \in Workers : \A c \in Hand(u)' : c.message = b.message => u = v /\ c = b
               /\ current'[v] \notin batch'[v]
    <3>1. b \in Hand(v) /\ IdOf[b.message] \notin interrupted
      BY <2>1, <2>2, <2>3
    <3>2. /\ b.message \in Messages /\ IdOf[b.message] \in Ids
      BY <3>1, HandType
    <3>3. /\ \/ place[b.message] = "inflight"
             \/ place[b.message] = "deleted" /\ Issued(IdOf[b.message])
          /\ \A u \in Workers : \A c \in Hand(u) : c.message = b.message => u = v /\ c = b
          /\ \A c \in Hand(v) : current[v] \notin batch[v]
      BY <3>1 DEF HandInv
    <3>4. current'[v] \notin batch'[v]
      BY <1>4, <2>3, <3>3, HandsKept
    <3>5. CASE place'[b.message] = place[b.message]
      BY <2>1, <2>2, <3>2, <3>3, <3>4, <3>5
    <3>6. CASE /\ pc[w] \in {"skip", "delete"} /\ b.message = current[w].message
               /\ place'[b.message] = "deleted"
      <4>1. current[w] \in Hand(w)
        BY <3>6 DEF Hand, HolderInv
      <4>2. CASE pc[w] = "delete"
        <5>1. Issued(IdOf[b.message])
          BY <3>6, <4>2 DEF SeenInv, Id
        <5>. QED BY <2>1, <2>2, <3>2, <3>3, <3>4, <3>6, <5>1
      <4>3. CASE pc[w] = "skip"
        <5>1. w = v /\ current[w] = b
          BY <3>3, <3>6, <4>1
        <5>2. Leaves(w)
          BY <1>4, <4>3, StaysShape, WorkerSteps DEF Take, Idle, Restart
        <5>3. b \in batch[w]
          BY <1>4, <2>3, <5>1, <5>2, HandsKept
        <5>. QED BY <3>1, <3>3, <5>1, <5>3
      <4>. QED BY <3>6, <4>2, <4>3
    <3>. QED BY <1>4, <3>2, <3>5, <3>6, PlaceEffect
  <2>. QED BY <2>3 DEF HandInv
<1>. QED BY <1>1, <1>2, <1>3, <1>4, NextSteps DEF QueueStep

-----------------------------------------------------------------------------
(* Jobs are not lost. *)

LEMMA ReceiptStep ==
    ASSUME TypeOK, HolderInv, StoredInv, SeenInv, ReceiptInv, [Next]_vars
    PROVE  ReceiptInv'
<1>1. CASE UNCHANGED vars
  BY <1>1, Unchanged DEF ReceiptInv, Issued, Holds, Id
<1>2. CASE QueueStep
  <2>1. \A i : Issued(i)' <=> Issued(i)
    BY <1>2, QueueKeeps DEF Issued
  <2>. QED BY <1>2, <2>1, QueueKeeps, QueueKeepsAttempts DEF ReceiptInv
<1>3. ASSUME NEW w \in Workers, WorkerStep(w), NEW i \in receipts' \ interrupted'
      PROVE  Issued(i)' \/ \E v \in Workers : Holds(v)' /\ Id(v)' = i
  <2>1. /\ i \notin interrupted /\ i \in Ids
        /\ \A j \in Ids : Issued(j) => Issued(j)'
    BY <1>3, TroubleKept, Grows, ReceiptsKept, InHand DEF TypeOK
  <2>2. CASE i \in receipts
    <3>1. CASE Issued(i)
      BY <2>1, <3>1
    <3>2. ASSUME NEW v \in Workers, Holds(v), Id(v) = i
          PROVE  Issued(i)' \/ \E u \in Workers : Holds(u)' /\ Id(u)' = i
      <4>1. CASE v # w
        BY <1>3, <3>2, <4>1, OthersKept
      <4>2. CASE v = w /\ Stays(w)
        <5>1. Holds(w)' /\ Id(w)' = i
          BY <3>2, <4>2, StaysShape DEF Holds, Id
        <5>. QED BY <5>1
      <4>3. CASE v = w /\ Leaves(w)
        <5>1. pc[w] # "cleanup"
          BY <1>3, <3>2, <4>3, CleanEnd DEF Holds
        <5>2. DeleteMessage(w)
          BY <1>3, <3>2, <4>3, <5>1, CleanEnd DEF Holds
        <5>3. Issued(i)
          BY <3>2, <4>3, <5>2 DEF DeleteMessage, SeenInv
        <5>. QED BY <2>1, <5>3
      <4>4. ~(v = w /\ (Take(w) \/ Restart(w)))
        BY <3>2 DEF Take, Idle, Restart, Holds
      <4>. QED BY <1>3, <4>1, <4>2, <4>3, <4>4, WorkerSteps
    <3>. QED BY <1>3, <2>1, <2>2, <3>1, <3>2 DEF ReceiptInv
  <2>3. CASE i \notin receipts
    <3>1. /\ pc[w] \in {"insert", "cleanup"}
          /\ receipts' \in {receipts \union {Id(w)}, receipts \ {Id(w)}}
      BY <1>3, <2>3, ReceiptsKept
    <3>2. i = Id(w) /\ receipts' # receipts
      BY <1>3, <2>3, <3>1
    <3>3. ~Leaves(w)
      BY <1>3, <2>3, <3>1, <3>2, CleanEnd
    <3>4. Stays(w) /\ pc[w] = "insert"
      BY <1>3, <3>1, <3>3, StaysShape, WorkerSteps DEF Take, Idle, Restart
    <3>5. InsertReceipt(w)
      BY <3>2, <3>4 DEF Stays, FindDuplicate, Look, Put, PutRefused, FindDocument, Commit, Fails,
                        dbVars
    <3>6. Holds(w)' /\ Id(w)' = i
      BY <3>2, <3>5 DEF InsertReceipt, Goto, TypeOK, Holds, Id
    <3>. QED BY <3>6
  <2>. QED BY <2>2, <2>3
<1>4. ASSUME NEW w \in Workers, WorkerStep(w)
      PROVE  ReceiptInv'
  BY <1>3, <1>4 DEF ReceiptInv
<1>. QED BY <1>1, <1>2, <1>4, NextSteps

\* A worker that finds the receipt of an unfinished job leaves its message in
\* the hands of the one that inserted it.
LEMMA DuplicateHasSpare ==
    ASSUME TypeOK, HolderInv, HandInv, ReceiptInv, NEW w \in Workers, FindDuplicate(w),
           Id(w) \notin interrupted
    PROVE  Issued(Id(w)) \/ \E q \in Messages : IdOf[q] = Id(w) /\ Spare(q)'
<1>1. /\ pc[w] = "insert" /\ Id(w) \in receipts
      /\ pc' = [pc EXCEPT ![w] = "skip"] /\ UNCHANGED <<place, current>>
  BY DEF FindDuplicate, Goto, queueVars
<1>2. ASSUME NEW v \in Workers, Holds(v), Id(v) = Id(w), ~Issued(Id(w))
      PROVE  IdOf[current[v].message] = Id(w) /\ Spare(current[v].message)'
  <2>1. v # w /\ pc[v] # "skip"
    BY <1>1, <1>2 DEF Holds
  <2>2. \A u \in Workers : pc[u] \notin {"idle", "down"} => current[u] \in Hand(u)
    BY DEF Hand, HolderInv
  <2>3. current[v] \in Hand(v) /\ IdOf[current[v].message] = Id(w)
    BY <1>2, <2>2 DEF Holds, Id
  <2>4. /\ place[current[v].message] = "inflight"
        /\ \A u \in Workers : \A c \in Hand(u) : c.message = current[v].message => u = v
    BY <1>2, <2>3 DEF HandInv
  <2>5. ASSUME NEW u \in Workers, pc'[u] = "skip", current[u].message = current[v].message
        PROVE  FALSE
    <3>1. pc[u] \notin {"idle", "down"}
      BY <1>1, <2>5 DEF TypeOK
    <3>2. u = v
      BY <2>2, <2>4, <2>5, <3>1
    <3>. QED BY <1>1, <2>1, <2>5, <3>2 DEF TypeOK
  <2>. QED BY <1>1, <2>3, <2>4, <2>5 DEF Spare
<1>3. \A v \in Workers : Holds(v) => current[v].message \in Messages
  BY InHand DEF Holds
<1>. QED BY <1>1, <1>2, <1>3 DEF ReceiptInv

LEMMA LiveStep ==
    ASSUME TypeOK, HolderInv, StoredInv, SeenInv, HandInv, ReceiptInv, LiveInv, [Next]_vars
    PROVE  LiveInv'
<1>1. CASE UNCHANGED vars
  BY <1>1, Unchanged DEF LiveInv, Issued, Spare, Id
<1>2. CASE QueueStep
  <2>1. \A i : Issued(i)' <=> Issued(i)
    BY <1>2, QueueKeeps DEF Issued
  <2>2. ASSUME NEW m \in Messages
        PROVE  /\ place[m] \in {"visible", "inflight", "dead"} =>
                     place'[m] \in {"visible", "inflight", "dead"}
               /\ place[m] # "deleted" => place'[m] # "deleted"
    <3>1. CASE \E n \in Messages : Send(n) \/ VisibilityTimeout(n) \/ Redrive(n)
      BY <3>1 DEF Send, VisibilityTimeout, Redrive, TypeOK
    <3>2. CASE \E w \in Workers : Receive(w)
      BY <3>2 DEF Receive, TypeOK
    <3>. QED BY <1>2, <3>1, <3>2 DEF QueueStep
  <2>3. UNCHANGED <<pc, current>> /\ interrupted \subseteq interrupted'
    BY <1>2, QueueKeeps
  <2>4. \A q \in Messages : Spare(q) => Spare(q)'
    BY <2>2, <2>3 DEF Spare
  <2>5. \A w : Id(w)' = Id(w)
    BY <2>3 DEF Id
  <2>. QED BY <2>1, <2>2, <2>3, <2>4, <2>5 DEF LiveInv
<1>3. ASSUME NEW w \in Workers, WorkerStep(w), NEW i \in Ids \ interrupted', ~Issued(i)'
      PROVE  \/ \E q \in Messages : IdOf[q] = i /\ Spare(q)'
             \/ /\ \A m \in Messages : IdOf[m] = i => place'[m] # "deleted"
                /\ \A v \in Workers : pc'[v] = "skip" => Id(v)' # i
  <2>1. i \notin interrupted /\ ~Issued(i)
    BY <1>3, TroubleKept, Grows
  <2>2. \A v \in Workers \ {w} : pc'[v] = pc[v] /\ current'[v] = current[v] /\ Id(v)' = Id(v)
    BY <1>3, OthersKept
  <2>3. pc[w] = "delete" => Id(w) # i
    BY <2>1 DEF SeenInv
  <2>4. CASE FindDuplicate(w) /\ Id(w) = i
    BY <2>1, <2>4, DuplicateHasSpare
  <2>5. CASE ~(FindDuplicate(w) /\ Id(w) = i)
    <3>1. pc'[w] = "skip" => Id(w)' # i
      <4>1. CASE FindDuplicate(w)
        BY <2>5, <4>1 DEF FindDuplicate, Id
      <4>2. CASE Take(w) \/ Restart(w) \/ InsertReceipt(w) \/ Leaves(w)
        BY <4>2, LeavesShape DEF Take, Restart, InsertReceipt, Goto, TypeOK
      <4>3. CASE Look(w) \/ Put(w) \/ PutRefused(w) \/ FindDocument(w) \/ Commit(w) \/ Fails(w)
        BY <4>3 DEF Look, Put, PutRefused, FindDocument, Commit, Fails, Goto, TypeOK
      <4>. QED BY <1>3, <4>1, <4>2, <4>3, WorkerSteps DEF Stays
    <3>2. ASSUME NEW q \in Messages, IdOf[q] = i, Spare(q)
          PROVE  Spare(q)'
      <4>1. ~(pc[w] \in {"skip", "delete"} /\ q = current[w].message)
        BY <2>3, <3>2 DEF Spare, Id
      <4>2. place'[q] = place[q]
        BY <1>3, <4>1, PlaceEffect
      <4>3. pc'[w] = "skip" => current'[w].message # q
        BY <3>1, <3>2 DEF Id
      <4>. QED BY <2>2, <3>2, <4>2, <4>3 DEF Spare
    <3>3. ASSUME \A m \in Messages : IdOf[m] = i => place[m] # "deleted",
                 \A v \in Workers : pc[v] = "skip" => Id(v) # i
          PROVE  /\ \A m \in Messages : IdOf[m] = i => place'[m] # "deleted"
                 /\ \A v \in Workers : pc'[v] = "skip" => Id(v)' # i
      <4>1. ASSUME NEW m \in Messages, IdOf[m] = i
            PROVE  place'[m] # "deleted"
        <5>1. ~(pc[w] \in {"skip", "delete"} /\ m = current[w].message)
          BY <2>3, <3>3, <4>1 DEF Id
        <5>2. place'[m] = place[m]
          BY <1>3, <5>1, PlaceEffect
        <5>. QED BY <3>3, <4>1, <5>2
      <4>. QED BY <2>2, <3>1, <3>3, <4>1
    <3>. QED BY <1>3, <2>1, <3>2, <3>3 DEF LiveInv
  <2>. QED BY <2>4, <2>5
<1>4. ASSUME NEW w \in Workers, WorkerStep(w)
      PROVE  LiveInv'
  BY <1>3, <1>4 DEF LiveInv
<1>. QED BY <1>1, <1>2, <1>4, NextSteps

-----------------------------------------------------------------------------
(* The theorems. *)

\* The inductive invariant: how the queue, the receipts, the certificates, the
\* documents and the artifacts agree with what the workers have in hand
\* (certificate-worker.ts), whatever the queue delivers and whoever crashes.
THEOREM Invariance == Spec => []IInv
<1>1. Init => IInv
  <2>1. ASSUME Init
        PROVE  TypeOK
    BY <2>1, BoundsAssumption DEF Init, TypeOK, Places, Steps
  <2>2. ASSUME Init
        PROVE  HolderInv /\ OneWorkerPerJob /\ StoredInv /\ SeenInv
    BY <2>2 DEF Init, HolderInv, OneWorkerPerJob, StoredInv, DocumentsAreStored, SeenInv, Holds
  <2>3. ASSUME Init
        PROVE  RaceInv /\ HashInv /\ HandInv /\ ReceiptInv
    BY <2>3, ShapeAssumption
       DEF Init, RaceInv, Unrecorded, HashInv, Holds, HandInv, Hand, ReceiptInv
  <2>4. ASSUME Init
        PROVE  LiveInv
    BY <2>4 DEF Init, LiveInv
  <2>. QED BY <2>1, <2>2, <2>3, <2>4 DEF IInv
<1>2. IInv /\ [Next]_vars => IInv'
  BY TypeStep, HolderStep, StoredStep, SeenStep, RaceStep, HashStep, HandStep, ReceiptStep,
     LiveStep DEF IInv
<1>. QED BY <1>1, <1>2, PTL DEF Spec

\* Every value has its type.
THEOREM TypeCorrect == Spec => []TypeOK
<1>1. IInv => TypeOK
  BY DEF IInv
<1>. QED BY <1>1, Invariance, PTL

\* The unique receipt of certificate-worker.ts is a lock: no two workers are in
\* the processing of one job, however often the queue delivers it.
THEOREM ReceiptsExclude == Spec => []OneWorkerPerJob
<1>1. IInv => OneWorkerPerJob
  BY DEF IInv
<1>. QED BY <1>1, Invariance, PTL

\* The worker stores the artifact before it records it: the key of every Document
\* row names an object that is there.
THEOREM RecordedAreStored == Spec => []DocumentsAreStored
<1>1. IInv => DocumentsAreStored
  BY DEF IInv, StoredInv
<1>. QED BY <1>1, Invariance, PTL

\* The lookup of an ACTIVE certificate, outside the transaction that creates one,
\* lets an award have two only by a race.
THEOREM DoubleAwardsAreRaces == Spec => []CertificatesAccounted
<1>1. IInv => CertificatesAccounted
  BY DEF IInv, RaceInv, CertificatesAccounted
<1>. QED BY <1>1, Invariance, PTL

\* The hash on record is of the artifact in the store, unless a second attempt or
\* a second job of the result has replaced one of them.
THEOREM HashDriftIsExplained == Spec => []HashesExplained
<1>1. IInv => HashesExplained
  <2>1. ASSUME IInv, NEW d \in documents, NEW i \in Ids, ResultOf[i] = d.key,
               ~(\E j \in Ids : ResultOf[j] = d.key /\
                    (j \in interrupted \/ failures[j] > 0 \/ \E k \in Ids \ {j} : ResultOf[k] = d.key))
        PROVE  artifact[d.key] = d.hash
    <3>1. Sole(i)
      BY <2>1 DEF Sole
    <3>2. Smooth(i)
      BY <2>1 DEF Smooth, IInv, TypeOK
    <3>. QED BY <2>1, <3>1, <3>2 DEF IInv, HashInv
  <2>2. ASSUME IInv, NEW d \in documents
        PROVE  \E i \in Ids : ResultOf[i] = d.key
    BY <2>2 DEF IInv, StoredInv
  <2>. QED BY <2>1, <2>2 DEF HashesExplained
<1>. QED BY <1>1, Invariance, PTL

\* The worker deletes a message only when its job is done, or as the duplicate of
\* another delivery: a job that was not interrupted is done or has a message left.
THEOREM LossesAreInterruptions == Spec => []LossesExplained
<1>1. IInv => LossesExplained
  <2>1. ASSUME IInv, NEW m \in Messages, place[m] = "deleted", IdOf[m] \notin interrupted
        PROVE  \/ Issued(IdOf[m])
               \/ \E n \in Messages : IdOf[n] = IdOf[m] /\ place[n] \in {"visible", "inflight", "dead"}
    <3>1. IdOf[m] \in Ids \ interrupted
      BY <2>1, ShapeAssumption
    <3>. QED BY <2>1, <3>1 DEF IInv, LiveInv, Spare
  <2>. QED BY <2>1 DEF LossesExplained
<1>. QED BY <1>1, Invariance, PTL
=============================================================================
