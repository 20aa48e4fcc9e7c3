------------------------- MODULE CertificateWorker -------------------------
(***************************************************************************)
(* The certificate queue and its workers: an SQS queue with a visibility   *)
(* timeout, a receive limit and a dead-letter queue, and the loop of       *)
(* certificate-worker.ts, which takes a batch, and for each message        *)
(* inserts a receipt, stores an artifact, records it and the certificate   *)
(* in one transaction and deletes the message.                             *)
(***************************************************************************)
EXTENDS Naturals, FiniteSets

CONSTANTS
    Messages,       \* SQS messages
    Ids,            \* their messageId, the eventId of the stream event
    Results,        \* assessment results; a result names the storage key
    Awards,         \* candidate, course and curriculum version
    IdOf,           \* [Messages -> Ids]: a send may be repeated
    ResultOf,       \* [Ids -> Results]: a passed result may be updated again
    AwardOf,        \* [Results -> Awards]: a course may have two assessments
    Workers,        \* certificate-worker processes
    None,           \* no message in hand
    WriteOnce,      \* putObject refuses a key that exists (local filesystem)
    MaxReceives,    \* maxReceiveCount of the queue
    BatchSize,      \* messages taken by one receive
    MaxFailures,    \* bound: failing attempts at one id
    MaxCrashes,     \* bound: crashes, in all
    MaxTimeouts     \* bound: visibility timeouts while the message is held

ASSUME ShapeAssumption ==
    /\ IdOf \in [Messages -> Ids]
    /\ ResultOf \in [Ids -> Results]
    /\ AwardOf \in [Results -> Awards]
    /\ None \notin [message : Messages, handle : Nat]
ASSUME BoundsAssumption ==
    /\ {MaxFailures, MaxCrashes, MaxTimeouts} \subseteq Nat
    /\ {MaxReceives, BatchSize} \subseteq Nat \ {0}
    /\ WriteOnce \in BOOLEAN

VARIABLES
    \* the queue
    place,          \* where each message is
    receives,       \* how often it was received; also names its receipt handle
    \* each worker
    pc,             \* where it is in the loop
    batch,          \* received messages still to be handled, with their handles
    current,        \* the one in hand
    found,          \* findFirst saw an ACTIVE certificate
    stamp,          \* generatedAt of the payload in hand
    recorded,       \* the transaction's findFirst saw the document
    \* the database and the object store
    receipts,       \* ids with a ProcessedEvent row of this worker
    certificates,   \* how many ACTIVE certificates an award has
    documents,      \* Document rows: storage key, and the payload they hash
    artifact,       \* the payload stored under a result's key, 0 for none
    \* history, read by properties and bounds only
    clock,          \* payloads made so far
    failures,       \* failing attempts at an id
    interrupted,    \* ids whose attempt was cut off, or shared by two workers
    raced,          \* awards two attempts looked up before either recorded one
    crashes, timeouts

queueVars   == <<place, receives>>
localVars   == <<pc, batch, current, found, stamp, recorded>>
dbVars      == <<receipts, certificates, documents, artifact>>
historyVars == <<clock, failures, interrupted, raced, crashes, timeouts>>
vars        == <<queueVars, localVars, dbVars, historyVars>>

Places == {"unsent", "visible", "inflight", "deleted", "dead"}
Steps  == {"idle", "insert", "skip", "look", "put", "record", "commit",
           "delete", "cleanup", "down"}
Received == [message : Messages, handle : Nat]

TypeOK ==
    /\ place \in [Messages -> Places]
    /\ receives \in [Messages -> 0 .. MaxReceives]
    /\ pc \in [Workers -> Steps]
    /\ batch \in [Workers -> SUBSET Received]
    /\ current \in [Workers -> Received \union {None}]
    /\ found \in [Workers -> BOOLEAN]
    /\ stamp \in [Workers -> 0 .. clock]
    /\ recorded \in [Workers -> BOOLEAN]
    /\ receipts \subseteq Ids
    /\ certificates \in [Awards -> Nat]
    /\ documents \subseteq [key : Results, hash : 1 .. clock]
    /\ artifact \in [Results -> 0 .. clock]
    /\ clock \in Nat
    /\ failures \in [Ids -> Nat]
    /\ interrupted \subseteq Ids
    /\ raced \subseteq Awards
    /\ crashes \in Nat
    /\ timeouts \in Nat

Init ==
    /\ place = [m \in Messages |-> "unsent"]
    /\ receives = [m \in Messages |-> 0]
    /\ pc = [w \in Workers |-> "idle"]
    /\ batch = [w \in Workers |-> {}]
    /\ current = [w \in Workers |-> None]
    /\ found = [w \in Workers |-> FALSE]
    /\ stamp = [w \in Workers |-> 0]
    /\ recorded = [w \in Workers |-> FALSE]
    /\ receipts = {}
    /\ certificates = [a \in Awards |-> 0]
    /\ documents = {}
    /\ artifact = [r \in Results |-> 0]
    /\ clock = 0
    /\ failures = [i \in Ids |-> 0]
    /\ interrupted = {}
    /\ raced = {}
    /\ crashes = 0
    /\ timeouts = 0

Id(w)     == IdOf[current[w].message]
Result(w) == ResultOf[Id(w)]
Award(w)  == AwardOf[Result(w)]

Idle(w)  == pc[w] = "idle"
Holds(w) == pc[w] \in {"look", "put", "record", "commit", "delete", "cleanup"}

Goto(w, step) == pc' = [pc EXCEPT ![w] = step]

-----------------------------------------------------------------------------
(* The queue. *)

\* The certificate-consumer sends the job of a passed result.
Send(m) ==
    /\ place[m] = "unsent"
    /\ place' = [place EXCEPT ![m] = "visible"]
    /\ UNCHANGED <<receives, localVars, dbVars, historyVars>>

\* Messages w has received and not finished with.
Pending(w) == {b.message : b \in batch[w] \union ({current[w]} \ {None})}
Held(m) == \E w \in Workers : m \in Pending(w)

\* The visibility timeout passes.  A worker still busy with the message, or
\* with others of its batch, is not told.
VisibilityTimeout(m) ==
    /\ place[m] = "inflight"
    /\ Held(m) => timeouts < MaxTimeouts
    /\ place' = [place EXCEPT ![m] = "visible"]
    /\ timeouts' = IF Held(m) THEN timeouts + 1 ELSE timeouts
    /\ interrupted' = IF Held(m) THEN interrupted \union {IdOf[m]} ELSE interrupted
    /\ UNCHANGED <<receives, localVars, dbVars, clock, failures, raced, crashes>>

\* The receive limit sends the message to the dead-letter queue instead.
Redrive(m) ==
    /\ place[m] = "visible"
    /\ receives[m] = MaxReceives
    /\ place' = [place EXCEPT ![m] = "dead"]
    /\ UNCHANGED <<receives, localVars, dbVars, historyVars>>

Receivable == {m \in Messages : place[m] = "visible" /\ receives[m] < MaxReceives}

\* queue.receive: up to a batch of visible messages, in an order the queue chooses.
Receive(w) ==
    /\ Idle(w) /\ batch[w] = {}
    /\ \E taken \in SUBSET Receivable :
          /\ Cardinality(taken) \in 1 .. BatchSize
          /\ place' = [m \in Messages |-> IF m \in taken THEN "inflight" ELSE place[m]]
          /\ receives' = [m \in Messages |-> receives[m] + IF m \in taken THEN 1 ELSE 0]
          /\ batch' = [batch EXCEPT ![w] =
                          {[message |-> m, handle |-> receives[m] + 1] : m \in taken}]
    /\ UNCHANGED <<pc, current, found, stamp, recorded, dbVars, historyVars>>

\* deleteMessage with the handle of the latest receive removes the message; an
\* outdated handle is accepted and may or may not.
Deleted(b) ==
    LET gone == [place EXCEPT ![b.message] = "deleted"] IN
    IF place[b.message] \in {"deleted", "dead"} THEN place' = place
    ELSE IF b.handle = receives[b.message] THEN place' = gone
    ELSE place' \in {place, gone}

-----------------------------------------------------------------------------
(* One message through the loop of the worker. *)

Take(w) ==
    /\ Idle(w)
    /\ \E b \in batch[w] :
          /\ current' = [current EXCEPT ![w] = b]
          /\ batch' = [batch EXCEPT ![w] = @ \ {b}]
    /\ Goto(w, "insert")
    /\ UNCHANGED <<queueVars, found, stamp, recorded, dbVars, historyVars>>

\* On to the next message: nothing of this one is kept.
Forget(w) ==
    /\ current' = [current EXCEPT ![w] = None]
    /\ found' = [found EXCEPT ![w] = FALSE]
    /\ stamp' = [stamp EXCEPT ![w] = 0]
    /\ recorded' = [recorded EXCEPT ![w] = FALSE]

Finish(w) == Goto(w, "idle") /\ Forget(w) /\ UNCHANGED batch

\* The process ends: an error nothing catches, a signal or a crash.
Die(w) ==
    /\ crashes < MaxCrashes
    /\ crashes' = crashes + 1
    /\ Goto(w, "down")
    /\ Forget(w)
    /\ batch' = [batch EXCEPT ![w] = {}]
    /\ UNCHANGED <<receives, certificates, documents, artifact, clock, failures, raced, timeouts>>

\* Seeded bug: the receipt is upserted, so a duplicate is processed again.
InsertReceiptUpsert(w) ==
    /\ pc[w] = "insert"
    /\ receipts' = receipts \union {Id(w)}
    /\ Goto(w, "look")
    /\ UNCHANGED <<queueVars, batch, current, found, stamp, recorded,
                   certificates, documents, artifact, historyVars>>

\* processedEvent.create.
InsertReceipt(w) ==
    /\ pc[w] = "insert"
    /\ Id(w) \notin receipts
    /\ receipts' = receipts \union {Id(w)}
    /\ Goto(w, "look")
    /\ UNCHANGED <<queueVars, batch, current, found, stamp, recorded,
                   certificates, documents, artifact, historyVars>>

\* P2002: the job is done, or another worker has it.
FindDuplicate(w) ==
    /\ pc[w] = "insert"
    /\ Id(w) \in receipts
    /\ Goto(w, "skip")
    /\ UNCHANGED <<queueVars, batch, current, found, stamp, recorded, dbVars, historyVars>>

\* Any other error of the insert ends the process; the row may be there.
InsertFails(w) ==
    /\ pc[w] = "insert"
    /\ Id(w) \notin receipts
    /\ \/ receipts' = receipts \union {Id(w)} /\ interrupted' = interrupted \union {Id(w)}
       \/ UNCHANGED <<receipts, interrupted>>
    /\ Die(w)
    /\ UNCHANGED place

\* The duplicate's message is deleted.
SkipDuplicate(w) ==
    /\ pc[w] = "skip"
    /\ Deleted(current[w])
    /\ Finish(w)
    /\ UNCHANGED <<receives, dbVars, historyVars>>

\* That delete is outside the inner try: its error ends the process.
SkipFails(w) ==
    /\ pc[w] = "skip"
    /\ place' = place \/ Deleted(current[w])
    /\ Die(w)
    /\ UNCHANGED <<receipts, interrupted>>

\* Attempts that have looked up the award's certificate in vain and have not
\* recorded one yet.
Unrecorded(w) == pc[w] \in {"put", "record", "commit"} /\ ~found[w]

\* Read the result and an ACTIVE certificate of its award; make the payload.
Look(w) ==
    LET a == Award(w) IN
    /\ pc[w] = "look"
    /\ found' = [found EXCEPT ![w] = certificates[a] > 0]
    /\ clock' = clock + 1
    /\ stamp' = [stamp EXCEPT ![w] = clock + 1]
    /\ raced' = IF certificates[a] = 0 /\ \E v \in Workers : Unrecorded(v) /\ Award(v) = a
                THEN raced \union {a} ELSE raced
    /\ Goto(w, "put")
    /\ UNCHANGED <<queueVars, batch, current, recorded, dbVars,
                   failures, interrupted, crashes, timeouts>>

Refused(w) == WriteOnce /\ artifact[Result(w)] # 0

Store(w) == artifact' = [artifact EXCEPT ![Result(w)] = stamp[w]]

\* Seeded bug: an error of the object store is ignored.
PutIgnoringErrors(w) ==
    /\ pc[w] = "put"
    /\ Store(w) \/ UNCHANGED artifact
    /\ Goto(w, "record")
    /\ UNCHANGED <<queueVars, batch, current, found, stamp, recorded,
                   receipts, certificates, documents, historyVars>>

\* storage.putObject.
Put(w) ==
    /\ pc[w] = "put"
    /\ ~Refused(w)
    /\ Store(w)
    /\ Goto(w, "record")
    /\ UNCHANGED <<queueVars, batch, current, found, stamp, recorded,
                   receipts, certificates, documents, historyVars>>

\* The local filesystem refuses to write a key twice.
PutRefused(w) ==
    /\ pc[w] = "put"
    /\ Refused(w)
    /\ Goto(w, "cleanup")
    /\ UNCHANGED <<queueVars, batch, current, found, stamp, recorded, dbVars, historyVars>>

\* Inside the transaction: is there a document with this key?
FindDocument(w) ==
    /\ pc[w] = "record"
    /\ recorded' = [recorded EXCEPT ![w] = \E d \in documents : d.key = Result(w)]
    /\ Goto(w, "commit")
    /\ UNCHANGED <<queueVars, batch, current, found, stamp, dbVars, historyVars>>

\* Seeded bug: the transaction always creates a certificate.
RecordAlways(w) ==
    /\ certificates' = [certificates EXCEPT ![Award(w)] = @ + 1]
    /\ documents' = IF recorded[w] THEN documents
                    ELSE documents \union {[key |-> Result(w), hash |-> stamp[w]]}

\* The certificate, the document and the event, of those that were missing.
Record(w) ==
    /\ certificates' = [certificates EXCEPT ![Award(w)] = @ + IF found[w] THEN 0 ELSE 1]
    /\ documents' = IF recorded[w] THEN documents
                    ELSE documents \union {[key |-> Result(w), hash |-> stamp[w]]}

Commit(w) ==
    /\ pc[w] = "commit"
    /\ Record(w)
    /\ Goto(w, "delete")
    /\ UNCHANGED <<queueVars, batch, current, found, stamp, recorded,
                   receipts, artifact, historyVars>>

DeleteMessage(w) ==
    /\ pc[w] = "delete"
    /\ Deleted(current[w])
    /\ Finish(w)
    /\ UNCHANGED <<receives, dbVars, historyVars>>

\* An error inside the inner try, before or after the call took effect: of the
\* reads (or no passed result is found), the object store, the transaction or
\* the delete.
Fails(w) ==
    /\ pc[w] \in {"look", "put", "record", "commit", "delete"}
    /\ failures[Id(w)] < MaxFailures
    /\ failures' = [failures EXCEPT ![Id(w)] = @ + 1]
    /\ \/ UNCHANGED <<place, certificates, documents, artifact>>
       \/ /\ pc[w] = "put" /\ ~Refused(w) /\ Store(w)
          /\ UNCHANGED <<place, certificates, documents>>
       \/ /\ pc[w] = "commit" /\ Record(w)
          /\ UNCHANGED <<place, artifact>>
       \/ /\ pc[w] = "delete" /\ Deleted(current[w])
          /\ UNCHANGED <<certificates, documents, artifact>>
    /\ Goto(w, "cleanup")
    /\ UNCHANGED <<receives, batch, current, found, stamp, recorded, receipts,
                   clock, interrupted, raced, crashes, timeouts>>

\* Seeded bug: the error is logged and the receipt kept.
CleanupForgotten(w) ==
    /\ pc[w] = "cleanup"
    /\ Finish(w)
    /\ UNCHANGED <<queueVars, dbVars, historyVars>>

\* The receipt is taken back; the message will be visible again.
Cleanup(w) ==
    /\ pc[w] = "cleanup"
    /\ receipts' = receipts \ {Id(w)}
    /\ Finish(w)
    /\ UNCHANGED <<queueVars, certificates, documents, artifact, historyVars>>

\* deleteMany fails: its error ends the process; the row may be gone.
CleanupFails(w) ==
    /\ pc[w] = "cleanup"
    /\ \/ receipts' = receipts \ {Id(w)} /\ UNCHANGED interrupted
       \/ interrupted' = interrupted \union {Id(w)} /\ UNCHANGED receipts
    /\ Die(w)
    /\ UNCHANGED place

\* The process dies anywhere, SIGTERM included: stop() does not wait for the job.
Crash(w) ==
    /\ pc[w] # "down"
    /\ interrupted' = IF Holds(w) THEN interrupted \union {Id(w)} ELSE interrupted
    /\ Die(w)
    /\ UNCHANGED <<place, receipts>>

Restart(w) ==
    /\ pc[w] = "down"
    /\ Goto(w, "idle")
    /\ UNCHANGED <<queueVars, batch, current, found, stamp, recorded, dbVars, historyVars>>

-----------------------------------------------------------------------------
Work(w) ==
    \/ Take(w) \/ InsertReceipt(w) \/ FindDuplicate(w) \/ SkipDuplicate(w)
    \/ Look(w) \/ Put(w) \/ PutRefused(w) \/ FindDocument(w) \/ Commit(w)
    \/ DeleteMessage(w) \/ Fails(w) \/ Cleanup(w)

Next ==
    \/ \E m \in Messages : Send(m) \/ VisibilityTimeout(m) \/ Redrive(m)
    \/ \E w \in Workers :
          \/ Receive(w) \/ Work(w) \/ Restart(w)
          \/ Crash(w) \/ InsertFails(w) \/ SkipFails(w) \/ CleanupFails(w)

Spec == Init /\ [][Next]_vars

\* Workers poll, work and are restarted; an unattended message becomes visible
\* again, and one over the limit is redriven.
Fairness ==
    /\ \A m \in Messages :
          /\ WF_vars(~Held(m) /\ VisibilityTimeout(m))
          /\ WF_vars(Redrive(m))
    /\ \A w \in Workers :
          /\ WF_vars(Receive(w))
          /\ WF_vars(Work(w))
          /\ WF_vars(Restart(w))

FairSpec == Spec /\ Fairness

-----------------------------------------------------------------------------
(* Properties. *)

\* The job's certificate is there, and its artifact is on record.
Issued(i) ==
    /\ certificates[AwardOf[ResultOf[i]]] > 0
    /\ \E d \in documents : d.key = ResultOf[i]

\* The receipt is a lock: no two workers process one job at a time, however
\* often the queue delivers its messages.
OneWorkerPerJob ==
    \A v, w \in Workers : Holds(v) /\ Holds(w) /\ Id(v) = Id(w) => v = w

\* Document rows name objects that are stored: the put comes first, and an error
\* of it stops the job.
DocumentsAreStored == \A d \in documents : artifact[d.key] # 0

\* An award has several ACTIVE certificates only if two attempts looked it up
\* before either had recorded one.
CertificatesAccounted == \A a \in Awards : certificates[a] <= 1 \/ a \in raced

\* A stored artifact differs from the hash on record only after a second job of
\* the same result, a failed attempt or an interrupted one.
HashesExplained ==
    \A d \in documents :
        \/ artifact[d.key] = d.hash
        \/ \E i \in Ids : ResultOf[i] = d.key /\
              (i \in interrupted \/ failures[i] > 0 \/ \E j \in Ids \ {i} : ResultOf[j] = d.key)

\* A job leaves the queue unfinished only if it was interrupted: by a crash, or
\* by a visibility timeout while a worker had it.
LossesExplained ==
    \A m \in Messages : place[m] = "deleted" =>
        \/ Issued(IdOf[m])
        \/ IdOf[m] \in interrupted
        \/ \E n \in Messages : IdOf[n] = IdOf[m] /\ place[n] \in {"visible", "inflight", "dead"}

\* Each job is done in the end, or interrupted on the way, when the queue
\* delivers it more often than it can fail.
EventuallyIssued ==
    \A m \in Messages :
        place[m] = "visible" ~> (Issued(IdOf[m]) \/ IdOf[m] \in interrupted)

-----------------------------------------------------------------------------
(* The inductive invariant. *)

\* A job in hand has its message, and its receipt while it is worked on.
HolderInv ==
    \A w \in Workers :
        /\ pc[w] \in {"idle", "down"} <=> current[w] = None
        /\ Holds(w) => Id(w) \in receipts

\* Payloads are stored before they are recorded, and of results with a job.
StoredInv ==
    /\ DocumentsAreStored
    /\ \A d \in documents : \E i \in Ids : ResultOf[i] = d.key
    /\ \A w \in Workers :
          /\ pc[w] \in {"put", "record", "commit"} => stamp[w] # 0
          /\ pc[w] \in {"record", "commit"} => artifact[Result(w)] # 0

\* What an attempt has seen is still there when it relies on it.
SeenInv ==
    \A w \in Workers :
        /\ pc[w] \in {"put", "record", "commit"} /\ found[w] => certificates[Award(w)] > 0
        /\ pc[w] = "commit" /\ recorded[w] => \E d \in documents : d.key = Result(w)
        /\ pc[w] = "delete" => Issued(Id(w))

\* One attempt at an award that is not raced can be without its certificate.
RaceInv ==
    \A a \in Awards \ raced :
        /\ certificates[a] <= 1
        /\ \A v \in Workers : Unrecorded(v) /\ Award(v) = a =>
              /\ certificates[a] = 0
              /\ \A w \in Workers : Unrecorded(w) /\ Award(w) = a => v = w

\* The only job of a result that has neither failed nor been interrupted has
\* had one attempt, which stores and records one payload.
Sole(i)   == \A j \in Ids \ {i} : ResultOf[j] # ResultOf[i]
Smooth(i) == i \notin interrupted /\ failures[i] = 0
HashInv ==
    \A i \in Ids : Sole(i) /\ Smooth(i) =>
        /\ i \notin receipts => artifact[ResultOf[i]] = 0
        /\ \A d \in documents : d.key = ResultOf[i] => d.hash = artifact[d.key]
        /\ \A w \in Workers : Holds(w) /\ Id(w) = i =>
              /\ pc[w] # "cleanup"
              /\ pc[w] \in {"look", "put"} => artifact[ResultOf[i]] = 0
              /\ pc[w] \in {"record", "commit"} => artifact[ResultOf[i]] = stamp[w]

\* A message of a job that was not interrupted is in one hand, and the queue
\* keeps it from others, until its job is done and it is deleted.
Hand(w) == batch[w] \union ({current[w]} \ {None})
HandInv ==
    \A w \in Workers : \A b \in Hand(w) : IdOf[b.message] \notin interrupted =>
        /\ \/ place[b.message] = "inflight"
           \/ place[b.message] = "deleted" /\ Issued(IdOf[b.message])
        /\ \A v \in Workers : \A c \in Hand(v) : c.message = b.message => v = w /\ c = b
        /\ current[w] \notin batch[w]

\* The receipt of a job that was not interrupted means it is done or in hand.
ReceiptInv ==
    \A i \in receipts \ interrupted :
        Issued(i) \/ \E w \in Workers : Holds(w) /\ Id(w) = i

\* When a message of an unfinished job was deleted, or is about to be as a
\* duplicate, the queue has another that is nobody's duplicate.
Spare(q) ==
    /\ place[q] \in {"visible", "inflight", "dead"}
    /\ \A w \in Workers : pc[w] = "skip" => current[w].message # q
LiveInv ==
    \A i \in Ids \ interrupted :
        \/ Issued(i)
        \/ \E q \in Messages : IdOf[q] = i /\ Spare(q)
        \/ /\ \A m \in Messages : IdOf[m] = i => place[m] # "deleted"
           /\ \A w \in Workers : pc[w] = "skip" => Id(w) # i

IInv ==
    /\ TypeOK /\ HolderInv /\ OneWorkerPerJob /\ StoredInv /\ SeenInv /\ RaceInv
    /\ HashInv /\ HandInv /\ ReceiptInv /\ LiveInv
=============================================================================
