----------------------------- MODULE Enrollment -----------------------------
(***************************************************************************)
(* Requests of the API that register and verify candidates, enrol them,    *)
(* and update enrolments and batches: CandidatesService.create and verify, *)
(* WorkflowService.create of an enrolment and update of an enrolment or a  *)
(* batch.  Each is a Prisma interactive transaction, which PostgreSQL runs *)
(* under READ COMMITTED: a statement sees what was committed when it       *)
(* began, a write waits for open writes of its row or of its unique key,   *)
(* and a transaction holds one connection of the pool until it ends.       *)
(***************************************************************************)
EXTENDS Integers, FiniteSets

CONSTANTS
    Requests,       \* requests; a row has the name of the request creating it
    Known,          \* candidates registered before
    Batches,
    Mobiles,
    Dates,          \* dates of birth
    Today,          \* the date of registrations
    None,           \* no row, and a column that a PATCH does not give
    PoolSize,       \* connections of the Prisma client
    Registered,     \* [Known -> Candidate]: their rows
    Capacity,       \* [Batches -> Nat]: the batches as they were created
    Asks            \* bound: what clients may ask for

Candidates == Known \union Requests
Candidate  == [mobile : Mobiles, birth : Dates, status : {"SUBMITTED", "VERIFIED"}]
Place      == [candidate : Candidates, batch : Batches]

Registrations == [kind : {"register"}, mobile : Mobiles, birth : Dates]
Verifications == [kind : {"verify"}, candidate : Candidates]
Enrolments    == [kind : {"enrol"}, candidate : Candidates, batch : Batches]
Moves         == [kind : {"move"}, row : Requests,
                  candidate : Candidates \union {None}, batch : Batches \union {None}]
Resizes       == [kind : {"resize"}, batch : Batches, capacity : Nat]

ASSUME RowsAssumption ==
    /\ Known \cap Requests = {}
    /\ None \notin Candidates /\ None \notin Batches /\ None \notin Candidate /\ None \notin Place
ASSUME AsksAssumption ==
    Asks \subseteq Registrations \union Verifications \union Enrolments \union Moves \union Resizes
ASSUME DatesAssumption == Dates \union {Today} \subseteq [year : Int, day : Int]
ASSUME PoolAssumption == IsFiniteSet(Requests) /\ PoolSize \in Nat \ {0}
ASSUME InitialAssumption ==
    /\ Capacity \in [Batches -> Nat]
    /\ Registered \in [Known -> Candidate]
    /\ \A c, d \in Known : Registered[c].mobile = Registered[d].mobile => c = d

VARIABLES
    \* the database
    candidate,      \* rows of Candidate
    capacity,       \* the capacity column of Batch
    place,          \* rows of Enrollment: who is in which batch
    trail,          \* requests whose AuditEvent and OutboxEvent rows are there
    \* each request
    pc,             \* where it is
    asked,          \* what it asks for
    sawCapacity     \* batch.capacity as its transaction read it

dbVars == <<candidate, capacity, place, trail>>
vars   == <<dbVars, pc, asked, sawCapacity>>

Transaction == {"refs", "look", "count", "write", "commit"}
Steps == {"idle", "check", "begin"} \union Transaction \union {"done", "failed"}

TypeOK ==
    /\ candidate \in [Candidates -> Candidate \union {None}]
    /\ capacity \in [Batches -> Nat]
    /\ place \in [Requests -> Place \union {None}]
    /\ trail \subseteq Requests
    /\ pc \in [Requests -> Steps]
    /\ asked \in [Requests -> Asks \union {None}]
    /\ \A r \in Requests : pc[r] \notin {"idle", "failed"} => asked[r] \in Asks
    /\ sawCapacity \in [Requests -> Nat]

Init ==
    /\ candidate = [c \in Candidates |-> IF c \in Known THEN Registered[c] ELSE None]
    /\ capacity = Capacity
    /\ place = [r \in Requests |-> None]
    /\ trail = {}
    /\ pc = [r \in Requests |-> "idle"]
    /\ asked = [r \in Requests |-> None]
    /\ sawCapacity = [r \in Requests |-> 0]

-----------------------------------------------------------------------------
(* Shared by the requests. *)

Kind(r) == asked[r].kind

\* Connections in use: a transaction holds one from BEGIN to its end.
Open == {r \in Requests : pc[r] \in Transaction}
ConnectionFree == Cardinality(Open) < PoolSize

Goto(r, step) == pc' = [pc EXCEPT ![r] = step]

\* To the next step, or to an error answer; what was asked goes with it.
Proceed(r, ok, step) ==
    /\ Goto(r, IF ok THEN step ELSE "failed")
    /\ asked' = IF ok THEN asked ELSE [asked EXCEPT ![r] = None]

\* The age rule of registration.
Adult(birth) == Today.year - birth.year >= 18

MobileTaken(mobile) ==
    \E c \in Candidates : candidate[c] # None /\ candidate[c].mobile = mobile

\* The request writes a row of Enrollment: which one, and what it will hold.
\* An update sets the columns it is given.
Placing(r) == Kind(r) \in {"enrol", "move"}
PlacedRow(r) == IF Kind(r) = "enrol" THEN r ELSE asked[r].row

Merge(given, row) == IF given = None THEN row ELSE given
Moved(ask, row) == [candidate |-> Merge(ask.candidate, row.candidate),
                    batch     |-> Merge(ask.batch, row.batch)]
Image(r) ==
    IF Kind(r) = "enrol"
    THEN [candidate |-> asked[r].candidate, batch |-> asked[r].batch]
    ELSE Moved(asked[r], place[asked[r].row])

InBatch(b) == {r \in Requests : place[r] # None /\ place[r].batch = b}

-----------------------------------------------------------------------------
(* The life of a request.  Every failing step answers with an error. *)

Send(r) ==
    /\ pc[r] = "idle"
    /\ \E ask \in Asks :
        /\ asked' = [asked EXCEPT ![r] = ask]
        /\ Goto(r, IF ask.kind = "enrol" THEN "begin" ELSE "check")
    /\ UNCHANGED <<dbVars, sawCapacity>>

\* What is looked up before the transaction: the mobile number of a
\* registration, the row that is to be updated.
Admissible(ask) ==
    \/ ask.kind = "register" /\ Adult(ask.birth) /\ ~MobileTaken(ask.mobile)
    \/ ask.kind = "verify" /\ candidate[ask.candidate] # None
    \/ ask.kind = "move" /\ place[ask.row] # None
    \/ ask.kind = "resize"

Check(r) ==
    /\ pc[r] = "check"
    /\ ConnectionFree
    /\ Proceed(r, Admissible(asked[r]), "begin")
    /\ UNCHANGED <<dbVars, sawCapacity>>

Begin(r) ==
    /\ pc[r] = "begin"
    /\ ConnectionFree
    /\ Goto(r, IF Placing(r) THEN "refs" ELSE "write")
    /\ UNCHANGED <<dbVars, asked, sawCapacity>>

\* Seeded bug: assertReferences is given this.p and not the transaction.
ReferencesOnPool(r) ==
    /\ pc[r] = "refs"
    /\ ConnectionFree
    /\ Proceed(r, asked[r].candidate = None \/ candidate[asked[r].candidate] # None,
               IF Kind(r) = "enrol" THEN "look" ELSE "write")
    /\ UNCHANGED <<dbVars, sawCapacity>>

\* assertReferences: the candidate must exist.  (Batches are never deleted.)
References(r) ==
    /\ pc[r] = "refs"
    /\ Proceed(r, asked[r].candidate = None \/ candidate[asked[r].candidate] # None,
               IF Kind(r) = "enrol" THEN "look" ELSE "write")
    /\ UNCHANGED <<dbVars, sawCapacity>>

\* Seeded bug: the status is not looked at.
LookUnverified(r) ==
    /\ pc[r] = "look"
    /\ sawCapacity' = [sawCapacity EXCEPT ![r] = capacity[asked[r].batch]]
    /\ Goto(r, "count")
    /\ UNCHANGED <<dbVars, asked>>

\* The candidate's status and the batch; a status only moves to VERIFIED, so
\* the two look-ups count as one at the time of the second.
Look(r) ==
    /\ pc[r] = "look"
    /\ sawCapacity' = [sawCapacity EXCEPT ![r] = capacity[asked[r].batch]]
    /\ Proceed(r, candidate[asked[r].candidate].status = "VERIFIED", "count")
    /\ UNCHANGED dbVars

\* Seeded bug: count > batch.capacity.
CountOneTooMany(r) ==
    /\ pc[r] = "count"
    /\ Proceed(r, Cardinality(InBatch(asked[r].batch)) <= sawCapacity[r], "write")
    /\ UNCHANGED <<dbVars, sawCapacity>>

Count(r) ==
    /\ pc[r] = "count"
    /\ Proceed(r, Cardinality(InBatch(asked[r].batch)) < sawCapacity[r], "write")
    /\ UNCHANGED <<dbVars, sawCapacity>>

\* An open write of q that a write of r waits for: of the same row, or of the
\* same unique key, [candidateId, batchId] or [tenantId, mobile].
Blocks(q, r) ==
    /\ pc[q] = "commit"
    /\ \/ /\ Placing(q) /\ Placing(r)
          /\ \/ PlacedRow(q) = PlacedRow(r)
             \/ Image(r) \in {Image(q), place[PlacedRow(q)]}
       \/ Kind(q) = "register" /\ Kind(r) = "register" /\ asked[q].mobile = asked[r].mobile
       \/ Kind(q) = "verify" /\ Kind(r) = "verify" /\ asked[q].candidate = asked[r].candidate
       \/ Kind(q) = "resize" /\ Kind(r) = "resize" /\ asked[q].batch = asked[r].batch

\* Committed rows have the unique keys already: P2002.
PlaceKeyTaken(r) == Placing(r) /\ \E x \in Requests \ {PlacedRow(r)} : place[x] = Image(r)

\* Seeded bug: no unique key on [tenantId, mobile]; the look-up alone guards it.
NoMobileKey(r) == FALSE

MobileKeyTaken(r) == Kind(r) = "register" /\ MobileTaken(asked[r].mobile)

Write(r) ==
    /\ pc[r] = "write"
    /\ \A q \in Requests \ {r} : ~Blocks(q, r)
    /\ Proceed(r, ~PlaceKeyTaken(r) /\ ~MobileKeyTaken(r), "commit")
    /\ UNCHANGED <<dbVars, sawCapacity>>

\* The audit event and the outbox event go with the row.
Commit(r) ==
    /\ pc[r] = "commit"
    /\ Goto(r, "done")
    /\ trail' = trail \union {r}
    /\ UNCHANGED <<asked, sawCapacity>>

CommitRegistration(r) ==
    /\ Commit(r) /\ Kind(r) = "register"
    /\ candidate' = [candidate EXCEPT ![r] =
            [mobile |-> asked[r].mobile, birth |-> asked[r].birth, status |-> "SUBMITTED"]]
    /\ UNCHANGED <<capacity, place>>

CommitVerification(r) ==
    /\ Commit(r) /\ Kind(r) = "verify"
    /\ candidate' = [candidate EXCEPT ![asked[r].candidate].status = "VERIFIED"]
    /\ UNCHANGED <<capacity, place>>

CommitPlacement(r) ==
    /\ Commit(r) /\ Placing(r)
    /\ place' = [place EXCEPT ![PlacedRow(r)] = Image(r)]
    /\ UNCHANGED <<candidate, capacity>>

CommitResize(r) ==
    /\ Commit(r) /\ Kind(r) = "resize"
    /\ capacity' = [capacity EXCEPT ![asked[r].batch] = asked[r].capacity]
    /\ UNCHANGED <<candidate, place>>

\* The process dies, the database refuses, or Prisma gives up waiting for a
\* connection or for the transaction: whatever was open is rolled back.
Abort(r) ==
    /\ pc[r] \in {"check", "begin"} \union Transaction
    /\ Proceed(r, FALSE, "failed")
    /\ UNCHANGED <<dbVars, sawCapacity>>

\* The steps the server takes of its own accord.
Serve(r) ==
    \/ Check(r) \/ Begin(r) \/ References(r) \/ Look(r) \/ Count(r) \/ Write(r)
    \/ CommitRegistration(r) \/ CommitVerification(r) \/ CommitPlacement(r) \/ CommitResize(r)

Next == \E r \in Requests : Send(r) \/ Serve(r) \/ Abort(r)

Spec == Init /\ [][Next]_vars
FairSpec == Spec /\ \A r \in Requests : WF_vars(Serve(r))

-----------------------------------------------------------------------------
(* What the requests promise. *)

\* The capacities a batch has had, and the updates that moved an enrolment
\* into it, as the audit trail has them.
Capacities(b) == {Capacity[b]} \union
    {asked[r].capacity : r \in {q \in trail : Kind(q) = "resize" /\ asked[q].batch = b}}
MovedInto(b) == {r \in trail : Kind(r) = "move" /\ asked[r].batch = b}

\* Creations that have passed the capacity check and not ended.
Admitted(b) == {r \in Requests :
    pc[r] \in {"write", "commit"} /\ Kind(r) = "enrol" /\ asked[r].batch = b}

\* No more rows than a capacity the batch has had, plus one for each other
\* connection (the creations that counted at the same time), plus the
\* enrolments an update moved in without counting.
WithinBound(b, rows) == \E c \in Capacities(b) :
    rows <= c + (PoolSize - 1) + Cardinality(MovedInto(b))

\* A batch is overbooked by concurrent creations and by updates only, and by no
\* more than there can be of them: with one connection, creations keep the
\* capacity that WorkflowService.create checks.
OverbookingBounded == \A b \in Batches : WithinBound(b, Cardinality(InBatch(b)))

\* Whoever is in a batch is verified, unless an update of that very enrolment
\* put the candidate there: the status is read in the transaction and no
\* request takes a verification back.
EnrolledAreVerified == \A x \in Requests : place[x] # None =>
    \/ candidate[place[x].candidate].status = "VERIFIED"
    \/ \E r \in trail : /\ Kind(r) = "move" /\ asked[r].row = x
                        /\ asked[r].candidate = place[x].candidate

\* However registrations, enrolments and updates race: one candidate per mobile
\* number (its check runs outside the transaction), one row per candidate and
\* batch.
NoDuplicates ==
    /\ \A c, d \in Candidates :
        candidate[c] # None /\ candidate[d] # None /\ candidate[c].mobile = candidate[d].mobile => c = d
    /\ \A x, y \in Requests : place[x] # None /\ place[x] = place[y] => x = y

\* Every request is answered: no transaction waits for a connection or a row
\* that is never released, with any number of requests on a small pool.
EveryRequestAnswered ==
    \A r \in Requests : pc[r] # "idle" ~> pc[r] \in {"done", "failed"}

-----------------------------------------------------------------------------
(* The inductive invariant behind the safety properties. *)

PoolInv == Cardinality(Open) <= PoolSize

\* Rows belong to requests that committed; a request to update or to verify
\* has found its row, and one past its look-ups has found its candidate.
RowInv == \A r \in Requests :
    /\ r \in trail <=> pc[r] = "done"
    /\ candidate[r] # None => pc[r] = "done" /\ Kind(r) = "register"
    /\ place[r] # None => pc[r] = "done" /\ Kind(r) = "enrol"
    /\ pc[r] \in {"begin"} \union Transaction =>
        /\ Kind(r) = "verify" => candidate[asked[r].candidate] # None
        /\ Kind(r) = "move" => place[asked[r].row] # None
    /\ pc[r] = "refs" => Placing(r)
    /\ pc[r] \in {"look", "count"} => Kind(r) = "enrol"
    /\ pc[r] \in {"look", "count", "write", "commit"} /\ Placing(r) =>
        asked[r].candidate = None \/ candidate[asked[r].candidate] # None

\* What stands in a batch refers to candidates that are there.
ReferenceInv == \A x \in Requests : place[x] # None => candidate[place[x].candidate] # None

\* A creation past its look-up has a verified candidate and a capacity its
\* batch has had.
LookedInv == \A r \in Requests : pc[r] \in {"count", "write", "commit"} /\ Kind(r) = "enrol" =>
    /\ candidate[asked[r].candidate] # None
    /\ candidate[asked[r].candidate].status = "VERIFIED"
    /\ sawCapacity[r] \in Capacities(asked[r].batch)

\* Counting in the creations that are past the check.
AdmittedInv == \A b \in Batches :
    /\ capacity[b] \in Capacities(b)
    /\ WithinBound(b, Cardinality(InBatch(b)) + Cardinality(Admitted(b)))

\* An open write has its row and its key for itself.
OpenWriteInv == \A r \in Requests : pc[r] = "commit" =>
    /\ ~PlaceKeyTaken(r) /\ ~MobileKeyTaken(r)
    /\ \A q \in Requests \ {r} : pc[q] = "commit" =>
        /\ Placing(q) /\ Placing(r) => PlacedRow(q) # PlacedRow(r) /\ Image(q) # Image(r)
        /\ Kind(q) = "register" /\ Kind(r) = "register" => asked[q].mobile # asked[r].mobile

IInv ==
    /\ TypeOK /\ PoolInv /\ RowInv /\ ReferenceInv /\ LookedInv
    /\ AdmittedInv /\ EnrolledAreVerified /\ OpenWriteInv /\ NoDuplicates
=============================================================================
