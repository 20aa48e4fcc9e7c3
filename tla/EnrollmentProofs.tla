-------------------------- MODULE EnrollmentProofs --------------------------
(* Proofs about Enrollment, for any number of requests, batches and           *)
(* connections.                                                               *)
EXTENDS Enrollment, FiniteSetTheorems, TLAPS

-----------------------------------------------------------------------------
(* Type correctness. *)

\* What an ask of each kind carries.
LEMMA AskShape ==
    ASSUME NEW ask \in Asks
    PROVE  /\ ask.kind \in {"register", "verify", "enrol", "move", "resize"}
           /\ ask.kind = "register" => ask.mobile \in Mobiles /\ ask.birth \in Dates
           /\ ask.kind = "verify" => ask.candidate \in Candidates
           /\ ask.kind = "enrol" => ask.candidate \in Candidates /\ ask.batch \in Batches
           /\ ask.kind = "move" => /\ ask.row \in Requests
                                   /\ ask.candidate \in Candidates \union {None}
                                   /\ ask.batch \in Batches \union {None}
           /\ ask.kind = "resize" => ask.batch \in Batches /\ ask.capacity \in Nat
<1>1. ask \in Registrations \union Verifications \union Enrolments \union Moves \union Resizes
  BY AsksAssumption
<1>. QED BY <1>1 DEF Registrations, Verifications, Enrolments, Moves, Resizes

\* A row that a request writes to Enrollment.
LEMMA ImageType ==
    ASSUME TypeOK, RowInv, NEW r \in Requests, pc[r] \in {"write", "commit"}, Placing(r)
    PROVE  /\ Image(r) \in Place
           /\ PlacedRow(r) \in Requests
<1>1. asked[r] \in Asks
  BY DEF TypeOK
<1>2. CASE Kind(r) = "enrol"
  BY <1>1, <1>2, AskShape DEF Kind, Image, PlacedRow, Place
<1>3. CASE Kind(r) = "move"
  <2>1. asked[r].row \in Requests /\ place[asked[r].row] # None
    BY <1>1, <1>3, AskShape DEF Kind, RowInv, Transaction
  <2>2. place[asked[r].row] \in Place
    BY <2>1 DEF TypeOK
  <2>. QED
    BY <1>1, <1>3, <2>1, <2>2, AskShape DEF Kind, Image, PlacedRow, Moved, Merge, Place
<1>. QED BY <1>2, <1>3 DEF Placing

\* A step that does not commit keeps the database and every other request.
LEMMA TypeStep ==
    ASSUME TypeOK, RowInv, [Next]_vars
    PROVE  TypeOK'
<1>1. CASE UNCHANGED vars
  BY <1>1 DEF TypeOK, vars, dbVars
<1>2. ASSUME NEW r \in Requests, Send(r)
      PROVE  TypeOK'
  BY <1>2 DEF TypeOK, Send, Goto, dbVars, Steps
<1>3. ASSUME NEW r \in Requests,
             Check(r) \/ Begin(r) \/ References(r) \/ Count(r) \/ Write(r) \/ Abort(r)
      PROVE  TypeOK'
  <2>1. pc[r] \notin {"idle", "failed"}
    BY <1>3 DEF Check, Begin, References, Count, Write, Abort, Transaction
  <2>2. PICK step \in Steps \ {"idle"} : Goto(r, step) /\ (step # "failed" => asked' = asked)
    BY <1>3 DEF Check, Begin, References, Count, Write, Abort, Proceed, Goto, Steps, Transaction
  <2>3. asked' \in {asked, [asked EXCEPT ![r] = None]}
    BY <1>3 DEF Check, Begin, References, Count, Write, Abort, Proceed
  <2>4. UNCHANGED <<dbVars, sawCapacity>>
    BY <1>3 DEF Check, Begin, References, Count, Write, Abort
  <2>. QED BY <2>1, <2>2, <2>3, <2>4 DEF TypeOK, Goto, dbVars
<1>4. ASSUME NEW r \in Requests, Look(r)
      PROVE  TypeOK'
  <2>1. asked[r] \in Asks /\ Kind(r) = "enrol"
    BY <1>4 DEF TypeOK, RowInv, Look
  <2>2. capacity[asked[r].batch] \in Nat
    BY <2>1, AskShape DEF TypeOK, Kind
  <2>. QED BY <1>4, <2>1, <2>2 DEF TypeOK, Look, Proceed, Goto, dbVars, Steps, Transaction
<1>5. ASSUME NEW r \in Requests, Commit(r)
      PROVE  /\ trail' \subseteq Requests
             /\ pc' \in [Requests -> Steps]
             /\ asked' \in [Requests -> Asks \union {None}]
             /\ \A q \in Requests : pc'[q] \notin {"idle", "failed"} => asked'[q] \in Asks
             /\ sawCapacity' \in [Requests -> Nat]
             /\ asked[r] \in Asks
  BY <1>5 DEF TypeOK, Commit, Goto, Steps
<1>6. ASSUME NEW r \in Requests, CommitRegistration(r)
      PROVE  TypeOK'
  <2>1. [mobile |-> asked[r].mobile, birth |-> asked[r].birth, status |-> "SUBMITTED"] \in Candidate
    BY <1>5, <1>6, AskShape DEF CommitRegistration, Candidate, Kind
  <2>. QED BY <1>5, <1>6, <2>1 DEF TypeOK, CommitRegistration
<1>7. ASSUME NEW r \in Requests, CommitVerification(r)
      PROVE  TypeOK'
  <2>1. asked[r].candidate \in Candidates /\ candidate[asked[r].candidate] # None
    BY <1>5, <1>7, AskShape DEF CommitVerification, Commit, Kind, RowInv, Transaction
  <2>2. [candidate[asked[r].candidate] EXCEPT !.status = "VERIFIED"] \in Candidate
    BY <2>1 DEF TypeOK, Candidate
  <2>. QED BY <1>5, <1>7, <2>1, <2>2 DEF TypeOK, CommitVerification
<1>8. ASSUME NEW r \in Requests, CommitPlacement(r)
      PROVE  TypeOK'
  <2>1. Image(r) \in Place
    BY <1>8, ImageType DEF CommitPlacement, Commit
  <2>. QED BY <1>5, <1>8, <2>1 DEF TypeOK, CommitPlacement
<1>9. ASSUME NEW r \in Requests, CommitResize(r)
      PROVE  TypeOK'
  BY <1>5, <1>9, AskShape DEF TypeOK, CommitResize, Kind
<1>. QED BY <1>1, <1>2, <1>3, <1>4, <1>6, <1>7, <1>8, <1>9 DEF Next, Serve

-----------------------------------------------------------------------------
(* Frame facts: what a step of one request leaves as it was. *)

\* The steps that do not commit.
Local(r) ==
    \/ Send(r) \/ Check(r) \/ Begin(r) \/ References(r) \/ Look(r) \/ Count(r)
    \/ Write(r) \/ Abort(r)
Commits(r) ==
    CommitRegistration(r) \/ CommitVerification(r) \/ CommitPlacement(r) \/ CommitResize(r)

LEMMA LocalKeepsDatabase ==
    ASSUME NEW r \in Requests, Local(r)
    PROVE  UNCHANGED dbVars
BY DEF Local, Send, Check, Begin, References, Look, Count, Write, Abort

\* Other requests are where they were; the one that steps keeps what it asks
\* for until it fails.
LEMMA OthersKept ==
    ASSUME TypeOK, NEW r \in Requests, Local(r) \/ Commits(r)
    PROVE  /\ \A q \in Requests \ {r} :
                pc'[q] = pc[q] /\ asked'[q] = asked[q] /\ sawCapacity'[q] = sawCapacity[q]
           /\ pc[r] # "idle" /\ pc'[r] # "failed" => asked'[r] = asked[r]
<1>1. CASE Send(r)
  BY <1>1 DEF TypeOK, Send, Goto
<1>2. CASE Check(r) \/ Begin(r) \/ References(r)
  BY <1>2 DEF TypeOK, Check, Begin, References, Proceed, Goto
<1>3. CASE Look(r) \/ Count(r) \/ Write(r) \/ Abort(r)
  BY <1>3 DEF TypeOK, Look, Count, Write, Abort, Proceed, Goto
<1>4. CASE Commits(r)
  BY <1>4 DEF TypeOK, Commits, CommitRegistration, CommitVerification, CommitPlacement,
              CommitResize, Commit, Goto
<1>. QED BY <1>1, <1>2, <1>3, <1>4 DEF Local

\* Where a request can go.
LEMMA Transitions ==
    ASSUME TypeOK, NEW r \in Requests, Local(r) \/ Commits(r)
    PROVE  /\ pc[r] = "idle" => pc'[r] \in {"check", "begin"}
           /\ pc[r] = "check" => pc'[r] \in {"begin", "failed"}
           /\ pc[r] = "begin" => pc'[r] \in {"refs", "write", "failed"}
           /\ pc[r] = "refs" => pc'[r] \in {"look", "write", "failed"}
           /\ pc[r] = "look" => pc'[r] \in {"count", "failed"}
           /\ pc[r] = "count" => pc'[r] \in {"write", "failed"}
           /\ pc[r] = "write" => pc'[r] \in {"commit", "failed"}
           /\ pc[r] = "commit" => pc'[r] \in {"done", "failed"}
           /\ pc[r] \notin {"done", "failed"}
           /\ pc'[r] = "done" => Commits(r)
<1>1. CASE Send(r)
  BY <1>1 DEF TypeOK, Send, Goto
<1>2. CASE Check(r) \/ Begin(r) \/ References(r)
  BY <1>2 DEF TypeOK, Check, Begin, References, Proceed, Goto
<1>3. CASE Look(r) \/ Count(r) \/ Write(r) \/ Abort(r)
  BY <1>3 DEF TypeOK, Look, Count, Write, Abort, Proceed, Goto, Transaction
<1>4. CASE Commits(r)
  BY <1>4 DEF TypeOK, Commits, CommitRegistration, CommitVerification, CommitPlacement,
              CommitResize, Commit, Goto
<1>. QED BY <1>1, <1>2, <1>3, <1>4 DEF Local

\* A commit's own request: it asked for something and is done.
LEMMA CommitFacts ==
    ASSUME TypeOK, NEW r \in Requests, Commits(r)
    PROVE  /\ pc[r] = "commit" /\ pc'[r] = "done"
           /\ trail' = trail \union {r}
           /\ UNCHANGED <<asked, sawCapacity>>
           /\ asked[r] \in Asks
BY DEF TypeOK, Commits, CommitRegistration, CommitVerification, CommitPlacement, CommitResize,
       Commit, Goto

\* Rows are never deleted, verifications never taken back, mobile numbers and
\* dates of birth never changed.
LEMMA CandidatesKept ==
    ASSUME TypeOK, RowInv, [Next]_vars, NEW c \in Candidates, candidate[c] # None
    PROVE  /\ candidate'[c] # None
           /\ candidate'[c].mobile = candidate[c].mobile
           /\ candidate[c].status = "VERIFIED" => candidate'[c].status = "VERIFIED"
<1>1. candidate[c] \in Candidate
  BY DEF TypeOK
<1>2. CASE candidate' = candidate
  BY <1>2
<1>3. ASSUME NEW r \in Requests, CommitRegistration(r)
      PROVE  candidate'[c] = candidate[c]
  BY <1>3 DEF CommitRegistration, Commit, RowInv, TypeOK
<1>4. ASSUME NEW r \in Requests, CommitVerification(r)
      PROVE  candidate'[c] \in {candidate[c], [candidate[c] EXCEPT !.status = "VERIFIED"]}
  BY <1>4 DEF CommitVerification, TypeOK
<1>5. [candidate[c] EXCEPT !.status = "VERIFIED"] \in Candidate
      /\ [candidate[c] EXCEPT !.status = "VERIFIED"].mobile = candidate[c].mobile
      /\ [candidate[c] EXCEPT !.status = "VERIFIED"].status = "VERIFIED"
  BY <1>1 DEF Candidate
<1>6. ASSUME NEW r \in Requests, CommitVerification(r)
      PROVE  /\ candidate'[c] # None
             /\ candidate'[c].mobile = candidate[c].mobile
             /\ candidate[c].status = "VERIFIED" => candidate'[c].status = "VERIFIED"
  BY <1>4, <1>5, <1>6, RowsAssumption
<1>7. \/ candidate' = candidate
      \/ \E r \in Requests : CommitRegistration(r) \/ CommitVerification(r)
  BY LocalKeepsDatabase DEF Next, Serve, Local, CommitPlacement, CommitResize, vars, dbVars
<1>. QED BY <1>2, <1>3, <1>6, <1>7

LEMMA PlacesKept ==
    ASSUME TypeOK, RowInv, [Next]_vars, NEW x \in Requests, place[x] # None
    PROVE  place'[x] # None
<1>1. ASSUME NEW r \in Requests, CommitPlacement(r)
      PROVE  place'[x] # None
  <2>1. Image(r) \in Place
    BY <1>1, ImageType DEF CommitPlacement, Commit
  <2>. QED BY <1>1, <2>1, RowsAssumption DEF CommitPlacement, TypeOK
<1>2. place' = place \/ \E r \in Requests : CommitPlacement(r)
  BY LocalKeepsDatabase DEF Next, Serve, Local, CommitRegistration, CommitVerification,
                            CommitResize, vars, dbVars
<1>. QED BY <1>1, <1>2

LEMMA NextCases ==
    ASSUME [Next]_vars
    PROVE  UNCHANGED vars \/ \E r \in Requests : Local(r) \/ Commits(r)
BY DEF Next, Serve, Local, Commits

-----------------------------------------------------------------------------
(* The parts of the invariant, one lemma each. *)

\* An element more is at most one more.
LEMMA AddOne ==
    ASSUME NEW S, IsFiniteSet(S), NEW x
    PROVE  /\ IsFiniteSet(S \union {x})
           /\ Cardinality(S) \in Nat
           /\ Cardinality(S \union {x}) \in Nat
           /\ Cardinality(S \union {x}) <= Cardinality(S) + 1
<1>1. Cardinality(S) \in Nat
  BY FS_CardinalityType
<1>2. /\ IsFiniteSet(S \union {x})
      /\ Cardinality(S \union {x}) = IF x \in S THEN Cardinality(S) ELSE Cardinality(S) + 1
  BY FS_AddElement
<1>. QED BY <1>1, <1>2

\* Only BEGIN takes a connection, and it finds one free.
LEMMA PoolStep ==
    ASSUME TypeOK, PoolInv, [Next]_vars
    PROVE  PoolInv'
<1>1. IsFiniteSet(Open) /\ Cardinality(Open) \in Nat
  BY PoolAssumption, FS_Subset, FS_CardinalityType DEF Open
<1>2. CASE Open' \subseteq Open
  BY <1>1, <1>2, PoolAssumption, FS_Subset, FS_CardinalityType DEF PoolInv
<1>3. ASSUME NEW r \in Requests, Begin(r)
      PROVE  PoolInv'
  <2>1. Open' \subseteq Open \union {r}
    BY <1>3, OthersKept DEF Local, Open
  <2>2. /\ IsFiniteSet(Open \union {r})
        /\ Cardinality(Open \union {r}) \in Nat
        /\ Cardinality(Open \union {r}) <= Cardinality(Open) + 1
    BY <1>1, AddOne
  <2>3. Cardinality(Open) < PoolSize
    BY <1>3 DEF Begin, ConnectionFree
  <2>4. Cardinality(Open') \in Nat /\ Cardinality(Open') <= Cardinality(Open \union {r})
    BY <2>1, <2>2, FS_Subset, FS_CardinalityType
  <2>. QED BY <1>1, <2>2, <2>3, <2>4, PoolAssumption DEF PoolInv
<1>4. ASSUME NEW r \in Requests, Local(r) \/ Commits(r), ~Begin(r)
      PROVE  Open' \subseteq Open
  <2>1. pc[r] # "begin" \/ pc'[r] = "failed"
    BY <1>4 DEF Local, Commits, Send, Check, References, Look, Count, Write, Abort, Proceed, Goto,
                TypeOK, CommitRegistration, CommitVerification, CommitPlacement, CommitResize, Commit
  <2>2. pc'[r] \in Transaction => pc[r] \in Transaction
    BY <1>4, <2>1, Transitions DEF Transaction, TypeOK, Steps
  <2>. QED BY <1>4, <2>2, OthersKept DEF Open
<1>5. CASE UNCHANGED vars
  BY <1>5, <1>2 DEF vars, Open
<1>. QED BY <1>2, <1>3, <1>4, <1>5, NextCases

\* Rows and where their requests are.
LEMMA RowStep ==
    ASSUME TypeOK, RowInv, [Next]_vars
    PROVE  RowInv'
<1>1. CASE UNCHANGED vars
  BY <1>1 DEF RowInv, vars, dbVars, Kind, Placing
<1>2. ASSUME NEW r \in Requests, Local(r) \/ Commits(r), NEW q \in Requests
      PROVE  /\ q \in trail' <=> pc'[q] = "done"
             /\ candidate'[q] # None => pc'[q] = "done" /\ Kind(q)' = "register"
             /\ place'[q] # None => pc'[q] = "done" /\ Kind(q)' = "enrol"
  <2>1. q \in trail' <=> pc'[q] = "done"
    BY <1>2, LocalKeepsDatabase, OthersKept, Transitions, CommitFacts DEF RowInv, dbVars
  <2>2. candidate'[q] # None => (candidate[q] # None \/ (q = r /\ CommitRegistration(r)))
    <3>1. CASE Local(r)
      BY <3>1, LocalKeepsDatabase DEF dbVars
    <3>2. CommitPlacement(r) \/ CommitResize(r) => candidate' = candidate
      BY DEF CommitPlacement, CommitResize
    <3>3. CommitRegistration(r) /\ q # r => candidate'[q] = candidate[q]
      BY DEF CommitRegistration, TypeOK, Candidates
    <3>4. CommitVerification(r) => candidate'[q] = candidate[q] \/ candidate[q] # None
      BY DEF CommitVerification, Commit, RowInv, TypeOK, Candidates, Transaction
    <3>. QED BY <1>2, <3>1, <3>2, <3>3, <3>4 DEF Commits
  <2>3. place'[q] # None => (place[q] # None \/ (PlacedRow(r) = q /\ CommitPlacement(r)))
    <3>1. CASE Local(r)
      BY <3>1, LocalKeepsDatabase DEF dbVars
    <3>2. CommitPlacement(r) /\ PlacedRow(r) # q => place'[q] = place[q]
      BY DEF CommitPlacement, TypeOK
    <3>3. CommitRegistration(r) \/ CommitVerification(r) \/ CommitResize(r) => place' = place
      BY DEF CommitRegistration, CommitVerification, CommitResize
    <3>. QED BY <1>2, <3>1, <3>2, <3>3 DEF Commits
  <2>4. pc[q] = "done" => pc'[q] = "done" /\ Kind(q)' = Kind(q)
    BY <1>2, OthersKept, Transitions DEF Kind
  <2>5. CommitPlacement(r) /\ PlacedRow(r) = q =>
            (q = r /\ Kind(r) = "enrol") \/ (place[q] # None /\ pc[q] = "done" /\ Kind(q) = "enrol")
    BY DEF CommitPlacement, Commit, Placing, PlacedRow, RowInv, Transaction
  <2>6. CommitPlacement(r) \/ CommitRegistration(r) => pc'[r] = "done" /\ Kind(r)' = Kind(r)
    BY CommitFacts DEF Commits, Kind
  <2>. QED BY <2>1, <2>2, <2>3, <2>4, <2>5, <2>6 DEF RowInv, CommitRegistration
<1>3. ASSUME NEW r \in Requests, Local(r) \/ Commits(r), NEW q \in Requests,
             pc'[q] \in {"begin"} \union Transaction
      PROVE  /\ Kind(q)' = "verify" => candidate'[asked'[q].candidate] # None
             /\ Kind(q)' = "move" => place'[asked'[q].row] # None
  <2>1. asked'[q] \in Asks
    BY <1>3, TypeStep DEF TypeOK, Transaction
  <2>2. ASSUME Kind(q)' = "verify" \/ Kind(q)' = "move"
        PROVE  /\ asked'[q] = asked[q]
               /\ Kind(q)' = "verify" => candidate[asked[q].candidate] # None
               /\ Kind(q)' = "move" => place[asked[q].row] # None
    <3>1. CASE q # r \/ pc[q] \notin {"idle", "check"}
      BY <1>3, <2>2, <3>1, OthersKept, Transitions DEF RowInv, Kind, TypeOK, Steps, Transaction
    <3>2. CASE q = r /\ pc[q] = "idle"
      BY <1>3, <2>2, <3>2, Transitions, AskShape DEF Local, Send, Check, Begin, References, Look,
         Count, Write, Abort, Commits, CommitRegistration, CommitVerification, CommitPlacement,
         CommitResize, Commit, Goto, TypeOK, Kind, Transaction
    <3>3. CASE q = r /\ pc[q] = "check"
      <4>1. Check(q) /\ pc'[q] = "begin"
        BY <1>3, <3>3, Transitions DEF Local, Send, Check, Begin, References, Look,
           Count, Write, Abort, Commits, CommitRegistration, CommitVerification, CommitPlacement,
           CommitResize, Commit, Proceed, Goto, TypeOK, Transaction
      <4>2. Admissible(asked[q]) /\ asked'[q] = asked[q]
        BY <4>1, <3>3 DEF Check, Proceed, Goto, TypeOK
      <4>. QED BY <2>2, <4>2 DEF Admissible, Kind
    <3>. QED BY <3>1, <3>2, <3>3
  <2>. QED BY <2>1, <2>2, AskShape, CandidatesKept, PlacesKept DEF Kind
<1>4. ASSUME NEW r \in Requests, Local(r) \/ Commits(r), NEW q \in Requests
      PROVE  /\ pc'[q] = "refs" => Placing(q)'
             /\ pc'[q] \in {"look", "count"} => Kind(q)' = "enrol"
  <2>1. CASE q # r
    BY <1>4, <2>1, OthersKept DEF RowInv, Placing, Kind
  <2>2. CASE q = r /\ pc'[q] = "refs"
    <3>1. Begin(q)
      BY <1>4, <2>2, Transitions DEF Local, Send, Check, References, Look, Count, Write, Abort,
         Commits, CommitRegistration, CommitVerification, CommitPlacement, CommitResize, Commit,
         Proceed, Goto, TypeOK
    <3>. QED BY <2>2, <3>1 DEF Begin, Goto, TypeOK, Placing, Kind
  <2>3. CASE q = r /\ pc'[q] = "look"
    <3>1. References(q)
      BY <1>4, <2>3, Transitions DEF Local, Send, Check, Begin, Look, Count, Write, Abort,
         Commits, CommitRegistration, CommitVerification, CommitPlacement, CommitResize, Commit,
         Proceed, Goto, TypeOK
    <3>. QED BY <2>3, <3>1 DEF References, Proceed, Goto, TypeOK, Kind
  <2>4. CASE q = r /\ pc'[q] = "count"
    BY <1>4, <2>4, Transitions, OthersKept DEF RowInv, Kind, TypeOK, Steps, Transaction
  <2>. QED BY <2>1, <2>2, <2>3, <2>4
<1>5. ASSUME NEW r \in Requests, Local(r) \/ Commits(r), NEW q \in Requests,
             pc'[q] \in {"look", "count", "write", "commit"}, Placing(q)'
      PROVE  asked'[q].candidate = None \/ candidate'[asked'[q].candidate] # None
  <2>1. asked'[q] = asked[q] /\ asked[q] \in Asks
    BY <1>5, OthersKept, Transitions DEF TypeOK, Steps, Transaction
  <2>2. asked[q].candidate = None \/ candidate[asked[q].candidate] # None
    <3>1. CASE pc[q] \in {"look", "count", "write", "commit"}
      BY <1>5, <2>1, <3>1 DEF RowInv, Placing, Kind
    <3>2. CASE pc[q] \notin {"look", "count", "write", "commit"}
      <4>1. q = r /\ pc'[q] # "failed" /\ (References(q) \/ (Begin(q) /\ ~Placing(q)))
        BY <1>5, <3>2, OthersKept, Transitions DEF Local, Send, Check, Begin, References, Look,
           Count, Write, Abort, Commits, CommitRegistration, CommitVerification, CommitPlacement,
           CommitResize, Commit, Proceed, Goto, TypeOK
      <4>2. ~Begin(q) \/ Placing(q)
        BY <1>5, <2>1 DEF Placing, Kind
      <4>. QED BY <4>1, <4>2 DEF References, Proceed, Goto, TypeOK
    <3>. QED BY <3>1, <3>2
  <2>. QED BY <1>5, <2>1, <2>2, AskShape, CandidatesKept DEF Placing, Kind
<1>. QED BY <1>1, <1>2, <1>3, <1>4, <1>5, NextCases DEF RowInv

\* The trail only grows, and so do the sets read off it.
LEMMA TrailGrows ==
    ASSUME TypeOK, RowInv, [Next]_vars
    PROVE  /\ \A q \in trail : q \in trail' /\ asked'[q] = asked[q]
           /\ \A b \in Batches : Capacities(b) \subseteq Capacities(b)'
           /\ \A b \in Batches : MovedInto(b) \subseteq MovedInto(b)'
<1>1. ASSUME NEW q \in trail
      PROVE  q \in trail' /\ asked'[q] = asked[q]
  <2>1. CASE UNCHANGED vars
    BY <1>1, <2>1 DEF vars, dbVars
  <2>2. ASSUME NEW r \in Requests, Local(r) \/ Commits(r)
        PROVE  q \in trail' /\ asked'[q] = asked[q]
    BY <1>1, <2>2, LocalKeepsDatabase, OthersKept, Transitions, CommitFacts DEF RowInv, TypeOK, dbVars
  <2>. QED BY <2>1, <2>2, NextCases
<1>2. \A q \in trail : Kind(q)' = Kind(q)
  BY <1>1 DEF Kind
<1>3. ASSUME NEW b \in Batches
      PROVE  /\ Capacities(b) \subseteq Capacities(b)'
             /\ MovedInto(b) \subseteq MovedInto(b)'
  BY <1>1, <1>2 DEF Capacities, MovedInto
<1>. QED BY <1>1, <1>3

\* A row of Enrollment stays as it was unless its writer commits.
LEMMA PlaceCases ==
    ASSUME TypeOK, RowInv, [Next]_vars, NEW x \in Requests
    PROVE  \/ place'[x] = place[x]
           \/ \E r \in Requests :
                CommitPlacement(r) /\ x = PlacedRow(r) /\ place'[x] = Image(r)
<1>1. ASSUME NEW r \in Requests, CommitPlacement(r)
      PROVE  place'[x] = place[x] \/ (x = PlacedRow(r) /\ place'[x] = Image(r))
  BY <1>1 DEF CommitPlacement, TypeOK
<1>2. place' = place \/ \E r \in Requests : CommitPlacement(r)
  <2>1. ASSUME NEW r \in Requests, Local(r)
        PROVE  place' = place
    BY <2>1, LocalKeepsDatabase DEF dbVars
  <2>2. ASSUME NEW r \in Requests,
               CommitRegistration(r) \/ CommitVerification(r) \/ CommitResize(r)
        PROVE  place' = place
    BY <2>2 DEF CommitRegistration, CommitVerification, CommitResize
  <2>3. UNCHANGED vars => place' = place
    BY DEF vars, dbVars
  <2>. QED BY <2>1, <2>2, <2>3, NextCases DEF Commits
<1>. QED BY <1>1, <1>2

\* What an open write will put there names a candidate with a row.
LEMMA ImageCandidate ==
    ASSUME TypeOK, RowInv, ReferenceInv, NEW r \in Requests, pc[r] = "commit", Placing(r)
    PROVE  /\ candidate[Image(r).candidate] # None
           /\ Kind(r) = "enrol" \/ asked[r].candidate # None =>
                Image(r).candidate = asked[r].candidate
           /\ Kind(r) = "move" /\ asked[r].candidate = None =>
                /\ asked[r].row \in Requests /\ place[asked[r].row] # None
                /\ Image(r).candidate = place[asked[r].row].candidate
<1>1. asked[r] \in Asks
  BY DEF TypeOK
<1>2. asked[r].candidate = None \/ candidate[asked[r].candidate] # None
  BY DEF RowInv
<1>3. CASE Kind(r) = "enrol"
  <2>1. asked[r].candidate # None
    BY <1>1, <1>3, AskShape, RowsAssumption DEF Kind
  <2>. QED BY <1>2, <1>3, <2>1 DEF Image
<1>4. CASE Kind(r) = "move"
  <2>1. asked[r].row \in Requests /\ place[asked[r].row] # None
    BY <1>1, <1>4, AskShape DEF Kind, RowInv, Transaction
  <2>2. Image(r).candidate = Merge(asked[r].candidate, place[asked[r].row].candidate)
    BY <1>4 DEF Image, Moved
  <2>. QED BY <1>2, <1>4, <2>1, <2>2 DEF Merge, ReferenceInv
<1>. QED BY <1>3, <1>4 DEF Placing

LEMMA ReferenceStep ==
    ASSUME TypeOK, RowInv, ReferenceInv, [Next]_vars
    PROVE  ReferenceInv'
<1>1. SUFFICES ASSUME NEW x \in Requests, place'[x] # None
               PROVE  candidate'[place'[x].candidate] # None
  BY DEF ReferenceInv
<1>2. place'[x].candidate \in Candidates
  BY <1>1, TypeStep DEF TypeOK, Place
<1>3. candidate[place'[x].candidate] # None
  <2>1. CASE place'[x] = place[x]
    BY <1>1, <2>1 DEF ReferenceInv
  <2>2. ASSUME NEW r \in Requests, CommitPlacement(r), place'[x] = Image(r)
        PROVE  candidate[place'[x].candidate] # None
    BY <2>2, ImageCandidate DEF CommitPlacement, Commit
  <2>. QED BY <2>1, <2>2, PlaceCases
<1>. QED BY <1>2, <1>3, CandidatesKept

LEMMA EnrolledStep ==
    ASSUME TypeOK, RowInv, ReferenceInv, LookedInv, EnrolledAreVerified, [Next]_vars
    PROVE  EnrolledAreVerified'
<1>1. SUFFICES ASSUME NEW x \in Requests, place'[x] # None
               PROVE  \/ candidate'[place'[x].candidate].status = "VERIFIED"
                      \/ \E r \in trail' : /\ asked'[r].kind = "move" /\ asked'[r].row = x
                                           /\ asked'[r].candidate = place'[x].candidate
  BY DEF EnrolledAreVerified, Kind
<1>. DEFINE Explained(c) ==
        \/ candidate[c].status = "VERIFIED"
        \/ \E r \in trail : asked[r].kind = "move" /\ asked[r].row = x /\ asked[r].candidate = c
<1>2. place'[x].candidate \in Candidates /\ candidate[place'[x].candidate] # None
  <2>1. place'[x].candidate \in Candidates
    BY <1>1, TypeStep DEF TypeOK, Place
  <2>2. CASE place'[x] = place[x]
    BY <1>1, <2>1, <2>2 DEF ReferenceInv
  <2>3. ASSUME NEW r \in Requests, CommitPlacement(r), place'[x] = Image(r)
        PROVE  candidate[place'[x].candidate] # None
    BY <2>3, ImageCandidate DEF CommitPlacement, Commit
  <2>. QED BY <2>1, <2>2, <2>3, PlaceCases
<1>3. CASE Explained(place'[x].candidate)
  <2>1. CASE candidate[place'[x].candidate].status = "VERIFIED"
    BY <1>2, <2>1, CandidatesKept
  <2>2. ASSUME NEW r \in trail, asked[r].kind = "move", asked[r].row = x,
               asked[r].candidate = place'[x].candidate
        PROVE  \E q \in trail' : /\ asked'[q].kind = "move" /\ asked'[q].row = x
                                 /\ asked'[q].candidate = place'[x].candidate
    BY <2>2, TrailGrows
  <2>. QED BY <1>3, <2>1, <2>2
<1>4. CASE place'[x] = place[x]
  <2>1. Explained(place'[x].candidate)
    BY <1>1, <1>4 DEF EnrolledAreVerified, Kind
  <2>. QED BY <1>3, <2>1
<1>5. ASSUME NEW r \in Requests, CommitPlacement(r), x = PlacedRow(r), place'[x] = Image(r)
      PROVE  \/ Explained(place'[x].candidate)
             \/ /\ r \in trail' /\ asked'[r].kind = "move" /\ asked'[r].row = x
                /\ asked'[r].candidate = place'[x].candidate
  <2>1. pc[r] = "commit" /\ Placing(r) /\ r \in trail' /\ asked' = asked
    BY <1>5 DEF CommitPlacement, Commit
  <2>2. CASE Kind(r) = "enrol"
    BY <1>5, <2>1, <2>2, ImageCandidate DEF LookedInv
  <2>3. CASE Kind(r) = "move" /\ asked[r].candidate # None
    BY <1>5, <2>1, <2>3, ImageCandidate DEF PlacedRow, Kind
  <2>4. CASE Kind(r) = "move" /\ asked[r].candidate = None
    <3>1. place[x] # None /\ place'[x].candidate = place[x].candidate
      BY <1>5, <2>1, <2>4, ImageCandidate DEF PlacedRow
    <3>. QED BY <3>1 DEF EnrolledAreVerified, Kind
  <2>. QED BY <2>1, <2>2, <2>3, <2>4 DEF Placing
<1>. QED BY <1>3, <1>4, <1>5, PlaceCases

LEMMA LookedStep ==
    ASSUME TypeOK, RowInv, AdmittedInv, LookedInv, [Next]_vars
    PROVE  LookedInv'
<1>1. SUFFICES ASSUME NEW q \in Requests, pc'[q] \in {"count", "write", "commit"},
                      asked'[q].kind = "enrol"
               PROVE  /\ candidate'[asked'[q].candidate] # None
                      /\ candidate'[asked'[q].candidate].status = "VERIFIED"
                      /\ sawCapacity'[q] \in Capacities(asked[q].batch)'
  BY DEF LookedInv, Kind
<1>2. asked'[q] = asked[q] /\ asked[q] \in Asks
  <2>1. CASE UNCHANGED vars
    BY <1>1, <2>1 DEF vars, TypeOK
  <2>2. ASSUME NEW r \in Requests, Local(r) \/ Commits(r)
        PROVE  asked'[q] = asked[q] /\ asked[q] \in Asks
    BY <1>1, <2>2, OthersKept, Transitions DEF TypeOK, Steps, Transaction
  <2>. QED BY <2>1, <2>2, NextCases
<1>3. asked[q].candidate \in Candidates /\ asked[q].batch \in Batches
  BY <1>1, <1>2, AskShape
<1>4. /\ candidate[asked[q].candidate] # None
      /\ candidate[asked[q].candidate].status = "VERIFIED"
      /\ sawCapacity'[q] \in Capacities(asked[q].batch)
  <2>1. CASE pc[q] \in {"count", "write", "commit"}
    <3>1. sawCapacity'[q] = sawCapacity[q]
      <4>1. ASSUME NEW r \in Requests, Local(r) \/ Commits(r)
            PROVE  sawCapacity'[q] = sawCapacity[q]
        BY <2>1, <4>1, OthersKept DEF Local, Commits, Send, Check, Begin, References, Look, Count,
           Write, Abort, CommitRegistration, CommitVerification, CommitPlacement, CommitResize,
           Commit
      <4>2. UNCHANGED vars => sawCapacity' = sawCapacity
        BY DEF vars
      <4>. QED BY <4>1, <4>2, NextCases
    <3>. QED BY <1>1, <1>2, <2>1, <3>1 DEF LookedInv, Kind
  <2>2. CASE pc[q] \notin {"count", "write", "commit"}
    <3>1. pc'[q] # pc[q]
      BY <1>1, <2>2
    <3>2. ASSUME NEW r \in Requests, Local(r) \/ Commits(r)
          PROVE  Look(q)
      <4>1. q = r
        BY <3>1, <3>2, OthersKept
      <4>2. Look(q) \/ (Begin(q) /\ ~Placing(q)) \/ (References(q) /\ Kind(q) # "enrol")
        BY <1>1, <2>2, <3>2, <4>1, Transitions DEF Local, Send, Check, Begin, References, Count,
           Write, Abort, Commits, CommitRegistration, CommitVerification, CommitPlacement,
           CommitResize, Commit, Proceed, Goto, TypeOK
      <4>. QED BY <1>1, <1>2, <4>2 DEF Kind, Placing
    <3>3. Look(q)
      BY <3>1, <3>2, NextCases DEF vars
    <3>4. candidate[asked[q].candidate] # None
      BY <1>1, <1>2, <1>3, <3>3, RowsAssumption DEF Look, RowInv, Placing, Kind
    <3>5. /\ candidate[asked[q].candidate].status = "VERIFIED"
          /\ sawCapacity'[q] = capacity[asked[q].batch]
      BY <1>1, <3>3 DEF Look, Proceed, Goto, TypeOK
    <3>. QED BY <1>3, <3>4, <3>5 DEF AdmittedInv
  <2>. QED BY <2>1, <2>2
<1>5. sawCapacity'[q] \in Capacities(asked[q].batch)'
  <2>. PICK b \in Batches : b = asked[q].batch
    BY <1>3
  <2>1. sawCapacity'[q] \in Capacities(b)'
    BY <1>4, TrailGrows
  <2>2. asked'[q].batch = b
    BY <1>2
  <2>. QED BY <2>1, <2>2 DEF Capacities
<1>. QED BY <1>2, <1>3, <1>4, <1>5, CandidatesKept

-----------------------------------------------------------------------------
(* How many rows a batch can have. *)

\* The sets that are counted are finite.
LEMMA SmallSets ==
    ASSUME NEW S, S \subseteq Requests
    PROVE  IsFiniteSet(S) /\ Cardinality(S) \in Nat
BY PoolAssumption, FS_Subset, FS_CardinalityType

LEMMA Fewer ==
    ASSUME NEW S, NEW T, S \subseteq T, T \subseteq Requests
    PROVE  Cardinality(S) <= Cardinality(T)
BY SmallSets, FS_Subset

LEMMA OneMore ==
    ASSUME NEW S, NEW T, NEW x, T \subseteq Requests, S \subseteq T \union {x}
    PROVE  Cardinality(S) <= Cardinality(T) + 1
<1>1. /\ IsFiniteSet(T \union {x}) /\ Cardinality(T \union {x}) \in Nat
      /\ Cardinality(T \union {x}) <= Cardinality(T) + 1 /\ Cardinality(T) \in Nat
  BY SmallSets, AddOne
<1>2. IsFiniteSet(S) /\ Cardinality(S) \in Nat /\ Cardinality(S) <= Cardinality(T \union {x})
  BY <1>1, FS_Subset, FS_CardinalityType
<1>. QED BY <1>1, <1>2

LEMMA OneFewer ==
    ASSUME NEW S, NEW T, NEW x \in T, T \subseteq Requests, S \subseteq T \ {x}
    PROVE  Cardinality(S) + 1 <= Cardinality(T)
<1>1. Cardinality(S) <= Cardinality(T \ {x})
  BY Fewer
<1>2. Cardinality(T \ {x}) = Cardinality(T) - 1
  BY SmallSets, FS_RemoveElement
<1>. QED BY <1>1, <1>2, SmallSets

\* Capacities are numbers.
LEMMA CapacitiesType ==
    ASSUME TypeOK, RowInv, NEW b \in Batches
    PROVE  Capacities(b) \subseteq Nat
<1>1. ASSUME NEW r \in trail, Kind(r) = "resize"
      PROVE  asked[r].capacity \in Nat
  BY <1>1, AskShape DEF TypeOK, RowInv, Kind
<1>. QED BY <1>1, InitialAssumption DEF Capacities

\* A request is admitted by Count and by nothing else.
LEMMA AdmittedCases ==
    ASSUME TypeOK, RowInv, [Next]_vars, NEW b \in Batches
    PROVE  \/ Admitted(b)' \subseteq Admitted(b)
           \/ \E r \in Requests : /\ Count(r) /\ pc'[r] = "write" /\ Kind(r) = "enrol"
                                  /\ asked[r].batch = b
<1>1. SUFFICES ASSUME NEW q \in Requests, q \in Admitted(b)', q \notin Admitted(b)
               PROVE  Count(q) /\ pc'[q] = "write" /\ Kind(q) = "enrol" /\ asked[q].batch = b
  BY DEF Admitted
<1>2. pc'[q] \in {"write", "commit"} /\ asked'[q].kind = "enrol" /\ asked'[q].batch = b
  BY <1>1 DEF Admitted, Kind
<1>3. PICK r \in Requests : Local(r) \/ Commits(r)
  BY <1>1, NextCases DEF vars, Admitted, Kind
<1>4. q = r
  BY <1>1, <1>2, <1>3, OthersKept DEF Admitted, Kind
<1>5. asked'[q] = asked[q] /\ pc[q] \notin {"write", "commit"}
  <2>1. asked'[q] = asked[q]
    BY <1>2, <1>3, <1>4, OthersKept, Transitions
  <2>. QED BY <1>1, <1>2, <2>1 DEF Admitted, Kind
<1>6. Count(q) \/ (Begin(q) /\ ~Placing(q)) \/ (References(q) /\ Kind(q) # "enrol")
  BY <1>2, <1>3, <1>4, <1>5, Transitions DEF Local, Send, Check, Begin, References, Look,
     Write, Abort, Commits, CommitRegistration, CommitVerification, CommitPlacement,
     CommitResize, Commit, Proceed, Goto, TypeOK
<1>. QED BY <1>2, <1>3, <1>4, <1>5, <1>6, Transitions DEF Kind, Placing, Count

\* A step keeps the bound when rows and admitted creations together grow by no
\* more than the moves do.
LEMMA BoundKept ==
    ASSUME TypeOK, RowInv, [Next]_vars, NEW b \in Batches, NEW n \in Nat, NEW m \in Nat,
           WithinBound(b, n),
           m + Cardinality(MovedInto(b)) <= n + Cardinality(MovedInto(b)')
    PROVE  WithinBound(b, m)'
<1>1. PICK c \in Capacities(b) : n <= c + (PoolSize - 1) + Cardinality(MovedInto(b))
  BY DEF WithinBound
<1>2. c \in Capacities(b)' /\ c \in Nat
  BY TrailGrows, CapacitiesType
<1>3. Cardinality(MovedInto(b)) \in Nat /\ Cardinality(MovedInto(b)') \in Nat
  <2>1. MovedInto(b) \subseteq Requests /\ MovedInto(b)' \subseteq Requests
    BY TypeStep DEF MovedInto, TypeOK
  <2>. QED BY <2>1, SmallSets
<1>4. m <= c + (PoolSize - 1) + Cardinality(MovedInto(b)')
  BY <1>1, <1>2, <1>3, PoolAssumption
<1>. QED BY <1>2, <1>4 DEF WithinBound

\* Passing the check: the rows were fewer than a capacity of the batch, and
\* each creation past the check has a connection.
LEMMA AdmittedByCount ==
    ASSUME TypeOK, RowInv, PoolInv, AdmittedInv, LookedInv, [Next]_vars, NEW b \in Batches,
           NEW r \in Requests, Count(r), pc'[r] = "write", Kind(r) = "enrol", asked[r].batch = b
    PROVE  WithinBound(b, Cardinality(InBatch(b)) + Cardinality(Admitted(b)))'
<1>1. /\ InBatch(b)' = InBatch(b)
      /\ Cardinality(InBatch(b)) < sawCapacity[r]
      /\ pc[r] = "count"
  BY DEF Count, Proceed, Goto, InBatch, TypeOK, dbVars
<1>2. Cardinality(Admitted(b)') <= PoolSize
  <2>1. Admitted(b)' \subseteq Open' /\ Open' \subseteq Requests
    BY DEF Admitted, Open, Transaction
  <2>2. Cardinality(Open') <= PoolSize
    BY PoolStep DEF PoolInv
  <2>. QED BY <2>1, <2>2, SmallSets, Fewer, PoolAssumption
<1>3. sawCapacity[r] \in Capacities(b)
  BY <1>1 DEF LookedInv
<1>4. sawCapacity[r] \in Capacities(b)' /\ sawCapacity[r] \in Nat
  BY <1>3, TrailGrows, CapacitiesType
<1>5. /\ Cardinality(InBatch(b)) \in Nat /\ Cardinality(Admitted(b)') \in Nat
      /\ Cardinality(MovedInto(b)') \in Nat
  <2>1. InBatch(b) \subseteq Requests /\ Admitted(b)' \subseteq Requests
        /\ MovedInto(b)' \subseteq Requests
    BY TypeStep DEF InBatch, Admitted, MovedInto, TypeOK
  <2>. QED BY <2>1, SmallSets
<1>6. Cardinality(InBatch(b)') + Cardinality(Admitted(b)')
        <= sawCapacity[r] + (PoolSize - 1) + Cardinality(MovedInto(b)')
  BY <1>1, <1>2, <1>4, <1>5, PoolAssumption
<1>. QED BY <1>4, <1>6 DEF WithinBound

LEMMA AdmittedStep ==
    ASSUME TypeOK, RowInv, PoolInv, AdmittedInv, LookedInv, [Next]_vars
    PROVE  AdmittedInv'
<1>1. ASSUME NEW b \in Batches
      PROVE  capacity'[b] \in Capacities(b)'
  <2>1. capacity[b] \in Capacities(b)'
    BY TrailGrows DEF AdmittedInv
  <2>2. ASSUME NEW r \in Requests, CommitResize(r)
        PROVE  capacity'[b] = capacity[b] \/ capacity'[b] \in Capacities(b)'
    <3>1. CASE asked[r].batch # b
      BY <2>2, <3>1 DEF CommitResize, TypeOK
    <3>2. CASE asked[r].batch = b
      <4>1. capacity'[b] = asked'[r].capacity /\ r \in trail' /\ asked'[r].batch = b
            /\ asked'[r].kind = "resize"
        BY <2>2, <3>2 DEF CommitResize, Commit, TypeOK, Kind
      <4>. QED BY <4>1 DEF Capacities, Kind
    <3>. QED BY <3>1, <3>2
  <2>3. capacity' = capacity \/ \E r \in Requests : CommitResize(r)
    <3>1. ASSUME NEW r \in Requests, Local(r)
          PROVE  capacity' = capacity
      BY <3>1, LocalKeepsDatabase DEF dbVars
    <3>. QED BY <3>1, NextCases DEF Commits, CommitRegistration, CommitVerification,
                                    CommitPlacement, vars, dbVars
  <2>. QED BY <2>1, <2>2, <2>3
<1>2. ASSUME NEW b \in Batches
      PROVE  WithinBound(b, Cardinality(InBatch(b)) + Cardinality(Admitted(b)))'
  <2>. DEFINE rows == Cardinality(InBatch(b)) + Cardinality(Admitted(b))
  <2>1. WithinBound(b, rows)
    BY DEF AdmittedInv
  <2>2. /\ InBatch(b) \subseteq Requests /\ InBatch(b)' \subseteq Requests
        /\ Admitted(b) \subseteq Requests /\ Admitted(b)' \subseteq Requests
        /\ MovedInto(b) \subseteq Requests /\ MovedInto(b)' \subseteq Requests
    BY TypeStep DEF InBatch, Admitted, MovedInto, TypeOK
  <2>3. /\ Cardinality(InBatch(b)) \in Nat /\ Cardinality(InBatch(b)') \in Nat
        /\ Cardinality(Admitted(b)) \in Nat /\ Cardinality(Admitted(b)') \in Nat
        /\ Cardinality(MovedInto(b)) \in Nat /\ Cardinality(MovedInto(b)') \in Nat
        /\ Cardinality(MovedInto(b)) <= Cardinality(MovedInto(b)')
    BY <2>2, SmallSets, TrailGrows, Fewer
  <2>. DEFINE now == Cardinality(InBatch(b)') + Cardinality(Admitted(b)')
  <2>4. ASSUME now + Cardinality(MovedInto(b)) <= rows + Cardinality(MovedInto(b)')
        PROVE  WithinBound(b, Cardinality(InBatch(b)) + Cardinality(Admitted(b)))'
    <3>1. rows \in Nat /\ now \in Nat
      BY <2>3
    <3>2. \A m \in Nat :
            m + Cardinality(MovedInto(b)) <= rows + Cardinality(MovedInto(b)') => WithinBound(b, m)'
      <4>. HIDE DEF rows
      <4>. QED BY <2>1, <3>1, BoundKept
    <3>3. PICK m \in Nat : m = now
      BY <3>1
    <3>4. WithinBound(b, m)'
      BY <2>4, <3>2, <3>3
    <3>. QED BY <3>3, <3>4 DEF WithinBound
  <2>5. CASE \E r \in Requests : /\ Count(r) /\ pc'[r] = "write" /\ Kind(r) = "enrol"
                                 /\ asked[r].batch = b
    BY <2>5, AdmittedByCount
  <2>6. ASSUME Admitted(b)' \subseteq Admitted(b), InBatch(b)' \subseteq InBatch(b)
        PROVE  WithinBound(b, Cardinality(InBatch(b)) + Cardinality(Admitted(b)))'
    <3>1. Cardinality(Admitted(b)') <= Cardinality(Admitted(b))
          /\ Cardinality(InBatch(b)') <= Cardinality(InBatch(b))
      BY <2>2, <2>6, Fewer
    <3>. QED BY <2>3, <2>4, <3>1
  <2>7. ASSUME Admitted(b)' \subseteq Admitted(b), NEW r \in Requests, CommitPlacement(r)
        PROVE  WithinBound(b, Cardinality(InBatch(b)) + Cardinality(Admitted(b)))'
    <3>1. /\ pc[r] = "commit" /\ pc'[r] = "done" /\ Placing(r) /\ trail' = trail \union {r}
          /\ asked' = asked /\ asked[r] \in Asks
      BY <2>7, CommitFacts DEF CommitPlacement, Commits
    <3>2. \A x \in Requests : place'[x] = IF x = PlacedRow(r) THEN Image(r) ELSE place[x]
      BY <2>7 DEF CommitPlacement, TypeOK
    <3>3. InBatch(b)' \subseteq InBatch(b) \union {PlacedRow(r)}
      BY <3>2 DEF InBatch
    <3>4. Cardinality(InBatch(b)') <= Cardinality(InBatch(b)) + 1
      BY <2>2, <3>3, OneMore
    <3>5. CASE Kind(r) = "enrol" /\ asked[r].batch = b
      <4>1. r \in Admitted(b) /\ r \notin Admitted(b)'
        BY <3>1, <3>5 DEF Admitted
      <4>2. Cardinality(Admitted(b)') + 1 <= Cardinality(Admitted(b))
        BY <2>2, <2>7, <4>1, OneFewer
      <4>. QED BY <2>3, <2>4, <3>4, <4>2
    <3>6. CASE Kind(r) = "move" /\ asked[r].batch = b
      <4>1. r \notin MovedInto(b) /\ r \in MovedInto(b)'
        BY <3>1, <3>6 DEF MovedInto, RowInv, Kind
      <4>2. MovedInto(b) \subseteq MovedInto(b)' \ {r}
        BY <4>1, TrailGrows
      <4>3. Cardinality(MovedInto(b)) + 1 <= Cardinality(MovedInto(b)')
        BY <2>2, <4>1, <4>2, OneFewer
      <4>4. Cardinality(Admitted(b)') <= Cardinality(Admitted(b))
        BY <2>2, <2>7, Fewer
      <4>. QED BY <2>3, <2>4, <3>4, <4>3, <4>4
    <3>7. CASE asked[r].batch # b
      <4>1. Image(r).batch = b =>
                PlacedRow(r) \in Requests /\ place[PlacedRow(r)] # None
                /\ place[PlacedRow(r)].batch = b
        BY <3>1, <3>7, AskShape, RowsAssumption
           DEF Image, Moved, Merge, PlacedRow, Placing, Kind, RowInv, Transaction
      <4>2. InBatch(b)' \subseteq InBatch(b)
        BY <3>2, <4>1 DEF InBatch
      <4>. QED BY <2>6, <2>7, <4>2
    <3>. QED BY <3>1, <3>5, <3>6, <3>7 DEF Placing
  <2>8. place' = place \/ \E r \in Requests : CommitPlacement(r)
    <3>1. ASSUME NEW r \in Requests, Local(r)
          PROVE  place' = place
      BY <3>1, LocalKeepsDatabase DEF dbVars
    <3>. QED BY <3>1, NextCases DEF Commits, CommitRegistration, CommitVerification,
                                    CommitResize, vars, dbVars
  <2>9. place' = place => InBatch(b)' \subseteq InBatch(b)
    BY DEF InBatch
  <2>. QED BY <2>5, <2>6, <2>7, <2>8, <2>9, AdmittedCases
<1>. QED BY <1>1, <1>2 DEF AdmittedInv

-----------------------------------------------------------------------------
(* Unique keys. *)

\* While its write is open, a request keeps its row and its image.
LEMMA ImageKept ==
    ASSUME TypeOK, RowInv, OpenWriteInv, [Next]_vars, NEW r \in Requests, pc'[r] = "commit"
    PROVE  /\ asked'[r] = asked[r] /\ Kind(r)' = Kind(r) /\ Placing(r)' = Placing(r)
           /\ PlacedRow(r)' = PlacedRow(r)
           /\ Placing(r) => Image(r)' = Image(r)
           /\ pc[r] = "commit" \/ Write(r)
<1>1. asked'[r] = asked[r] /\ (pc[r] = "commit" \/ Write(r))
  <2>1. CASE UNCHANGED vars
    BY <2>1 DEF vars
  <2>2. ASSUME NEW s \in Requests, Local(s) \/ Commits(s)
        PROVE  asked'[r] = asked[r] /\ (pc[r] = "commit" \/ Write(r))
    <3>1. asked'[r] = asked[r] /\ (pc[r] = "commit" \/ (s = r /\ pc[r] = "write"))
      BY <2>2, OthersKept, Transitions DEF TypeOK, Steps, Transaction
    <3>2. s = r /\ pc[r] = "write" => Write(r)
      BY <2>2 DEF Local, Send, Check, Begin, References, Look, Count, Abort, Commits,
         CommitRegistration, CommitVerification, CommitPlacement, CommitResize, Commit,
         Proceed, Goto, TypeOK
    <3>. QED BY <3>1, <3>2
  <2>. QED BY <2>1, <2>2, NextCases
<1>2. Kind(r)' = Kind(r) /\ Placing(r)' = Placing(r) /\ PlacedRow(r)' = PlacedRow(r)
  BY <1>1 DEF Kind, Placing, PlacedRow
<1>3. ASSUME Placing(r)
      PROVE  Image(r)' = Image(r)
  <2>1. CASE place' = place
    BY <1>1, <1>2, <2>1 DEF Image, Kind
  <2>2. ASSUME NEW s \in Requests, CommitPlacement(s)
        PROVE  Image(r)' = Image(r)
    <3>1. s # r /\ pc[r] = "commit" /\ pc[s] = "commit" /\ Placing(s)
      BY <1>1, <2>2 DEF CommitPlacement, Commit, Goto, Write, TypeOK, Proceed
    <3>2. PlacedRow(s) # PlacedRow(r)
      BY <1>3, <3>1 DEF OpenWriteInv
    <3>3. Kind(r) = "move" => place'[asked[r].row] = place[asked[r].row]
      BY <2>2, <3>2 DEF CommitPlacement, PlacedRow, TypeOK
    <3>. QED BY <1>1, <1>2, <1>3, <3>3 DEF Image, Placing, Kind
  <2>3. place' = place \/ \E s \in Requests : CommitPlacement(s)
    <3>1. ASSUME NEW s \in Requests, Local(s)
          PROVE  place' = place
      BY <3>1, LocalKeepsDatabase DEF dbVars
    <3>. QED BY <3>1, NextCases DEF Commits, CommitRegistration, CommitVerification,
                                    CommitResize, vars, dbVars
  <2>. QED BY <2>1, <2>2, <2>3
<1>. QED BY <1>1, <1>2, <1>3

\* A mobile number in use after a step was in use before it, or belongs to the
\* registration that commits.
LEMMA MobileCases ==
    ASSUME TypeOK, RowInv, [Next]_vars, NEW c \in Candidates, candidate'[c] # None
    PROVE  \/ candidate[c] # None /\ candidate'[c].mobile = candidate[c].mobile
           \/ CommitRegistration(c) /\ c \in Requests /\ candidate'[c].mobile = asked[c].mobile
<1>1. CASE candidate[c] # None
  BY <1>1, CandidatesKept
<1>2. CASE candidate[c] = None
  <2>1. ASSUME NEW r \in Requests, Local(r)
        PROVE  candidate' = candidate
    BY <2>1, LocalKeepsDatabase DEF dbVars
  <2>2. ASSUME NEW r \in Requests, CommitVerification(r)
        PROVE  candidate'[c] = candidate[c]
    BY <1>2, <2>2 DEF CommitVerification, Commit, RowInv, TypeOK, Transaction
  <2>3. PICK r \in Requests : CommitRegistration(r)
    BY <1>2, <2>1, <2>2, NextCases DEF Commits, CommitPlacement, CommitResize, vars, dbVars
  <2>4. c = r
    BY <1>2, <2>3 DEF CommitRegistration, TypeOK, Candidates
  <2>5. candidate'[c].mobile = asked[c].mobile
    BY <2>3, <2>4 DEF CommitRegistration, TypeOK, Candidates
  <2>. QED BY <2>3, <2>4, <2>5
<1>. QED BY <1>1, <1>2

LEMMA NoDuplicatesStep ==
    ASSUME TypeOK, RowInv, OpenWriteInv, NoDuplicates, [Next]_vars
    PROVE  NoDuplicates'
<1>1. ASSUME NEW c \in Candidates, NEW d \in Candidates, candidate'[c] # None,
             candidate'[d] # None, candidate'[c].mobile = candidate'[d].mobile
      PROVE  c = d
  <2>1. ASSUME NEW a \in Candidates, NEW r \in Requests, CommitRegistration(r),
               candidate[a] # None
        PROVE  candidate[a].mobile # asked[r].mobile
    BY <2>1 DEF OpenWriteInv, PlaceKeyTaken, MobileKeyTaken, MobileTaken, CommitRegistration, Commit
  <2>2. ASSUME NEW r \in Requests, NEW s \in Requests, CommitRegistration(r),
               CommitRegistration(s)
        PROVE  r = s
    BY <2>2 DEF CommitRegistration, Commit, Goto, TypeOK
  <2>3. CASE candidate[c] # None /\ candidate'[c].mobile = candidate[c].mobile
    BY <1>1, <2>1, <2>3, MobileCases DEF NoDuplicates
  <2>4. CASE CommitRegistration(c) /\ c \in Requests /\ candidate'[c].mobile = asked[c].mobile
    BY <1>1, <2>1, <2>2, <2>4, MobileCases
  <2>. QED BY <1>1, <2>3, <2>4, MobileCases
<1>2. ASSUME NEW x \in Requests, NEW y \in Requests, place'[x] # None, place'[x] = place'[y]
      PROVE  x = y
  <2>1. ASSUME NEW r \in Requests, CommitPlacement(r), NEW z \in Requests, z # PlacedRow(r)
        PROVE  place[z] # Image(r) /\ place'[z] = place[z]
    BY <2>1 DEF OpenWriteInv, PlaceKeyTaken, MobileKeyTaken, CommitPlacement, Commit, TypeOK
  <2>2. ASSUME NEW r \in Requests, CommitPlacement(r)
        PROVE  x = y
    <3>1. place'[PlacedRow(r)] = Image(r) \/ PlacedRow(r) \notin Requests
      BY <2>2 DEF CommitPlacement, TypeOK
    <3>. QED BY <1>2, <2>1, <2>2, <3>1 DEF NoDuplicates
  <2>3. CASE place' = place
    BY <1>2, <2>3 DEF NoDuplicates
  <2>4. place' = place \/ \E r \in Requests : CommitPlacement(r)
    <3>1. ASSUME NEW r \in Requests, Local(r)
          PROVE  place' = place
      BY <3>1, LocalKeepsDatabase DEF dbVars
    <3>. QED BY <3>1, NextCases DEF Commits, CommitRegistration, CommitVerification,
                                    CommitResize, vars, dbVars
  <2>. QED BY <2>2, <2>3, <2>4
<1>. QED BY <1>1, <1>2 DEF NoDuplicates

LEMMA OpenWriteStep ==
    ASSUME TypeOK, RowInv, OpenWriteInv, [Next]_vars
    PROVE  OpenWriteInv'
<1>1. ASSUME NEW r \in Requests, pc'[r] = "commit"
      PROVE  ~PlaceKeyTaken(r) /\ ~MobileKeyTaken(r)
  BY <1>1, ImageKept DEF OpenWriteInv, Write, Proceed, Goto, TypeOK
<1>2. ASSUME NEW r \in Requests, pc'[r] = "commit", NEW q \in Requests \ {r}, pc[q] = "commit"
      PROVE  /\ Placing(q) /\ Placing(r) => PlacedRow(q) # PlacedRow(r) /\ Image(q) # Image(r)
             /\ Kind(q) = "register" /\ Kind(r) = "register" => asked[q].mobile # asked[r].mobile
  <2>1. CASE pc[r] = "commit"
    BY <1>2, <2>1 DEF OpenWriteInv
  <2>2. CASE Write(r)
    BY <1>2, <2>2 DEF Write, Blocks
  <2>. QED BY <1>2, <2>1, <2>2, ImageKept
<1>3. ASSUME NEW r \in Requests, pc'[r] = "commit"
      PROVE  (~PlaceKeyTaken(r) /\ ~MobileKeyTaken(r))'
  <2>1. ASSUME Placing(r), NEW x \in Requests \ {PlacedRow(r)}
        PROVE  place'[x] # Image(r)
    <3>1. CASE place'[x] = place[x]
      BY <1>1, <1>3, <2>1, <3>1 DEF PlaceKeyTaken, MobileKeyTaken
    <3>2. ASSUME NEW s \in Requests, CommitPlacement(s), place'[x] = Image(s)
          PROVE  place'[x] # Image(r)
      <4>1. s # r /\ pc[s] = "commit" /\ Placing(s)
        BY <1>3, <3>2 DEF CommitPlacement, Commit, Goto, TypeOK
      <4>. QED BY <1>2, <1>3, <2>1, <3>2, <4>1
    <3>. QED BY <2>1, <3>1, <3>2, PlaceCases
  <2>2. ASSUME Kind(r) = "register", NEW c \in Candidates, candidate'[c] # None
        PROVE  candidate'[c].mobile # asked[r].mobile
    <3>1. CASE candidate[c] # None /\ candidate'[c].mobile = candidate[c].mobile
      BY <1>1, <1>3, <2>2, <3>1 DEF PlaceKeyTaken, MobileKeyTaken, MobileTaken
    <3>2. CASE CommitRegistration(c) /\ c \in Requests /\ candidate'[c].mobile = asked[c].mobile
      <4>1. c # r /\ pc[c] = "commit" /\ Kind(c) = "register"
        BY <1>3, <3>2 DEF CommitRegistration, Commit, Goto, TypeOK
      <4>. QED BY <1>2, <1>3, <2>2, <3>2, <4>1
    <3>. QED BY <2>2, <3>1, <3>2, MobileCases
  <2>. QED BY <1>3, <2>1, <2>2, ImageKept DEF PlaceKeyTaken, MobileKeyTaken, MobileTaken
<1>4. ASSUME NEW r \in Requests, pc'[r] = "commit", NEW q \in Requests \ {r}, pc'[q] = "commit"
      PROVE  /\ Placing(q) /\ Placing(r) => PlacedRow(q) # PlacedRow(r) /\ Image(q) # Image(r)
             /\ Kind(q) = "register" /\ Kind(r) = "register" => asked[q].mobile # asked[r].mobile
  <2>1. pc[q] = "commit" \/ pc[r] = "commit"
    <3>1. (pc[q] = "commit" \/ Write(q)) /\ (pc[r] = "commit" \/ Write(r))
      BY <1>4, ImageKept
    <3>2. ~(Write(q) /\ Write(r))
      BY <1>4 DEF Write, Proceed, Goto, TypeOK
    <3>. QED BY <3>1, <3>2
  <2>. QED BY <1>2, <1>4, <2>1
<1>5. ASSUME NEW r \in Requests, pc'[r] = "commit", NEW q \in Requests \ {r}, pc'[q] = "commit"
      PROVE  /\ (Placing(q) /\ Placing(r))' =>
                    PlacedRow(q)' # PlacedRow(r)' /\ Image(q)' # Image(r)'
             /\ (Kind(q) = "register" /\ Kind(r) = "register")' =>
                    asked'[q].mobile # asked'[r].mobile
  BY <1>4, <1>5, ImageKept
<1>. QED BY <1>3, <1>5 DEF OpenWriteInv

-----------------------------------------------------------------------------
(* The theorems. *)

LEMMA InitInvariant == Init => IInv
<1> SUFFICES ASSUME Init PROVE IInv
  OBVIOUS
<1>1. TypeOK
  BY InitialAssumption DEF Init, TypeOK, Candidates, Steps
<1>2. PoolInv
  <2>1. Open = {}
    BY DEF Init, Open, Transaction
  <2>. QED BY <2>1, FS_EmptySet, PoolAssumption DEF PoolInv
<1>3. RowInv /\ ReferenceInv /\ LookedInv /\ OpenWriteInv /\ EnrolledAreVerified
  BY RowsAssumption DEF Init, RowInv, ReferenceInv, LookedInv, OpenWriteInv, EnrolledAreVerified,
                        Candidates, Transaction
<1>4. AdmittedInv
  <2>1. ASSUME NEW b \in Batches
        PROVE  /\ capacity[b] \in Capacities(b)
               /\ Cardinality(InBatch(b)) = 0 /\ Cardinality(Admitted(b)) = 0
               /\ Cardinality(MovedInto(b)) = 0 /\ capacity[b] \in Nat
    <3>1. InBatch(b) = {} /\ Admitted(b) = {} /\ MovedInto(b) = {}
      BY DEF Init, InBatch, Admitted, MovedInto
    <3>. QED BY <3>1, FS_EmptySet, InitialAssumption DEF Init, Capacities
  <2>. QED BY <2>1, PoolAssumption DEF AdmittedInv, WithinBound
<1>5. NoDuplicates
  BY InitialAssumption, RowsAssumption DEF Init, NoDuplicates, Candidates
<1>. QED BY <1>1, <1>2, <1>3, <1>4, <1>5 DEF IInv

\* The inductive invariant, for any requests, batches and pool.
THEOREM Invariance == Spec => []IInv
<1>1. Init => IInv
  BY InitInvariant
<1>2. IInv /\ [Next]_vars => IInv'
  BY TypeStep, PoolStep, RowStep, ReferenceStep, LookedStep, AdmittedStep, EnrolledStep,
     OpenWriteStep, NoDuplicatesStep DEF IInv
<1>. QED BY <1>1, <1>2, PTL DEF Spec

\* Type correctness.
THEOREM TypeCorrect == Spec => []TypeOK
<1>1. IInv => TypeOK
  BY DEF IInv
<1>. QED BY <1>1, Invariance, PTL

\* Whatever requests race, a batch has at most as many rows as a capacity it
\* has had, the other connections of the pool and the moves into it.
THEOREM OverbookingIsBounded == Spec => []OverbookingBounded
<1>1. ASSUME IInv
      PROVE  OverbookingBounded
  <2>1. SUFFICES ASSUME NEW b \in Batches
                 PROVE  WithinBound(b, Cardinality(InBatch(b)))
    BY DEF OverbookingBounded
  <2>2. PICK c \in Capacities(b) : Cardinality(InBatch(b)) + Cardinality(Admitted(b))
                                     <= c + (PoolSize - 1) + Cardinality(MovedInto(b))
    BY <1>1 DEF IInv, AdmittedInv, WithinBound
  <2>3. /\ InBatch(b) \subseteq Requests /\ Admitted(b) \subseteq Requests
        /\ MovedInto(b) \subseteq Requests /\ c \in Nat
    BY <1>1, CapacitiesType DEF IInv, TypeOK, InBatch, Admitted, MovedInto
  <2>4. Cardinality(InBatch(b)) <= c + (PoolSize - 1) + Cardinality(MovedInto(b))
    BY <2>2, <2>3, SmallSets, PoolAssumption
  <2>. QED BY <2>4 DEF WithinBound
<1>. QED BY <1>1, Invariance, PTL

\* Only an update of the enrolment puts an unverified candidate in a batch.
THEOREM EnrolmentNeedsVerification == Spec => []EnrolledAreVerified
<1>1. IInv => EnrolledAreVerified
  BY DEF IInv
<1>. QED BY <1>1, Invariance, PTL

\* One candidate per mobile number, one row per candidate and batch.
THEOREM KeysAreUnique == Spec => []NoDuplicates
<1>1. IInv => NoDuplicates
  BY DEF IInv
<1>. QED BY <1>1, Invariance, PTL
=============================================================================
