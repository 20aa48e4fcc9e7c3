------------------------ MODULE StagedRequestsProofs ------------------------
(* Proofs about StagedRequests, for any number of requests, any mix of what   *)
(* they ask for, and any bound on faults.                                     *)
EXTENDS StagedRequests, TLAPS

-----------------------------------------------------------------------------
(* What requests ask for, and where they start. *)

LEMMA AskShape ==
    ASSUME NEW a \in Asks
    PROVE  /\ a.kind \in {"document", "video", "subscribe", "open", "watch", "recommend",
                          "patch", "read"}
           /\ a.kind = "patch" => a.set \in Patches
           /\ a.kind = "read" => a.document \in Requests
           /\ a # NoAsk
<1>1. a \in Shapes
  BY StagedAssumption
<1>2. CASE a \in [kind : {"document", "video", "subscribe", "open", "watch", "recommend"}]
  BY <1>2 DEF NoAsk
<1>3. CASE a \in [kind : {"patch"}, set : Patches]
  BY <1>3 DEF NoAsk
<1>4. CASE a \in [kind : {"read"}, document : Requests]
  BY <1>4 DEF NoAsk
<1>. QED BY <1>1, <1>2, <1>3, <1>4 DEF Shapes

\* The columns of a PATCH.
LEMMA PatchShape ==
    ASSUME NEW set \in Patches
    PROVE  /\ "key" \in DOMAIN set => set.key \in Keys \union {None}
           /\ "url" \in DOMAIN set => set.url \in Urls \union {Blank, None}
           /\ "lesson" \in DOMAIN set => set.lesson \in Urls \union {Typed, None}
           /\ "gated" \in DOMAIN set => set.gated \in BOOLEAN
<1>1. PICK c \in Course, D \in SUBSET {"key", "url", "lesson", "gated"} : set = Restrict(c, D)
  BY DEF Patches
<1>2. DOMAIN set = D /\ \A x \in D : set[x] = c[x]
  BY <1>1 DEF Restrict
<1>. QED BY <1>2 DEF Course

\* One update of the course's row, by what it sets.
LEMMA SaveShape ==
    ASSUME TypeOK, StepInv, FetchInv, LessonMatchesUrl, NEW r \in Requests, Save(r)
    PROVE  /\ course' \in Course
           /\ \/ course'.key = course.key
              \/ Names(ask[r], course'.key) /\ course'.key \in patched' \union {None}
           /\ course.key \in unseen' \union {None, course'.key}
           /\ unseen \subseteq unseen' /\ unseen' \subseteq unseen \union {course.key}
           /\ unfetched' \subseteq Urls
           /\ patched \subseteq patched' /\ patched' \subseteq Keys /\ edited' \in BOOLEAN
           /\ LessonMatchesUrl'
<1>. DEFINE set == ask[r].set
            columns == [c \in DOMAIN course |->
               IF c \in DOMAIN Lesson(r) THEN Lesson(r)[c]
               ELSE IF c \in DOMAIN set THEN set[c] ELSE course[c]]
<1>1. /\ course' = columns
      /\ unseen' = unseen \union ({course.key} \ {None, columns.key})
      /\ unfetched' = IF ~Fetches(ask[r]) THEN unfetched
                      ELSE IF fetched[r] = None THEN unfetched \union {set.url}
                      ELSE unfetched \ {set.url}
      /\ patched' = patched \union {k \in Keys : Names(ask[r], k)}
      /\ edited' = /\ "lesson" \notin DOMAIN Lesson(r)
                   /\ "lesson" \in DOMAIN set \/ edited
      /\ pc[r] = "save"
  BY DEF Save
<1>2. /\ course \in Course /\ DOMAIN course = {"key", "url", "lesson", "gated"}
      /\ course.key \in Keys \union {None} /\ course.url \in Urls \union {Blank, None}
      /\ course.lesson \in Urls \union {Typed, None} /\ course.gated \in BOOLEAN
      /\ fetched[r] \in Urls \union {None} /\ unfetched \subseteq Urls /\ patched \subseteq Keys
  BY DEF TypeOK, Course
<1>3. ask[r].kind = "patch" /\ set \in Patches
  BY <1>1, AskShape DEF StepInv, TypeOK, Does, NoAsk
<1>4. /\ "key" \in DOMAIN set => set.key \in Keys \union {None}
      /\ "url" \in DOMAIN set => set.url \in Urls \union {Blank, None}
      /\ "lesson" \in DOMAIN set => set.lesson \in Urls \union {Typed, None}
      /\ "gated" \in DOMAIN set => set.gated \in BOOLEAN
  BY <1>3, PatchShape
<1>5. \/ DOMAIN Lesson(r) = {} /\ fetched[r] = None /\ ~("url" \in DOMAIN set /\ set.url = None)
      \/ DOMAIN Lesson(r) = {"lesson"} /\ Lesson(r).lesson = fetched[r] /\ fetched[r] # None
      \/ DOMAIN Lesson(r) = {"lesson"} /\ Lesson(r).lesson = None /\ fetched[r] = None
         /\ "url" \in DOMAIN set /\ set.url = None
  BY DEF Lesson
<1>6. /\ course'.key = IF "key" \in DOMAIN set THEN set.key ELSE course.key
      /\ course'.url = IF "url" \in DOMAIN set THEN set.url ELSE course.url
      /\ course'.gated = IF "gated" \in DOMAIN set THEN set.gated ELSE course.gated
      /\ course'.lesson = IF "lesson" \in DOMAIN Lesson(r) THEN Lesson(r).lesson
                          ELSE IF "lesson" \in DOMAIN set THEN set.lesson ELSE course.lesson
      /\ course' = [key |-> course'.key, url |-> course'.url, lesson |-> course'.lesson,
                    gated |-> course'.gated]
  BY <1>1, <1>2, <1>5 DEF Course
<1>7. course' \in Course
  BY <1>2, <1>4, <1>5, <1>6 DEF Course
<1>8. /\ fetched[r] # None => Fetches(ask[r]) /\ fetched[r] = set.url
      /\ Fetches(ask[r]) <=> "url" \in DOMAIN set /\ set.url \in Urls
  BY DEF FetchInv, Fetches
<1>9. LessonMatchesUrl'
  <2>1. CASE fetched[r] # None
    BY <1>5, <1>6, <1>8, <2>1 DEF LessonMatchesUrl
  <2>2. CASE fetched[r] = None /\ "url" \in DOMAIN set /\ set.url = None
    BY <1>5, <1>6, <2>2 DEF LessonMatchesUrl
  <2>3. CASE DOMAIN Lesson(r) = {} /\ "lesson" \in DOMAIN set
    BY <1>1, <2>3 DEF LessonMatchesUrl
  <2>4. CASE DOMAIN Lesson(r) = {} /\ "lesson" \notin DOMAIN set /\ "url" \in DOMAIN set
    BY <1>1, <1>4, <1>5, <1>6, <1>8, <2>4 DEF LessonMatchesUrl
  <2>5. CASE DOMAIN Lesson(r) = {} /\ "lesson" \notin DOMAIN set /\ "url" \notin DOMAIN set
    <3>1. course'.url = course.url /\ course'.lesson = course.lesson /\ unfetched' = unfetched
      BY <1>1, <1>6, <1>8, <2>5
    <3>2. edited => edited'
      BY <1>1, <2>5
    <3>. QED BY <3>1, <3>2 DEF LessonMatchesUrl
  <2>. QED BY <1>5, <2>1, <2>2, <2>3, <2>4, <2>5
<1>10. \/ course'.key = course.key
       \/ Names(ask[r], course'.key) /\ course'.key \in patched' \union {None}
  BY <1>1, <1>3, <1>4, <1>6 DEF Names
<1>11. edited' \in BOOLEAN
  <2>1. edited \in BOOLEAN
    BY DEF TypeOK
  <2>. QED BY <1>1, <2>1, Zenon
<1>. QED BY <1>1, <1>2, <1>6, <1>7, <1>8, <1>9, <1>10, <1>11

-----------------------------------------------------------------------------
(* Frame facts. *)

Step(r) == (\E a \in Asks : Arrive(r, a)) \/ Serve(r)

LEMMA NextSteps ==
    ASSUME [Next]_vars
    PROVE  UNCHANGED vars \/ \E r \in Requests : Step(r)
BY DEF Next, Step

LEMMA Unchanged ==
    ASSUME UNCHANGED vars
    PROVE  /\ UNCHANGED <<objects, documents, course, subscribed, recommended, trail>>
           /\ UNCHANGED <<pc, ask, found, member, sought, fetched>>
           /\ UNCHANGED <<faulty, lost, stray, unseen, unfetched, patched, edited>>
BY DEF vars, data, locals, history

\* Steps that only look, or only move on.
Looks(r) == Look(r) \/ ReadCourse(r) \/ ReadSubscription(r) \/ ReadRow(r) \/ GetObject(r)
            \/ Fetch(r) \/ FetchFails(r) \/ Die(r) \/ DeleteFails(r)
Stores(r)  == Put(r) \/ PutFails(r) \/ Delete(r)
Commits(r) == Commit(r) \/ CommitFails(r)
Acts(r)    == Upsert(r) \/ Recommend(r) \/ Audit(r)

LEMMA StepKinds ==
    ASSUME NEW r \in Requests, Step(r)
    PROVE  (\E a \in Asks : Arrive(r, a)) \/ Looks(r) \/ Stores(r) \/ Commits(r) \/ Acts(r) \/ Save(r)
BY DEF Step, Serve, Looks, Stores, Commits, Acts

\* A request moves on alone.
LEMMA OthersKept ==
    ASSUME TypeOK, NEW r \in Requests, Step(r), NEW q \in Requests, q # r
    PROVE  /\ pc'[q] = pc[q] /\ ask'[q] = ask[q] /\ found'[q] = found[q]
           /\ member'[q] = member[q] /\ sought'[q] = sought[q] /\ fetched'[q] = fetched[q]
<1>1. CASE \E a \in Asks : Arrive(r, a)
  BY <1>1 DEF TypeOK, Arrive, Goto, locals
<1>2. CASE Looks(r)
  <2>1. CASE Look(r) \/ ReadCourse(r) \/ Fetch(r) \/ ReadSubscription(r) \/ ReadRow(r)
    BY <2>1 DEF TypeOK, Look, ReadCourse, Fetch, ReadSubscription, ReadRow, Goto
  <2>2. CASE GetObject(r) \/ FetchFails(r) \/ Die(r) \/ DeleteFails(r)
    BY <2>2 DEF TypeOK, GetObject, FetchFails, Die, DeleteFails, Goto, locals
  <2>. QED BY <1>2, <2>1, <2>2 DEF Looks
<1>3. CASE Stores(r)
  BY <1>3 DEF TypeOK, Stores, Put, PutFails, Delete, Goto, locals
<1>4. CASE Commits(r) \/ Acts(r) \/ Save(r)
  BY <1>4 DEF TypeOK, Commits, Commit, CommitFails, Acts, Upsert, Recommend, Audit, Save, Goto, locals
<1>. QED BY <1>1, <1>2, <1>3, <1>4, StepKinds

\* What is on record or on the way out stays so.
LEMMA Grows ==
    ASSUME NEW r \in Requests, Step(r)
    PROVE  /\ documents \subseteq documents' /\ recommended \subseteq recommended'
           /\ subscribed => subscribed'
           /\ trail \subseteq trail' /\ trail' \subseteq trail \union {r}
           /\ faulty \subseteq faulty' /\ lost \subseteq lost' /\ lost' \subseteq lost \union {r}
           /\ stray \subseteq stray' /\ unseen \subseteq unseen' /\ patched \subseteq patched'
           /\ objects' \subseteq objects \union {r}
<1>1. CASE \E a \in Asks : Arrive(r, a)
  BY <1>1 DEF Arrive, data, history
<1>2. CASE Looks(r)
  BY <1>2 DEF Looks, Look, ReadCourse, Fetch, ReadSubscription, ReadRow, GetObject, FetchFails,
              Die, DeleteFails, data, history, Blame
<1>3. CASE Stores(r)
  BY <1>3 DEF Stores, Put, PutFails, Delete, Drop, Undo, history, Blame
<1>4. CASE Commits(r)
  BY <1>4 DEF Commits, Commit, CommitFails, Record, Blame
<1>5. CASE Acts(r)
  BY <1>5 DEF Acts, Upsert, Recommend, Audit, history
<1>6. CASE Save(r)
  <2>1. patched \subseteq patched' /\ unseen \subseteq unseen'
    BY <1>6 DEF Save
  <2>. QED BY <1>6, <2>1 DEF Save
<1>. QED BY <1>1, <1>2, <1>3, <1>4, <1>5, <1>6, StepKinds

\* Where a request goes on arrival.
LEMMA FirstSteps ==
    ASSUME NEW a \in Asks
    PROVE  /\ a.kind = "video" => FirstStep(a) = "look"
           /\ a.kind = "document" => FirstStep(a) = "put"
           /\ a.kind = "patch" => FirstStep(a) = IF Fetches(a) THEN "fetch" ELSE "save"
           /\ a.kind = "subscribe" => FirstStep(a) = "upsert"
           /\ a.kind \in {"open", "watch"} => FirstStep(a) = "course"
           /\ a.kind = "read" => FirstStep(a) = "row"
           /\ a.kind = "recommend" => FirstStep(a) = IF Trades = {} THEN "audit" ELSE "trade"
BY AskShape DEF FirstStep

\* Where it goes from there.
LEMMA Routes ==
    ASSUME TypeOK, NEW r \in Requests, Serve(r)
    PROVE  /\ ask'[r] = ask[r]
           /\ pc' = [pc EXCEPT ![r] = pc'[r]]
           /\ pc[r] \notin Over \union {"idle"}
           /\ pc[r] = "look" => pc'[r] \in {"put", "dead"}
           /\ pc[r] = "put" => pc'[r] \in {"commit", "failed", "dead"}
           /\ pc[r] = "commit" => pc'[r] \in {"ok", "undo", "dead"} \/ (pc'[r] = "drop" /\ Does(r, "video"))
           /\ pc[r] = "drop" => pc'[r] \in {"ok", "dead"}
           /\ pc[r] = "undo" => pc'[r] \in {"failed", "dead"}
           /\ pc[r] = "fetch" => pc'[r] \in {"save", "dead"}
           /\ pc[r] = "save" => pc'[r] \in {"ok", "dead"}
           /\ pc[r] = "upsert" => pc'[r] \in {"audit", "dead"}
           /\ pc[r] = "trade" => pc'[r] \in {"trade", "audit", "dead"}
           /\ pc[r] = "audit" => pc'[r] \in {"ok", "dead"} \/ (pc'[r] = "course" /\ Does(r, "subscribe"))
           /\ pc[r] = "course" => pc'[r] \in {"subscription", "dead"}
           /\ pc[r] = "subscription" => pc'[r] \in {"ok", "denied", "dead"}
                                        \/ (pc'[r] = "row" /\ Does(r, "watch"))
           /\ pc[r] = "row" => pc'[r] \in {"get", "denied", "dead"}
           /\ pc[r] = "get" => pc'[r] \in {"ok", "missing", "dead"}
<1>1. CASE Look(r) \/ ReadCourse(r) \/ Fetch(r) \/ ReadSubscription(r) \/ ReadRow(r)
  BY <1>1 DEF TypeOK, Look, ReadCourse, Fetch, ReadSubscription, ReadRow, Goto, Over
<1>2. CASE GetObject(r) \/ FetchFails(r) \/ DeleteFails(r)
  BY <1>2 DEF TypeOK, GetObject, FetchFails, DeleteFails, Goto, Over
<1>3. CASE Die(r)
  BY <1>3 DEF TypeOK, Die, Goto, Over
<1>4. CASE Stores(r)
  BY <1>4 DEF TypeOK, Stores, Put, PutFails, Delete, Goto, Over
<1>5. CASE Commits(r)
  BY <1>5 DEF TypeOK, Commits, Commit, CommitFails, Goto, Over
<1>6. CASE Acts(r) \/ Save(r)
  BY <1>6 DEF TypeOK, Acts, Upsert, Recommend, Audit, Save, Goto, Over
<1>. QED BY <1>1, <1>2, <1>3, <1>4, <1>5, <1>6 DEF Serve, Stores, Commits, Acts

\* How a committed transaction changes the rows.
LEMMA RecordShape ==
    ASSUME TypeOK, StepInv, NEW r \in Requests, pc[r] = "commit", Record(r)
    PROVE  /\ Does(r, "document") => /\ documents' = documents \union {r}
                                     /\ UNCHANGED <<course, unseen>>
           /\ Does(r, "video") => /\ course' = [course EXCEPT !.key = r]
                                  /\ course' \in Course /\ course'.key = r
                                  /\ course'.url = course.url /\ course'.lesson = course.lesson
                                  /\ course.key \in unseen' \union {None, found[r].key}
                                  /\ unseen' \subseteq unseen \union ({course.key} \ {None})
                                  /\ documents' = documents
           /\ Does(r, "document") # Does(r, "video")
           /\ trail' = trail \union {r} /\ unseen \subseteq unseen'
<1>1. course \in Course /\ course.key \in Keys \union {None}
  BY DEF TypeOK, Course
<1>2. Does(r, "document") \/ Does(r, "video")
  BY DEF StepInv
<1>. QED BY <1>1, <1>2 DEF Record, Does, Course, Keys

\* What each request holds in hand, after any step.
LEMMA HandTypes ==
    ASSUME TypeOK, NEW r \in Requests, Step(r)
    PROVE  /\ pc' \in [Requests -> Steps]
           /\ found' \in [Requests -> Course]
           /\ member' \in [Requests -> BOOLEAN]
           /\ sought' \in [Requests -> Keys \union {None}]
<1>1. CASE \E a \in Asks : Arrive(r, a)
  <2>1. PICK a \in Asks : Arrive(r, a)
    BY <1>1
  <2>2. FirstStep(a) \in Steps
    BY FirstSteps, AskShape DEF Steps
  <2>. QED BY <2>1, <2>2 DEF TypeOK, Arrive, Goto, locals
<1>2. CASE Serve(r)
  <2>1. pc' = [pc EXCEPT ![r] = pc'[r]] /\ pc'[r] \in Steps
    BY <1>2, Routes DEF TypeOK, Steps, Over
  <2>2. pc' \in [Requests -> Steps]
    BY <2>1 DEF TypeOK
  <2>3. found' \in [Requests -> Course] /\ (found' = found \/ found' = [found EXCEPT ![r] = course])
    BY <1>2 DEF TypeOK, Serve, Look, Put, PutFails, Commit, CommitFails, Delete, DeleteFails, Fetch,
                FetchFails, Save, Upsert, Recommend, Audit, ReadCourse, ReadSubscription, ReadRow,
                GetObject, Die, locals
  <2>4. member' = member \/ member' = [member EXCEPT ![r] = subscribed]
    BY <1>2 DEF Serve, Look, Put, PutFails, Commit, CommitFails, Delete, DeleteFails, Fetch,
                FetchFails, Save, Upsert, Recommend, Audit, ReadCourse, ReadSubscription, ReadRow,
                GetObject, Die, locals
  <2>5. member' \in [Requests -> BOOLEAN]
    BY <2>4, Zenon DEF TypeOK
  <2>6. sought' \in [Requests -> Keys \union {None}]
    <3>1. CASE ReadRow(r)
      <4>1. course.key \in Keys \union {None} /\ documents \subseteq Keys
        BY DEF TypeOK, Course, Keys
      <4>. QED BY <3>1, <4>1 DEF ReadRow, TypeOK
    <3>2. CASE ~ReadRow(r)
      BY <1>2, <3>2 DEF TypeOK, Serve, Look, Put, PutFails, Commit, CommitFails, Delete, DeleteFails,
                Fetch, FetchFails, Save, Upsert, Recommend, Audit, ReadCourse, ReadSubscription,
                GetObject, Die, locals
    <3>. QED BY <3>1, <3>2
  <2>. QED BY <2>2, <2>3, <2>5, <2>6
<1>. QED BY <1>1, <1>2 DEF Step

LEMMA TypeStep ==
    ASSUME TypeOK, StepInv, DropInv, FetchInv, LessonMatchesUrl, [Next]_vars
    PROVE  TypeOK'
<1>1. CASE UNCHANGED vars
  BY <1>1, Unchanged DEF TypeOK
<1>2. ASSUME NEW r \in Requests, Step(r)
      PROVE  TypeOK'
  <2>1. /\ pc' \in [Requests -> Steps] /\ found' \in [Requests -> Course]
        /\ member' \in [Requests -> BOOLEAN] /\ sought' \in [Requests -> Keys \union {None}]
    BY <1>2, HandTypes
  <2>2. /\ trail' \subseteq Requests /\ lost' \subseteq Keys
        /\ objects' \subseteq Requests \union {Old}
    BY <1>2, Grows DEF TypeOK, Keys
  <2>3. /\ course.key \in Keys \union {None}
        /\ \A q \in Requests : found[q].key \in Keys \union {None}
    BY DEF TypeOK, Course
  <2>4. CASE \E a \in Asks : Arrive(r, a)
    BY <2>1, <2>4 DEF TypeOK, Arrive, data, locals, history
  <2>5. CASE Serve(r)
    <3>1. ask' \in [Requests -> Asks \union {NoAsk}]
      <4>1. ask' = ask
        BY <2>5 DEF Serve, Look, Put, PutFails, Commit, CommitFails, Delete, DeleteFails, Fetch,
                FetchFails, Save, Upsert, Recommend, Audit, ReadCourse, ReadSubscription, ReadRow,
                GetObject, Die
      <4>. QED BY <4>1 DEF TypeOK
    <3>2. faulty' \subseteq Requests
      BY <2>5 DEF TypeOK, Serve, Look, Put, PutFails, Commit, CommitFails, Delete, DeleteFails, Fetch,
                FetchFails, Save, Upsert, Recommend, Audit, ReadCourse, ReadSubscription, ReadRow,
                GetObject, Die, history, Blame
    <3>3. CASE Looks(r)
      <4>1. pc[r] = "drop" => found[r].key \in Keys
        BY <2>3 DEF DropInv
      <4>2. stray' \subseteq Keys
        BY <3>3, <4>1 DEF TypeOK, Keys, Looks, Look, ReadCourse, Fetch, ReadSubscription, ReadRow,
                          GetObject, FetchFails, Die, DeleteFails, history
      <4>3. UNCHANGED <<data, lost, unseen, unfetched, patched, edited>>
        BY <3>3 DEF Looks, Look, ReadCourse, Fetch, ReadSubscription, ReadRow,
                    GetObject, FetchFails, Die, DeleteFails, history
      <4>4. fetched' \in [Requests -> Urls \union {None}]
        <5>1. CASE Fetch(r)
          <6>1. ask[r].set.url \in Urls
            BY <5>1 DEF Fetch, StepInv, Fetches
          <6>. QED BY <5>1, <6>1 DEF Fetch, TypeOK
        <5>2. CASE ~Fetch(r)
          BY <3>3, <5>2 DEF Looks, Look, ReadCourse, ReadSubscription, ReadRow,
                    GetObject, FetchFails, Die, DeleteFails, locals, TypeOK
        <5>. QED BY <5>1, <5>2
      <4>. QED BY <2>1, <3>1, <3>2, <4>2, <4>3, <4>4 DEF TypeOK, data
    <3>4. CASE Stores(r)
      <4>1. UNCHANGED <<documents, course, subscribed, recommended, trail, fetched, lost, unseen, unfetched,
                        patched, edited>>
        BY <3>4 DEF Stores, Put, PutFails, Delete, locals, history
      <4>2. stray' \subseteq Keys
        BY <3>4 DEF Stores, Put, PutFails, Delete, history, TypeOK, Keys
      <4>. QED BY <2>1, <2>2, <3>1, <3>2, <4>1, <4>2 DEF TypeOK
    <3>5. CASE Commits(r)
      <4>1. UNCHANGED <<subscribed, recommended, fetched, unfetched, patched, edited>>
        BY <3>5 DEF Commits, Commit, CommitFails, locals
      <4>2. stray' \subseteq Keys
        BY <2>3, <3>5 DEF Commits, Commit, CommitFails, TypeOK
      <4>3. \/ UNCHANGED <<documents, course, unseen>>
            \/ pc[r] = "commit" /\ Record(r)
        BY <3>5 DEF Commits, Commit, CommitFails
      <4>4. documents' \subseteq Requests /\ course' \in Course /\ unseen' \subseteq Keys
        <5>1. CASE UNCHANGED <<documents, course, unseen>>
          BY <5>1 DEF TypeOK
        <5>2. CASE pc[r] = "commit" /\ Record(r)
          <6>1. CASE Does(r, "document")
            BY <5>2, <6>1, RecordShape DEF TypeOK
          <6>2. CASE Does(r, "video")
            <7>1. /\ course' \in Course /\ documents' = documents
                  /\ unseen' \subseteq unseen \union ({course.key} \ {None})
              BY <5>2, <6>2, RecordShape
            <7>. QED BY <2>3, <7>1 DEF TypeOK
          <6>. QED BY <5>2, <6>1, <6>2 DEF StepInv
        <5>. QED BY <4>3, <5>1, <5>2
      <4>. QED BY <2>1, <2>2, <3>1, <3>2, <4>1, <4>2, <4>4 DEF TypeOK
    <3>6. CASE Acts(r)
      <4>1. UNCHANGED <<objects, documents, course, fetched, lost, stray, unseen, unfetched,
                        patched, edited>>
        BY <3>6 DEF Acts, Upsert, Recommend, Audit, locals, history
      <4>2. recommended' \subseteq Requests \X Trades
        BY <3>6 DEF Acts, Upsert, Recommend, Audit, TypeOK
      <4>3. subscribed' \in {subscribed, TRUE}
        BY <3>6 DEF Acts, Upsert, Recommend, Audit
      <4>4. subscribed' \in BOOLEAN
        BY <4>3, Zenon DEF TypeOK
      <4>. QED BY <2>1, <2>2, <3>1, <3>2, <4>1, <4>2, <4>4 DEF TypeOK
    <3>7. CASE Save(r)
      <4>1. UNCHANGED <<objects, documents, subscribed, recommended, fetched, lost, stray>>
        BY <3>7 DEF Save, locals
      <4>2. course' \in Course /\ unfetched' \subseteq Urls
            /\ patched' \subseteq Keys /\ edited' \in BOOLEAN
            /\ unseen' \subseteq unseen \union {course.key}
        BY <3>7, SaveShape
      <4>3. unseen' \subseteq Keys
        BY <2>3, <3>7 DEF Save, TypeOK
      <4>. QED BY <2>1, <2>2, <3>1, <3>2, <4>1, <4>2, <4>3 DEF TypeOK
    <3>. QED BY <1>2, <3>3, <3>4, <3>5, <3>6, <3>7, StepKinds, <2>4
  <2>. QED BY <1>2, <2>4, <2>5 DEF Step
<1>. QED BY <1>1, <1>2, NextSteps

\* Each kind of request takes its own steps.
LEMMA StepInvStep ==
    ASSUME TypeOK, StepInv, [Next]_vars
    PROVE  StepInv'
<1>1. CASE UNCHANGED vars
  BY <1>1, Unchanged DEF StepInv, Does, Fetches
<1>2. ASSUME NEW r \in Requests, Step(r)
      PROVE  StepInv'
  <2>1. ASSUME NEW q \in Requests, q # r
        PROVE  pc'[q] = pc[q] /\ ask'[q] = ask[q]
    BY <1>2, <2>1, OthersKept
  <2>2. CASE \E a \in Asks : Arrive(r, a)
    <3>1. PICK a \in Asks : Arrive(r, a)
      BY <2>2
    <3>2. pc'[r] = FirstStep(a) /\ ask'[r] = a
      BY <3>1 DEF Arrive, Goto, TypeOK
    <3>3. /\ FirstStep(a) \notin {"idle", "drop", "commit", "undo", "get", "missing"}
          /\ FirstStep(a) = "look" => a.kind = "video"
          /\ FirstStep(a) = "put" => a.kind = "document"
          /\ FirstStep(a) \in {"fetch", "save"} => a.kind = "patch"
          /\ FirstStep(a) = "fetch" => Fetches(a)
          /\ FirstStep(a) = "upsert" => a.kind = "subscribe"
          /\ FirstStep(a) \in {"trade", "audit"} => a.kind = "recommend"
          /\ FirstStep(a) = "row" => a.kind = "read"
          /\ a # NoAsk
      BY FirstSteps, AskShape
    <3>. QED BY <2>1, <3>2, <3>3 DEF StepInv, Does, Fetches
  <2>3. CASE Serve(r)
    <3>1. ask'[r] = ask[r]
      BY <2>3, Routes
    <3>2. /\ pc'[r] # "idle" /\ ask[r] # NoAsk
          /\ pc'[r] \in {"look", "drop"} => Does(r, "video")
          /\ pc'[r] \in {"put", "commit", "undo"} => Does(r, "document") \/ Does(r, "video")
          /\ pc'[r] \in {"fetch", "save"} => Does(r, "patch")
          /\ pc'[r] = "fetch" => Fetches(ask[r])
          /\ pc'[r] = "upsert" => Does(r, "subscribe")
          /\ pc'[r] = "trade" => Does(r, "recommend")
          /\ pc'[r] = "audit" => Does(r, "subscribe") \/ Does(r, "recommend")
          /\ pc'[r] \in {"row", "get", "missing"} => Does(r, "watch") \/ Does(r, "read")
      BY <2>3, Routes DEF StepInv, TypeOK, Steps, Over
    <3>. QED BY <2>1, <3>1, <3>2 DEF StepInv, Does, Fetches
  <2>. QED BY <1>2, <2>2, <2>3 DEF Step
<1>. QED BY <1>1, <1>2, NextSteps

-----------------------------------------------------------------------------
(* Keys: when they become known, and when their objects go. *)

\* A key enters a row when its request's transaction commits, or by a PATCH that
\* names it.
LEMMA RowChange ==
    ASSUME TypeOK, StepInv, FetchInv, LessonMatchesUrl, NEW r \in Requests, Step(r)
    PROVE  \/ documents' = documents /\ course'.key = course.key
           \/ /\ documents' = documents /\ Save(r)
              /\ Names(ask[r], course'.key) /\ course'.key \in patched' \union {None}
           \/ /\ pc[r] = "commit" /\ Record(r) /\ (Commit(r) \/ (CommitFails(r) /\ r \in lost'))
              /\ \/ documents' = documents \union {r} /\ course' = course /\ Does(r, "document")
                 \/ documents' = documents /\ course'.key = r /\ Does(r, "video")
<1>1. CASE \E a \in Asks : Arrive(r, a)
  BY <1>1 DEF Arrive, data
<1>2. CASE Looks(r) \/ Stores(r) \/ Acts(r)
  BY <1>2 DEF Looks, Look, ReadCourse, Fetch, ReadSubscription, ReadRow, GetObject, FetchFails, Die,
              DeleteFails, data, Stores, Put, PutFails, Delete, Acts, Upsert, Recommend, Audit
<1>3. CASE Commits(r)
  <2>1. \/ UNCHANGED <<documents, course>>
        \/ pc[r] = "commit" /\ Record(r) /\ (Commit(r) \/ (CommitFails(r) /\ r \in lost'))
    BY <1>3 DEF Commits, Commit, CommitFails
  <2>2. CASE UNCHANGED <<documents, course>>
    BY <2>2
  <2>3. CASE pc[r] = "commit" /\ Record(r) /\ (Commit(r) \/ (CommitFails(r) /\ r \in lost'))
    <3>1. \/ documents' = documents \union {r} /\ course' = course /\ Does(r, "document")
          \/ documents' = documents /\ course'.key = r /\ Does(r, "video")
      BY <2>3, RecordShape DEF StepInv
    <3>. QED BY <2>3, <3>1
  <2>. QED BY <2>1, <2>2, <2>3
<1>4. CASE Save(r)
  <2>1. /\ documents' = documents
        /\ \/ course'.key = course.key
           \/ Names(ask[r], course'.key) /\ course'.key \in patched' \union {None}
    BY <1>4, SaveShape DEF Save
  <2>. QED BY <1>4, <2>1
<1>. QED BY <1>1, <1>2, <1>3, <1>4, StepKinds

\* What a request reads is what is there.
LEMMA Reads ==
    ASSUME TypeOK, NEW r \in Requests, Step(r), NEW q \in Requests
    PROVE  /\ found'[q] = found[q] \/ (q = r /\ found'[q] = course /\ pc[r] \in {"look", "course"})
           /\ \/ sought'[q] = sought[q] /\ ~(q = r /\ pc'[q] = "get")
              \/ /\ q = r /\ ReadRow(r)
                 /\ sought'[q] = IF Does(r, "watch") THEN course.key
                                 ELSE IF ask[r].document \in documents THEN ask[r].document ELSE None
                 /\ pc'[q] = "get" => sought'[q] # None
              \/ sought'[q] = sought[q] /\ q # r
<1>1. CASE q # r
  BY <1>1, OthersKept
<1>2. CASE q = r /\ \E a \in Asks : Arrive(r, a)
  <2>1. PICK a \in Asks : Arrive(r, a)
    BY <1>2
  <2>2. FirstStep(a) # "get"
    BY FirstSteps, AskShape
  <2>. QED BY <1>2, <2>1, <2>2 DEF Arrive, locals, Goto, TypeOK
<1>3. CASE q = r /\ Looks(r)
  <2>1. CASE Look(r) \/ ReadCourse(r) \/ Fetch(r) \/ ReadSubscription(r)
    BY <1>3, <2>1 DEF TypeOK, Look, ReadCourse, Fetch, ReadSubscription, Goto
  <2>2. CASE ReadRow(r)
    BY <1>3, <2>2 DEF TypeOK, ReadRow, Goto
  <2>3. CASE GetObject(r) \/ FetchFails(r) \/ Die(r) \/ DeleteFails(r)
    BY <1>3, <2>3 DEF TypeOK, GetObject, FetchFails, Die, DeleteFails, Goto, locals
  <2>. QED BY <1>3, <2>1, <2>2, <2>3 DEF Looks
<1>4. CASE q = r /\ (Stores(r) \/ Commits(r))
  BY <1>4 DEF Stores, Put, PutFails, Delete, Commits, Commit, CommitFails, Goto, TypeOK, locals
<1>5. CASE q = r /\ (Acts(r) \/ Save(r))
  BY <1>5 DEF Acts, Upsert, Recommend, Audit, Save, Goto, TypeOK, locals
<1>. QED BY <1>1, <1>2, <1>3, <1>4, <1>5, StepKinds

\* A request whose transaction commits is no longer unrecorded, and none becomes
\* unrecorded again.
LEMMA UnrecordedBefore ==
    ASSUME TypeOK, NEW r \in Requests, Step(r), NEW q \in Requests, Unrecorded(q)'
    PROVE  /\ Unrecorded(q)
           /\ q = r => ~(Record(r) /\ (Commit(r) \/ (CommitFails(r) /\ r \in lost')))
           /\ q = r => ~Save(r) /\ ~Audit(r)
<1>1. lost \subseteq lost'
  BY Grows
<1>2. CASE q # r
  BY <1>1, <1>2, OthersKept DEF Unrecorded
<1>3. CASE q = r /\ \E a \in Asks : Arrive(r, a)
  BY <1>3 DEF Arrive, Unrecorded, Commit, CommitFails, Save, Audit
<1>4. CASE q = r /\ Serve(r)
  <2>1. Unrecorded(q)
    BY <1>1, <1>4, Routes DEF Unrecorded, TypeOK, Steps, Over
  <2>2. Commit(r) => pc'[r] \in {"ok", "drop"}
    BY DEF Commit, Goto, TypeOK
  <2>3. CommitFails(r) => pc'[r] = "undo"
    BY DEF CommitFails, Goto, TypeOK
  <2>4. ~Save(r) /\ ~Audit(r)
    BY <1>4, <2>1 DEF Unrecorded, Save, Audit
  <2>. QED BY <1>4, <2>1, <2>2, <2>3, <2>4 DEF Unrecorded
<1>. QED BY <1>2, <1>3, <1>4 DEF Step

LEMMA KeyStep ==
    ASSUME TypeOK, StepInv, KeyInv, UnrecordedInv, FetchInv, LessonMatchesUrl, [Next]_vars
    PROVE  KeyInv'
<1>1. CASE UNCHANGED vars
  BY <1>1, Unchanged DEF KeyInv, VideoKey, Does
<1>2. ASSUME NEW r \in Requests, Step(r)
      PROVE  KeyInv'
  <2>1. ASSUME NEW k \in Requests, k \in documents \/ course.key = k
                                   \/ (\E q \in Requests : found[q].key = k)
        PROVE  ask'[k] = ask[k]
    <3>1. pc[k] # "idle"
      BY <2>1 DEF UnrecordedInv, Unrecorded
    <3>2. CASE k # r
      BY <1>2, <3>2, OthersKept
    <3>3. CASE k = r
      BY <1>2, <3>1, <3>3, Routes DEF Step, Arrive
    <3>. QED BY <3>2, <3>3
  <2>2. pc[r] = "commit" => ask'[r] = ask[r]
    BY <1>2, Routes DEF Step, Arrive
  <2>3. patched \subseteq patched' /\ documents \subseteq Requests
    BY <1>2, Grows DEF TypeOK
  <2>4. \A d \in documents' : ask'[d].kind = "document"
    <3>1. \A d \in documents : ask[d].kind = "document"
      BY DEF KeyInv, Does
    <3>. QED BY <1>2, <2>1, <2>2, <2>3, <3>1, RowChange DEF Does
  <2>5. ASSUME NEW k, VideoKey(k), k = course.key \/ (\E q \in Requests : found[q].key = k)
        PROVE  VideoKey(k)'
    BY <2>1, <2>3, <2>5 DEF VideoKey, Does
  <2>6. VideoKey(course.key)'
    <3>1. CASE course'.key = course.key
      <4>1. VideoKey(course.key)
        BY DEF KeyInv
      <4>. QED BY <2>5, <3>1, <4>1 DEF VideoKey, Does
    <3>2. CASE course'.key \in patched' \union {None}
      BY <3>2, StagedAssumption DEF Keys, VideoKey
    <3>3. CASE pc[r] = "commit" /\ Does(r, "video") /\ course'.key = r
      BY <2>2, <3>3 DEF Does, VideoKey
    <3>. QED BY <1>2, <3>1, <3>2, <3>3, RowChange
  <2>7. ASSUME NEW q \in Requests
        PROVE  VideoKey(found[q].key)'
    <3>1. CASE found'[q] = found[q]
      <4>1. VideoKey(found[q].key)
        BY DEF KeyInv
      <4>. QED BY <2>5, <3>1, <4>1 DEF VideoKey, Does
    <3>2. CASE found'[q] = course
      <4>1. VideoKey(course.key)
        BY DEF KeyInv
      <4>. QED BY <2>5, <3>2, <4>1 DEF VideoKey, Does
    <3>. QED BY <1>2, <3>1, <3>2, Reads
  <2>. QED BY <2>4, <2>6, <2>7 DEF KeyInv, Does
<1>. QED BY <1>1, <1>2, NextSteps

\* A request enters the trail with its own row or audit.
LEMMA TrailChange ==
    ASSUME TypeOK, NEW r \in Requests, Step(r), trail' # trail
    PROVE  \/ Record(r) /\ (Commit(r) \/ (CommitFails(r) /\ r \in lost'))
           \/ Save(r) \/ Audit(r)
BY DEF Step, Arrive, Serve, Look, Put, PutFails, Commit, CommitFails, Delete, DeleteFails, Fetch,
       FetchFails, Upsert, Recommend, ReadCourse, ReadSubscription, ReadRow, GetObject, Die, data

\* A key that a PATCH names is on record.
LEMMA NamedKeys ==
    ASSUME TypeOK, StepInv, UnrecordedInv, NEW r \in Requests, Step(r), NEW q \in Requests,
           NEW k \in Requests, Unrecorded(k)
    PROVE  ~Names(ask'[q], k)
<1>1. k \notin trail /\ ~Names(ask[q], k)
  BY DEF UnrecordedInv
<1>2. CASE ask'[q] = ask[q]
  BY <1>1, <1>2
<1>3. CASE ask'[q] # ask[q]
  <2>1. PICK a \in Asks : Arrive(r, a)
    BY <1>3, OthersKept, Routes DEF Step
  <2>2. ask'[q] = a
    BY <1>3, <2>1 DEF Arrive, TypeOK
  <2>. QED BY <1>1, <2>1, <2>2 DEF Arrive, Sayable
<1>. QED BY <1>2, <1>3

LEMMA UnrecordedStep ==
    ASSUME TypeOK, StepInv, KeyInv, UnrecordedInv, FetchInv, LessonMatchesUrl, [Next]_vars
    PROVE  UnrecordedInv'
<1>1. CASE UNCHANGED vars
  BY <1>1, Unchanged DEF UnrecordedInv, Unrecorded
<1>2. ASSUME NEW r \in Requests, Step(r), NEW q \in Requests, Unrecorded(q)'
      PROVE  /\ q \notin documents' \union trail' /\ course'.key # q
             /\ \A p \in Requests : found'[p].key # q /\ sought'[p] # q /\ ~Names(ask'[p], q)
  <2>1. /\ Unrecorded(q)
        /\ q = r => ~(Record(r) /\ (Commit(r) \/ (CommitFails(r) /\ r \in lost')))
        /\ q = r => ~Save(r) /\ ~Audit(r)
    BY <1>2, UnrecordedBefore
  <2>2. /\ q \notin documents \union trail /\ course.key # q /\ q # None
        /\ \A p \in Requests : found[p].key # q /\ sought[p] # q /\ ~Names(ask[p], q)
    BY <2>1, StagedAssumption DEF UnrecordedInv, Keys
  <2>3. q \notin documents' /\ course'.key # q
    BY <1>2, <2>1, <2>2, RowChange
  <2>4. q \notin trail'
    <3>1. trail' \subseteq trail \union {r}
      BY <1>2, Grows
    <3>. QED BY <1>2, <2>1, <2>2, <3>1, TrailChange
  <2>5. ASSUME NEW p \in Requests
        PROVE  found'[p].key # q /\ sought'[p] # q
    BY <1>2, <2>2, Reads
  <2>. QED BY <1>2, <2>1, <2>3, <2>4, <2>5, NamedKeys
<1>3. ASSUME NEW r \in Requests, Step(r), NEW q \in Requests, pc'[q] = "commit"
      PROVE  q \in objects'
  <2>1. CASE q = r
    <3>1. Put(r)
      <4>1. ASSUME NEW a \in Asks, Arrive(r, a)
            PROVE  pc'[r] # "commit"
        <5>1. FirstStep(a) # "commit"
          BY FirstSteps, AskShape
        <5>. QED BY <4>1, <5>1 DEF Arrive, Goto, TypeOK
      <4>2. Serve(r) /\ pc'[r] = "commit"
        BY <1>3, <2>1, <4>1 DEF Step
      <4>3. pc[r] = "put"
        BY <4>2, Routes DEF TypeOK, Steps, Over
      <4>. QED BY <4>2, <4>3 DEF TypeOK, Serve, Look, PutFails, Commit, CommitFails, Delete, DeleteFails,
                  Fetch, FetchFails, Save, Upsert, Recommend, Audit, ReadCourse, ReadSubscription,
                  ReadRow, GetObject, Die, Goto
    <3>. QED BY <2>1, <3>1 DEF Put
  <2>2. CASE q # r
    <3>1. pc[q] = "commit" /\ q \in objects
      BY <1>3, <2>2, OthersKept DEF UnrecordedInv
    <3>2. found[r].key # q
      BY <3>1 DEF UnrecordedInv, Unrecorded
    <3>3. \/ objects \subseteq objects'
          \/ objects' \in {objects \ {r}, objects \ {found[r].key}}
      <4>1. CASE Arrive(r, ask'[r]) \/ (\E a \in Asks : Arrive(r, a)) \/ Looks(r)
        BY <4>1 DEF Arrive, Looks, Look, ReadCourse, Fetch, ReadSubscription, ReadRow, GetObject,
                    FetchFails, Die, DeleteFails, data
      <4>2. CASE Stores(r)
        BY <4>2 DEF Stores, Put, PutFails, Delete, Drop, Undo
      <4>3. CASE Commits(r) \/ Acts(r) \/ Save(r)
        BY <4>3 DEF Commits, Commit, CommitFails, Acts, Upsert, Recommend, Audit, Save
      <4>. QED BY <1>3, <4>1, <4>2, <4>3, StepKinds
    <3>. QED BY <2>2, <3>1, <3>2, <3>3
  <2>. QED BY <2>1, <2>2
<1>4. ASSUME NEW r \in Requests, Step(r)
      PROVE  UnrecordedInv'
  BY <1>2, <1>3, <1>4 DEF UnrecordedInv
<1>. QED BY <1>1, <1>4, NextSteps

\* Only the delete of a request that is done removes an object: its own, or that
\* of the video it replaced.
LEMMA ObjectChange ==
    ASSUME TypeOK, NEW r \in Requests, Step(r)
    PROVE  \/ objects \subseteq objects'
              /\ (objects' = objects \/ (objects' = objects \union {r} /\ (Put(r) \/ PutFails(r))))
           \/ /\ pc[r] = "drop" /\ Delete(r) /\ objects' = objects \ {found[r].key} /\ pc'[r] = "ok"
           \/ /\ pc[r] = "undo" /\ Delete(r) /\ objects' = objects \ {r} /\ pc'[r] = "failed"
<1>1. CASE (\E a \in Asks : Arrive(r, a)) \/ Looks(r)
  BY <1>1 DEF Arrive, Looks, Look, ReadCourse, Fetch, ReadSubscription, ReadRow, GetObject,
              FetchFails, Die, DeleteFails, data
<1>2. CASE Stores(r)
  BY <1>2 DEF Stores, Put, PutFails, Delete, Drop, Undo, Goto, TypeOK
<1>3. CASE Commits(r) \/ Acts(r) \/ Save(r)
  BY <1>3 DEF Commits, Commit, CommitFails, Acts, Upsert, Recommend, Audit, Save
<1>. QED BY <1>1, <1>2, <1>3, StepKinds

LEMMA DropStep ==
    ASSUME TypeOK, StepInv, KeyInv, UnrecordedInv, DropInv, FetchInv, LessonMatchesUrl, [Next]_vars
    PROVE  DropInv'
<1>1. CASE UNCHANGED vars
  BY <1>1, Unchanged DEF DropInv
<1>2. ASSUME NEW r \in Requests, Step(r), NEW q \in Requests, pc'[q] = "drop"
      PROVE  /\ found'[q].key # None
             /\ found'[q].key = course'.key => found'[q].key \in patched'
  <2>1. CASE pc[q] = "drop" /\ found'[q] = found[q]
    <3>1. found[q].key # None /\ (found[q].key = course.key => found[q].key \in patched)
      BY <2>1 DEF DropInv
    <3>2. pc[r] = "commit" => found[q].key # r
      BY DEF UnrecordedInv, Unrecorded
    <3>3. patched \subseteq patched'
      BY <1>2, Grows
    <3>. QED BY <1>2, <2>1, <3>1, <3>2, <3>3, RowChange
  <2>2. CASE ~(pc[q] = "drop" /\ found'[q] = found[q])
    <3>1. q = r
      BY <1>2, <2>2, OthersKept
    <3>2. pc[r] = "commit"
      <4>1. ~ \E a \in Asks : Arrive(r, a)
        BY <1>2, <3>1, FirstSteps, AskShape DEF Arrive, Goto, TypeOK
      <4>2. Serve(r)
        BY <1>2, <4>1 DEF Step
      <4>3. pc[r] \in {"commit", "drop"}
        BY <1>2, <3>1, <4>2, Routes DEF TypeOK, Steps, Over
      <4>4. found'[r] = found[r]
        BY <1>2, <4>3, Reads
      <4>. QED BY <2>2, <3>1, <4>3, <4>4
    <3>3. Commit(r)
      <4>1. ~(CommitFails(r) \/ Die(r))
        BY <1>2, <3>1 DEF CommitFails, Die, Goto, TypeOK
      <4>. QED BY <1>2, <3>2, <4>1 DEF Step, Arrive, Serve, Look, Put, PutFails, Delete, DeleteFails,
                  Fetch, FetchFails, Save, Upsert, Recommend, Audit, ReadCourse, ReadSubscription,
                  ReadRow, GetObject
    <3>4. Does(r, "video") /\ found[r].key # None /\ found'[r] = found[r] /\ Record(r)
      BY <1>2, <3>1, <3>3 DEF Commit, Goto, TypeOK, locals
    <3>5. course'.key = r
      BY <3>2, <3>4, RecordShape
    <3>6. found[r].key # r
      BY <3>2 DEF UnrecordedInv, Unrecorded
    <3>. QED BY <3>1, <3>4, <3>5, <3>6
  <2>. QED BY <2>1, <2>2
<1>3. ASSUME NEW r \in Requests, Step(r)
      PROVE  DropInv'
  BY <1>2, <1>3 DEF DropInv
<1>. QED BY <1>1, <1>3, NextSteps

\* Only a reader's own get leads to a miss.
LEMMA MissIsGet ==
    ASSUME TypeOK, NEW r \in Requests, Step(r), pc'[r] = "missing"
    PROVE  GetObject(r)
<1>1. ASSUME NEW a \in Asks, Arrive(r, a)
      PROVE  pc'[r] # "missing"
  <2>1. FirstStep(a) # "missing"
    BY FirstSteps, AskShape
  <2>. QED BY <1>1, <2>1 DEF Arrive, Goto, TypeOK
<1>2. Serve(r)
  BY <1>1 DEF Step
<1>3. pc[r] = "get" /\ ~Die(r)
  BY <1>2, Routes DEF TypeOK, Steps, Over, Die, Goto
<1>. QED BY <1>2, <1>3 DEF Serve, Look, Put, PutFails, Commit, CommitFails, Delete, DeleteFails,
            Fetch, FetchFails, Save, Upsert, Recommend, Audit, ReadCourse, ReadSubscription, ReadRow

LEMMA ReadStep ==
    ASSUME TypeOK, StepInv, ReadInv, [Next]_vars
    PROVE  ReadInv'
<1>1. CASE UNCHANGED vars
  BY <1>1, Unchanged DEF ReadInv, Does
<1>2. ASSUME NEW r \in Requests, Step(r), NEW q \in Requests, pc'[q] \in {"get", "missing"}
      PROVE  /\ sought'[q] # None
             /\ pc'[q] = "get" /\ ask'[q].kind = "read" => sought'[q] \in documents'
  <2>1. documents \subseteq documents'
    BY <1>2, Grows
  <2>2. CASE q # r
    BY <1>2, <2>1, <2>2, OthersKept DEF ReadInv, Does
  <2>3. CASE q = r /\ pc'[r] = "get"
    <3>1. /\ ReadRow(r)
          /\ sought'[r] = IF Does(r, "watch") THEN course.key
                          ELSE IF ask[r].document \in documents THEN ask[r].document ELSE None
          /\ sought'[r] # None
      BY <1>2, <2>3, Reads
    <3>2. ask'[r] = ask[r]
      BY <3>1 DEF ReadRow
    <3>. QED BY <2>1, <2>3, <3>1, <3>2 DEF Does
  <2>4. CASE q = r /\ pc'[r] = "missing"
    BY <1>2, <2>4, MissIsGet DEF GetObject, locals, ReadInv
  <2>. QED BY <1>2, <2>2, <2>3, <2>4
<1>3. ASSUME NEW r \in Requests, Step(r)
      PROVE  ReadInv'
  BY <1>2, <1>3 DEF ReadInv, Does
<1>. QED BY <1>1, <1>3, NextSteps

LEMMA FetchStep ==
    ASSUME TypeOK, StepInv, FetchInv, [Next]_vars
    PROVE  FetchInv'
<1>1. CASE UNCHANGED vars
  BY <1>1, Unchanged DEF FetchInv, Does, Fetches
<1>2. ASSUME NEW r \in Requests, Step(r), NEW q \in Requests, fetched'[q] # None
      PROVE  /\ ask'[q].kind = "patch" /\ Fetches(ask[q])
             /\ fetched'[q] = ask'[q].set.url /\ ask'[q] = ask[q]
  <2>1. CASE q # r
    BY <1>2, <2>1, OthersKept DEF FetchInv, Does
  <2>2. CASE q = r /\ \E a \in Asks : Arrive(r, a)
    <3>1. fetched[r] # None /\ ask[r] = NoAsk
      BY <1>2, <2>2 DEF Arrive, locals, StepInv
    <3>. QED BY <3>1 DEF FetchInv, Does, NoAsk
  <2>3. CASE q = r /\ Fetch(r)
    BY <2>3 DEF Fetch, StepInv, Does, TypeOK
  <2>4. CASE q = r /\ Serve(r) /\ ~Fetch(r)
    <3>1. UNCHANGED <<ask, fetched>>
      BY <2>4 DEF Serve, Look, Put, PutFails, Commit, CommitFails, Delete, DeleteFails,
                  FetchFails, Save, Upsert, Recommend, Audit, ReadCourse, ReadSubscription, ReadRow,
                  GetObject, Die, locals
    <3>. QED BY <1>2, <2>4, <3>1 DEF FetchInv, Does
  <2>. QED BY <1>2, <2>1, <2>2, <2>3, <2>4 DEF Step
<1>3. ASSUME NEW r \in Requests, Step(r)
      PROVE  FetchInv'
  BY <1>2, <1>3 DEF FetchInv, Does, Fetches
<1>. QED BY <1>1, <1>3, NextSteps

-----------------------------------------------------------------------------
(* Rows and objects. *)

LEMMA RowsStep ==
    ASSUME TypeOK, StepInv, KeyInv, UnrecordedInv, DropInv, FetchInv, LessonMatchesUrl,
           RowsHaveObjects, [Next]_vars
    PROVE  RowsHaveObjects'
<1>1. CASE UNCHANGED vars
  BY <1>1, Unchanged DEF RowsHaveObjects, Rows
<1>2. ASSUME NEW r \in Requests, Step(r), NEW k \in Rows', k \notin objects'
      PROVE  k \in lost' \union patched'
  <2>1. lost \subseteq lost' /\ patched \subseteq patched'
    BY <1>2, Grows
  <2>2. \/ k \in Rows \union patched'
        \/ k = r /\ pc[r] = "commit" /\ (Commit(r) \/ r \in lost')
    BY <1>2, RowChange DEF Rows
  <2>3. CASE k = r /\ pc[r] = "commit" /\ (Commit(r) \/ r \in lost')
    BY <1>2, <2>3 DEF UnrecordedInv, Commit
  <2>4. CASE k \in Rows /\ k \notin objects
    BY <2>1, <2>4 DEF RowsHaveObjects
  <2>5. CASE k \in Rows /\ k \in objects
    <3>1. \/ pc[r] = "drop" /\ k = found[r].key
          \/ pc[r] = "undo" /\ k = r
      BY <1>2, <2>5, ObjectChange
    <3>2. CASE pc[r] = "drop" /\ k = found[r].key
      <4>1. k \in documents \/ k \in patched
        BY <2>5, <3>2 DEF DropInv, Rows
      <4>2. CASE k \in documents
        <5>1. ask[k].kind = "document" /\ k \in Requests /\ VideoKey(k)
          BY <3>2, <4>2 DEF KeyInv, TypeOK, Does
        <5>. QED BY <2>1, <5>1 DEF VideoKey, Does
      <4>. QED BY <2>1, <4>1, <4>2
    <3>3. CASE pc[r] = "undo" /\ k = r
      <4>1. ~Unrecorded(r)
        BY <2>5, <3>3 DEF UnrecordedInv, Rows
      <4>. QED BY <2>1, <3>3, <4>1 DEF Unrecorded
    <3>. QED BY <3>1, <3>2, <3>3
  <2>. QED BY <2>2, <2>3, <2>4, <2>5
<1>3. ASSUME NEW r \in Requests, Step(r)
      PROVE  RowsHaveObjects'
  BY <1>2, <1>3 DEF RowsHaveObjects
<1>. QED BY <1>1, <1>3, NextSteps

LEMMA MissesStep ==
    ASSUME TypeOK, StepInv, UnrecordedInv, ReadInv, FetchInv, LessonMatchesUrl, RowsHaveObjects,
           MissesExplained, [Next]_vars
    PROVE  MissesExplained'
<1>1. CASE UNCHANGED vars
  BY <1>1, Unchanged DEF MissesExplained, Does
<1>2. ASSUME NEW r \in Requests, Step(r), NEW q \in Requests, pc'[q] = "missing"
      PROVE  sought'[q] \in lost' \union patched' \/ (ask'[q].kind = "watch" /\ sought'[q] # course'.key)
  <2>1. lost \subseteq lost' /\ patched \subseteq patched'
    BY <1>2, Grows
  <2>2. pc[r] = "commit" => sought[q] # r
    BY DEF UnrecordedInv, Unrecorded
  <2>3. sought[q] # None /\ course'.key = sought[q] =>
            course.key = sought[q] \/ sought[q] \in patched'
    BY <1>2, <2>2, RowChange
  <2>4. CASE q # r
    <3>1. pc[q] = "missing" /\ sought'[q] = sought[q] /\ ask'[q] = ask[q]
      BY <1>2, <2>4, OthersKept
    <3>2. sought[q] # None
      BY <3>1 DEF ReadInv
    <3>. QED BY <2>1, <2>3, <3>1, <3>2 DEF MissesExplained, Does
  <2>5. CASE q = r
    <3>1. GetObject(r)
      BY <1>2, <2>5, MissIsGet
    <3>2. /\ pc[r] = "get" /\ sought[r] \notin objects
          /\ UNCHANGED <<course, sought, ask, lost, patched>>
      BY <1>2, <2>5, <3>1 DEF GetObject, Goto, TypeOK, data, locals, history
    <3>3. sought[r] # None /\ (Does(r, "watch") \/ Does(r, "read"))
      BY <3>2 DEF ReadInv, StepInv
    <3>4. CASE Does(r, "read")
      <4>1. sought[r] \in Rows
        BY <3>2, <3>4 DEF ReadInv, Rows
      <4>. QED BY <2>5, <3>2, <4>1 DEF RowsHaveObjects
    <3>5. CASE Does(r, "watch") /\ sought[r] = course.key
      <4>1. sought[r] \in Rows
        BY <3>3, <3>5 DEF Rows
      <4>. QED BY <2>5, <3>2, <4>1 DEF RowsHaveObjects
    <3>6. CASE Does(r, "watch") /\ sought[r] # course.key
      BY <2>5, <3>2, <3>6 DEF Does
    <3>. QED BY <3>3, <3>4, <3>5, <3>6
  <2>. QED BY <2>4, <2>5
<1>3. ASSUME NEW r \in Requests, Step(r)
      PROVE  MissesExplained'
  BY <1>2, <1>3 DEF MissesExplained, Does
<1>. QED BY <1>1, <1>3, NextSteps

LEMMA InHandShape ==
    ASSUME NEW k
    PROVE  /\ k \in InHand <=> \E q \in Requests : \/ k = q /\ pc[q] \in {"commit", "undo"}
                                                   \/ k = found[q].key /\ pc[q] = "drop"
           /\ k \in InHand' <=> \E q \in Requests : \/ k = q /\ pc'[q] \in {"commit", "undo"}
                                                    \/ k = found'[q].key /\ pc'[q] = "drop"
BY DEF InHand

LEMMA OrphansStep ==
    ASSUME TypeOK, StepInv, UnrecordedInv, FetchInv, LessonMatchesUrl, OrphansExplained, [Next]_vars
    PROVE  OrphansExplained'
<1>1. CASE UNCHANGED vars
  BY <1>1, Unchanged DEF OrphansExplained, Rows, InHand
<1>2. ASSUME NEW r \in Requests, Step(r), NEW k \in objects', k \notin Rows', k \notin stray',
             k \notin unseen'
      PROVE  k \in InHand'
  <2>1. stray \subseteq stray' /\ unseen \subseteq unseen' /\ documents \subseteq documents'
    BY <1>2, Grows
  <2>2. CASE k \notin objects
    <3>1. k = r /\ Put(r)
      BY <1>2, <2>2, ObjectChange DEF PutFails
    <3>2. pc'[r] = "commit"
      BY <3>1 DEF Put, Goto, TypeOK
    <3>. QED BY <3>1, <3>2, InHandShape
  <2>3. CASE k \in objects /\ k \in Rows
    <3>1. k = course.key /\ k # None /\ course'.key # k
      BY <1>2, <2>1, <2>3 DEF Rows
    <3>2. ~Save(r)
      BY <1>2, <3>1, SaveShape
    <3>3. /\ pc[r] = "commit" /\ Record(r) /\ (Commit(r) \/ CommitFails(r))
          /\ Does(r, "video")
      BY <1>2, <3>1, <3>2, RowChange
    <3>4. k = found[r].key
      BY <1>2, <3>1, <3>3, RecordShape
    <3>5. k \in Keys \union {None}
      BY <3>1 DEF TypeOK, Course
    <3>6. ~CommitFails(r)
      BY <1>2, <3>1, <3>3, <3>4 DEF CommitFails
    <3>7. pc'[r] = "drop" /\ found'[r] = found[r]
      <4>1. found[r].key # r
        BY <3>3 DEF UnrecordedInv, Unrecorded
      <4>. QED BY <3>1, <3>3, <3>4, <3>6, <4>1 DEF Commit, Goto, TypeOK, locals
    <3>. QED BY <3>4, <3>7, InHandShape
  <2>4. CASE k \in objects /\ k \notin Rows
    <3>1. k \in InHand
      BY <1>2, <2>1, <2>4 DEF OrphansExplained
    <3>2. PICK q \in Requests : \/ k = q /\ pc[q] \in {"commit", "undo"}
                                \/ k = found[q].key /\ pc[q] = "drop"
      BY <3>1, InHandShape
    <3>3. CASE q # r
      <4>1. pc'[q] = pc[q] /\ found'[q] = found[q]
        BY <1>2, <3>3, OthersKept
      <4>. QED BY <3>2, <4>1, InHandShape
    <3>4. CASE q = r
      <4>1. Commit(r) \/ CommitFails(r) \/ Delete(r) \/ DeleteFails(r) \/ Die(r)
        BY <1>2, <3>2, <3>4 DEF Step, Arrive, Serve, Look, Put, PutFails, Fetch, FetchFails, Save,
                  Upsert, Recommend, Audit, ReadCourse, ReadSubscription, ReadRow, GetObject
      <4>2. ~Die(r) /\ ~DeleteFails(r)
        BY <1>2, <3>2, <3>4 DEF Die, DeleteFails
      <4>3. ~Delete(r)
        BY <1>2, <3>2, <3>4 DEF Delete, Drop, Undo
      <4>4. ~Commit(r)
        <5>1. ASSUME Commit(r)
              PROVE  k \in Rows'
          <6>1. pc[r] = "commit" /\ Record(r) /\ k = r
            BY <3>2, <3>4, <5>1 DEF Commit
          <6>2. r \in documents' \/ course'.key = r
            BY <6>1, RecordShape DEF StepInv
          <6>3. r # None
            BY StagedAssumption DEF Keys
          <6>. QED BY <6>1, <6>2, <6>3 DEF Rows
        <5>. QED BY <1>2, <5>1
      <4>5. CommitFails(r)
        BY <4>1, <4>2, <4>3, <4>4
      <4>6. k = r /\ pc'[r] = "undo"
        BY <3>2, <3>4, <4>5 DEF CommitFails, Goto, TypeOK
      <4>. QED BY <4>6, InHandShape
    <3>. QED BY <3>3, <3>4
  <2>. QED BY <2>2, <2>3, <2>4
<1>3. ASSUME NEW r \in Requests, Step(r)
      PROVE  OrphansExplained'
  BY <1>2, <1>3 DEF OrphansExplained
<1>. QED BY <1>1, <1>3, NextSteps

LEMMA LessonStep ==
    ASSUME TypeOK, StepInv, FetchInv, LessonMatchesUrl, [Next]_vars
    PROVE  LessonMatchesUrl'
<1>1. CASE UNCHANGED vars
  BY <1>1, Unchanged DEF LessonMatchesUrl
<1>2. ASSUME NEW r \in Requests, Step(r)
      PROVE  LessonMatchesUrl'
  <2>1. CASE Save(r)
    BY <2>1, SaveShape
  <2>2. CASE ~Save(r)
    <3>1. unfetched' = unfetched /\ (edited' <=> edited)
      BY <1>2, <2>2 DEF Step, Arrive, Serve, Look, Put, PutFails, Commit, CommitFails, Delete,
                  DeleteFails, Fetch, FetchFails, Upsert, Recommend, Audit, ReadCourse,
                  ReadSubscription, ReadRow, GetObject, Die, history
    <3>2. course'.url = course.url /\ course'.lesson = course.lesson
      <4>1. CASE (\E a \in Asks : Arrive(r, a)) \/ Looks(r) \/ Stores(r) \/ Acts(r)
        BY <4>1 DEF Arrive, Looks, Look, ReadCourse, Fetch, ReadSubscription, ReadRow, GetObject,
                  FetchFails, Die, DeleteFails, data, Stores, Put, PutFails, Delete, Acts, Upsert,
                  Recommend, Audit
      <4>2. CASE Commits(r)
        <5>1. course' = course \/ (pc[r] = "commit" /\ Record(r))
          BY <4>2 DEF Commits, Commit, CommitFails
        <5>2. CASE pc[r] = "commit" /\ Record(r)
          BY <5>2, RecordShape DEF StepInv
        <5>. QED BY <5>1, <5>2
      <4>. QED BY <1>2, <2>2, <4>1, <4>2, StepKinds
    <3>. QED BY <3>1, <3>2 DEF LessonMatchesUrl
  <2>. QED BY <2>1, <2>2
<1>. QED BY <1>1, <1>2, NextSteps

-----------------------------------------------------------------------------
(* The audit trail. *)

\* The recommendations of a request are made by it alone.
LEMMA MadeChange ==
    ASSUME TypeOK, NEW r \in Requests, Step(r), NEW q \in Requests
    PROVE  /\ Made(q) \subseteq Made(q)' /\ Made(q)' \subseteq Trades
           /\ Made(q)' = Made(q) \/ (q = r /\ Recommend(r) /\ pc[r] = "trade")
<1>1. CASE Recommend(r)
  BY <1>1 DEF Recommend, Made, TypeOK
<1>2. CASE ~Recommend(r)
  <2>1. recommended' = recommended
    BY <1>2 DEF Step, Arrive, Serve, Look, Put, PutFails, Commit, CommitFails, Delete,
                  DeleteFails, Fetch, FetchFails, Save, Upsert, Audit, ReadCourse,
                  ReadSubscription, ReadRow, GetObject, Die, data
  <2>. QED BY <2>1 DEF Made, TypeOK
<1>. QED BY <1>1, <1>2

LEMMA ActStep ==
    ASSUME TypeOK, StepInv, ActInv, [Next]_vars
    PROVE  ActInv'
<1>1. CASE UNCHANGED vars
  BY <1>1, Unchanged DEF ActInv, Made, Does
<1>2. ASSUME NEW r \in Requests, Step(r), NEW q \in Requests
      PROVE  /\ pc'[q] = "idle" => q \notin trail'
             /\ Made(q)' # {} => ask'[q].kind = "recommend"
             /\ pc'[q] = "audit" => /\ ask'[q].kind = "recommend" => Made(q)' = Trades
                                    /\ ask'[q].kind = "subscribe" => subscribed'
  <2>1. /\ pc[q] = "idle" => q \notin trail
        /\ Made(q) # {} => ask[q].kind = "recommend"
        /\ pc[q] = "audit" => /\ ask[q].kind = "recommend" => Made(q) = Trades
                              /\ ask[q].kind = "subscribe" => subscribed
    BY DEF ActInv, Does
  <2>2. trail' \subseteq trail \union {r} /\ (subscribed => subscribed')
    BY <1>2, Grows
  <2>3. CASE q # r
    <3>1. Made(q)' = Made(q) /\ pc'[q] = pc[q] /\ ask'[q] = ask[q]
      BY <1>2, <2>3, MadeChange, OthersKept
    <3>. QED BY <2>1, <2>2, <2>3, <3>1
  <2>4. CASE q = r /\ \E a \in Asks : Arrive(r, a)
    <3>1. PICK a \in Asks : Arrive(r, a)
      BY <2>4
    <3>2. /\ pc'[r] = FirstStep(a) /\ ask'[r] = a /\ Made(r)' = Made(r)
      BY <3>1 DEF Arrive, Goto, TypeOK, Made, data
    <3>3. Made(r) = {}
      BY <2>1, <2>4, <3>1 DEF Arrive, StepInv, NoAsk
    <3>4. /\ FirstStep(a) # "idle"
          /\ FirstStep(a) = "audit" => a.kind = "recommend" /\ Trades = {}
      BY FirstSteps, AskShape
    <3>. QED BY <2>4, <3>2, <3>3, <3>4
  <2>5. CASE q = r /\ Serve(r)
    <3>1. pc'[r] # "idle" /\ ask'[r] = ask[r]
      BY <2>5, Routes DEF TypeOK, Steps, Over
    <3>2. Made(r)' # {} => ask[r].kind = "recommend"
      BY <1>2, <2>1, <2>5, MadeChange DEF StepInv, Does
    <3>3. ASSUME pc'[r] = "audit"
          PROVE  /\ ask[r].kind = "recommend" => Made(r)' = Trades
                 /\ ask[r].kind = "subscribe" => subscribed'
      <4>1. pc[r] \in {"upsert", "trade"}
        BY <2>5, <3>3, Routes DEF TypeOK, Steps, Over
      <4>2. Upsert(r) \/ Recommend(r)
        <5>1. ~Die(r)
          BY <3>3 DEF Die, Goto, TypeOK
        <5>. QED BY <2>5, <4>1, <5>1
             DEF Serve, Look, Put, PutFails, Commit, CommitFails, Delete, DeleteFails, Fetch,
                 FetchFails, Save, Audit, ReadCourse, ReadSubscription, ReadRow, GetObject
      <4>3. CASE Upsert(r)
        BY <4>3 DEF Upsert, StepInv, Does
      <4>4. CASE Recommend(r)
        BY <3>3, <4>4 DEF Recommend, StepInv, Does, Goto, TypeOK, LastTrade
      <4>. QED BY <4>2, <4>3, <4>4
    <3>. QED BY <2>5, <3>1, <3>2, <3>3
  <2>. QED BY <1>2, <2>3, <2>4, <2>5 DEF Step
<1>3. ASSUME NEW r \in Requests, Step(r)
      PROVE  ActInv'
  BY <1>2, <1>3 DEF ActInv, Does
<1>. QED BY <1>1, <1>3, NextSteps

LEMMA TrailStep ==
    ASSUME TypeOK, StepInv, ActInv, TrailMatches, [Next]_vars
    PROVE  TrailMatches'
<1>1. CASE UNCHANGED vars
  BY <1>1, Unchanged DEF TrailMatches, Acted, Made, Does
<1>2. ASSUME NEW r \in Requests, Step(r), NEW q \in Requests
      PROVE  /\ q \in trail' /\ ask'[q].kind = "recommend" => Made(q)' = Trades
             /\ q \in trail' /\ ask'[q].kind = "subscribe" => subscribed'
             /\ Acted(q)' /\ q \notin trail' => pc'[q] \in {"trade", "audit"} \/ q \in faulty'
  <2>1. /\ q \in trail /\ ask[q].kind = "recommend" => Made(q) = Trades
        /\ q \in trail /\ ask[q].kind = "subscribe" => subscribed
        /\ Acted(q) /\ q \notin trail => pc[q] \in {"trade", "audit"} \/ q \in faulty
    BY DEF TrailMatches, Does
  <2>2. /\ trail \subseteq trail' /\ trail' \subseteq trail \union {r} /\ (subscribed => subscribed')
        /\ faulty \subseteq faulty'
        /\ Made(q) \subseteq Made(q)' /\ Made(q)' \subseteq Trades
    BY <1>2, Grows, MadeChange
  <2>3. /\ Acted(q) <=> Made(q) # {} \/ (ask[q].kind = "subscribe" /\ pc[q] \notin {"idle", "upsert"})
        /\ Acted(q)' <=> Made(q)' # {} \/ (ask'[q].kind = "subscribe" /\ pc'[q] \notin {"idle", "upsert"})
    BY DEF Acted, Does
  <2>4. CASE q # r
    <3>1. Made(q)' = Made(q) /\ pc'[q] = pc[q] /\ ask'[q] = ask[q]
      BY <1>2, <2>4, MadeChange, OthersKept
    <3>. QED BY <2>1, <2>2, <2>3, <2>4, <3>1
  <2>5. CASE q = r /\ \E a \in Asks : Arrive(r, a)
    <3>1. PICK a \in Asks : Arrive(r, a)
      BY <2>5
    <3>2. /\ pc'[r] = FirstStep(a) /\ ask'[r] = a /\ Made(r)' = Made(r) /\ trail' = trail
      BY <3>1 DEF Arrive, Goto, TypeOK, Made, data
    <3>3. Made(r) = {} /\ r \notin trail
      BY <3>1 DEF Arrive, StepInv, NoAsk, ActInv, Does
    <3>4. a.kind = "subscribe" => FirstStep(a) = "upsert"
      BY FirstSteps
    <3>. QED BY <2>3, <2>5, <3>2, <3>3, <3>4
  <2>6. CASE q = r /\ Serve(r)
    <3>1. ask'[r] = ask[r]
      BY <2>6, Routes
    <3>2. r \in trail' \ trail => pc[r] \in {"commit", "save", "audit"} /\ (pc[r] = "audit" => Audit(r))
      BY <2>6 DEF Serve, Look, Put, PutFails, Commit, CommitFails, Delete, DeleteFails, Fetch,
              FetchFails, Save, Upsert, Recommend, Audit, ReadCourse, ReadSubscription, ReadRow,
              GetObject, Die, data
    <3>3. /\ r \in trail' /\ ask[r].kind = "recommend" => Made(r)' = Trades
          /\ r \in trail' /\ ask[r].kind = "subscribe" => subscribed'
      <4>1. CASE r \in trail
        BY <2>1, <2>2, <2>6, <4>1
      <4>2. CASE r \in trail' \ trail
        <5>1. pc[r] = "audit" \/ ask[r].kind \in {"document", "video", "patch"}
          BY <3>2, <4>2 DEF StepInv, Does
        <5>2. pc[r] = "audit" => /\ ask[r].kind = "recommend" => Made(r) = Trades
                                 /\ ask[r].kind = "subscribe" => subscribed
          BY DEF ActInv, Does
        <5>. QED BY <2>2, <2>6, <5>1, <5>2
      <4>. QED BY <4>1, <4>2
    <3>4. ASSUME Acted(r)', r \notin trail'
          PROVE  pc'[r] \in {"trade", "audit"} \/ r \in faulty'
      <4>1. Die(r) => r \in faulty'
        BY DEF Die, Blame
      <4>2. ~Audit(r)
        BY <3>4 DEF Audit
      <4>3. CASE pc[r] \in {"upsert", "trade"}
        BY <2>6, <4>1, <4>3 DEF Serve, Look, Put, PutFails, Commit, CommitFails, Delete, DeleteFails,
              Fetch, FetchFails, Save, Upsert, Recommend, Audit, ReadCourse, ReadSubscription,
              ReadRow, GetObject, Goto, TypeOK
      <4>4. CASE pc[r] = "audit"
        BY <2>6, <4>1, <4>2, <4>4 DEF Serve, Look, Put, PutFails, Commit, CommitFails, Delete,
              DeleteFails, Fetch, FetchFails, Save, Upsert, Recommend, ReadCourse,
              ReadSubscription, ReadRow, GetObject
      <4>5. CASE pc[r] \notin {"upsert", "trade", "audit"}
        <5>1. Made(r)' = Made(r) /\ pc[r] # "idle"
          BY <1>2, <2>6, <4>5, MadeChange, Routes
        <5>2. Acted(r)
          BY <2>3, <2>6, <3>1, <3>4, <4>5, <5>1
        <5>. QED BY <2>1, <2>2, <2>6, <3>4, <4>5, <5>2
      <4>. QED BY <4>3, <4>4, <4>5
    <3>. QED BY <2>6, <3>1, <3>3, <3>4
  <2>. QED BY <1>2, <2>4, <2>5, <2>6 DEF Step
<1>3. ASSUME NEW r \in Requests, Step(r)
      PROVE  TrailMatches'
  BY <1>2, <1>3 DEF TrailMatches, Does
<1>. QED BY <1>1, <1>3, NextSteps

-----------------------------------------------------------------------------
(* The theorems. *)

\* The inductive invariant: which requests know which keys at which step of
\* StorageService and WorkflowService, and what has been done so far.
THEOREM Invariance == Spec => []IInv
<1>1. Init => IInv
  <2>1. ASSUME Init
        PROVE  TypeOK
    BY <2>1, StagedAssumption DEF Init, TypeOK, Course0, Course, Keys, Steps
  <2>2. ASSUME Init
        PROVE  StepInv /\ KeyInv /\ UnrecordedInv /\ DropInv /\ ReadInv /\ FetchInv /\ ActInv
    BY <2>2, StagedAssumption
       DEF Init, StepInv, KeyInv, UnrecordedInv, DropInv, ReadInv, FetchInv, ActInv, NoAsk,
           Course0, Keys, Made, VideoKey, Names
  <2>3. ASSUME Init
        PROVE  /\ RowsHaveObjects /\ MissesExplained /\ OrphansExplained /\ LessonMatchesUrl
               /\ TrailMatches
    BY <2>3, StagedAssumption
       DEF Init, RowsHaveObjects, MissesExplained, OrphansExplained, LessonMatchesUrl, TrailMatches,
           Rows, Course0, Keys, Acted, Made
  <2>. QED BY <2>1, <2>2, <2>3 DEF IInv
<1>2. IInv /\ [Next]_vars => IInv'
  BY TypeStep, StepInvStep, KeyStep, UnrecordedStep, DropStep, ReadStep, FetchStep, ActStep,
     RowsStep, MissesStep, OrphansStep, LessonStep, TrailStep DEF IInv
<1>. QED BY <1>1, <1>2, PTL DEF Spec

\* Every value has its type.
THEOREM TypeCorrect == Spec => []TypeOK
<1>1. IInv => TypeOK
  BY DEF IInv
<1>. QED BY <1>1, Invariance, PTL

\* StorageService puts an object before it commits the row and deletes it only
\* when the commit failed or the video was replaced: rows and objects are found
\* together, unless a commit was not heard of or a PATCH wrote the key.
THEOREM RowsAndObjectsMeet == Spec => []ObjectsFound
<1>1. IInv => ObjectsFound
  BY DEF IInv, ObjectsFound
<1>. QED BY <1>1, Invariance, PTL

\* An object without a row is in somebody's hand or was left there by a fault, or
\* by a replacement that had not read its key.
THEOREM OrphansHaveReasons == Spec => []OrphansExplained
<1>1. IInv => OrphansExplained
  BY DEF IInv
<1>. QED BY <1>1, Invariance, PTL

\* WorkflowService.update writes a lesson's URL together with the metadata it
\* fetched for it: crossing updates never leave one URL with another's title, as long
\* as no PATCH writes the title itself.
THEOREM LessonsStayTogether == Spec => []LessonMatchesUrl
<1>1. IInv => LessonMatchesUrl
  BY DEF IInv
<1>. QED BY <1>1, Invariance, PTL

\* recommend and subscribeToCourse audit what they did, in full and last.
THEOREM TrailsAreHonest == Spec => []TrailMatches
<1>1. IInv => TrailMatches
  BY DEF IInv
<1>. QED BY <1>1, Invariance, PTL
=============================================================================
