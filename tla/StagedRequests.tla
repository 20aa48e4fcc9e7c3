--------------------------- MODULE StagedRequests ---------------------------
(***************************************************************************)
(* Requests made of several statements that no one transaction encloses:   *)
(* uploads of documents and course videos, which put an object beside the  *)
(* transaction that records it; updates of a course, which ask YouTube for *)
(* the lesson's metadata first; subscriptions, recommendations, and the    *)
(* reads that look at a row and then at what the row names.                *)
(***************************************************************************)
EXTENDS Naturals, FiniteSets, Functions

CONSTANTS
    Requests,       \* HTTP requests; an upload's object key is its request
    Asks,           \* what a request may ask for
    Old,            \* key of the video the course has in the beginning
    Typed,          \* any other text: no object's key, no URL's metadata
    Urls,           \* YouTube URLs; each stands for its metadata, too
    Blank,          \* the empty string, which is accepted as a URL
    Trades,         \* active trades
    None,           \* NULL
    MaxFaults       \* bound: calls that fail, lose their answer, or crashes

Keys   == Requests \union {Old, Typed}
Course == [key : Keys \union {None}, url : Urls \union {Blank, None},
           lesson : Urls \union {Typed, None}, gated : BOOLEAN]
\* A PATCH sets any of these columns to anything: update blocks none of them. The
\* lesson's title and author are one column here; "" is None to every reader of the
\* key.
Patches == {Restrict(c, D) : c \in Course, D \in SUBSET {"key", "url", "lesson", "gated"}}
Shapes == [kind : {"document", "video", "subscribe", "open", "watch", "recommend"}]
          \union [kind : {"patch"}, set : Patches]
          \union [kind : {"read"}, document : Requests]

ASSUME StagedAssumption ==
    /\ None \notin Keys \union Urls \union {Blank} /\ Blank \notin Urls
    /\ Old \notin Requests /\ Typed \notin Requests \union Urls \union {Old} /\ Asks \subseteq Shapes /\ MaxFaults \in Nat

VARIABLES
    objects,        \* keys in the object store
    documents,      \* Document rows, by storageKey
    course,         \* the course's row, as far as lessons go
    subscribed,     \* the learner's CourseSubscription is ACTIVE
    recommended,    \* TradeRecommendation rows: request and trade
    trail,          \* requests whose audit row or event is written
    pc, ask,
    found,          \* the course's row as the request read it
    member,         \* the subscription as the request read it
    sought,         \* the object a reader is about to get
    fetched,        \* metadata that oEmbed answered, None without an answer
    \* history
    faulty,         \* requests that met a fault
    lost,           \* keys whose transaction committed without an answer
    stray,          \* keys whose put, transaction or delete met a fault
    unseen,         \* keys replaced or cleared by one who had not read them
    unfetched,      \* URLs stored without their metadata
    patched,        \* keys that a PATCH put into the course's row
    edited          \* the lesson is what a PATCH said, not what oEmbed said

data    == <<objects, documents, course, subscribed, recommended, trail>>
locals  == <<found, member, sought, fetched>>
history == <<faulty, lost, stray, unseen, unfetched, patched, edited>>
vars    == <<data, pc, ask, locals, history>>

Over  == {"ok", "denied", "missing", "failed", "dead"}
Steps == Over \union {"idle", "look", "put", "commit", "undo", "drop", "fetch",
                      "save", "upsert", "audit", "course", "subscription", "row",
                      "get", "trade"}
NoAsk == [kind |-> "none"]

TypeOK ==
    /\ objects \subseteq Requests \union {Old} /\ documents \subseteq Requests
    /\ course \in Course
    /\ subscribed \in BOOLEAN
    /\ recommended \subseteq Requests \X Trades
    /\ trail \subseteq Requests
    /\ pc \in [Requests -> Steps]
    /\ ask \in [Requests -> Asks \union {NoAsk}]
    /\ found \in [Requests -> Course]
    /\ member \in [Requests -> BOOLEAN]
    /\ sought \in [Requests -> Keys \union {None}]
    /\ fetched \in [Requests -> Urls \union {None}]
    /\ faulty \subseteq Requests
    /\ lost \subseteq Keys /\ stray \subseteq Keys /\ unseen \subseteq Keys
    /\ unfetched \subseteq Urls /\ patched \subseteq Keys /\ edited \in BOOLEAN

Course0 == [key |-> Old, url |-> None, lesson |-> None, gated |-> TRUE]

Init ==
    /\ objects = {Old} /\ documents = {} /\ course = Course0
    /\ subscribed = FALSE /\ recommended = {} /\ trail = {}
    /\ pc = [r \in Requests |-> "idle"]
    /\ ask = [r \in Requests |-> NoAsk]
    /\ found = [r \in Requests |-> Course0]
    /\ member = [r \in Requests |-> FALSE]
    /\ sought = [r \in Requests |-> None]
    /\ fetched = [r \in Requests |-> None]
    /\ faulty = {} /\ lost = {} /\ stray = {} /\ unseen = {} /\ unfetched = {}
    /\ patched = {} /\ edited = FALSE

-----------------------------------------------------------------------------
Goto(r, step) == pc' = [pc EXCEPT ![r] = step]
Does(r, kind) == ask[r].kind = kind
CanFail == Cardinality(faulty) < MaxFaults
Blame(r) == faulty' = faulty \union {r}

\* An update asks YouTube only about a URL that is there and not empty.
Fetches(a) == "url" \in DOMAIN a.set /\ a.set.url \in Urls

FirstStep(a) ==
    CASE a.kind = "video" -> "look"
      [] a.kind = "document" -> "put"
      [] a.kind = "patch" -> IF Fetches(a) THEN "fetch" ELSE "save"
      [] a.kind = "subscribe" -> "upsert"
      [] a.kind \in {"open", "watch"} -> "course"
      [] a.kind = "read" -> "row"
      [] a.kind = "recommend" -> IF Trades = {} THEN "audit" ELSE "trade"

\* The key that a PATCH names, if it names one.
Names(a, k) == a.kind = "patch" /\ "key" \in DOMAIN a.set /\ a.set.key = k

\* Keys are random: one can be named only when it has been on record.
Sayable(a) == \A k \in Requests : Names(a, k) => k \in trail

\* A request arrives; files and URLs that are not valid are refused at once.
Arrive(r, a) ==
    /\ pc[r] = "idle" /\ Sayable(a)
    /\ Goto(r, FirstStep(a))
    /\ ask' = [ask EXCEPT ![r] = a]
    /\ UNCHANGED <<data, locals, history>>

-----------------------------------------------------------------------------
(* StorageService.save and saveCourseVideo *)

\* The video's upload remembers the key it is going to replace.
Look(r) ==
    /\ pc[r] = "look"
    /\ Goto(r, "put")
    /\ found' = [found EXCEPT ![r] = course]
    /\ UNCHANGED <<data, ask, member, sought, fetched, history>>

Put(r) ==
    /\ pc[r] = "put"
    /\ Goto(r, "commit")
    /\ objects' = objects \union {r}
    /\ UNCHANGED <<documents, course, subscribed, recommended, trail, ask, locals, history>>

\* Refused, or stored with the answer lost: the put is outside the try block.
PutFails(r) ==
    /\ pc[r] = "put" /\ CanFail
    /\ Goto(r, "failed")
    /\ objects' \in {objects, objects \union {r}}
    /\ Blame(r) /\ stray' = stray \union {r}
    /\ UNCHANGED <<documents, course, subscribed, recommended, trail, ask, locals,
                   lost, unseen, unfetched, patched, edited>>

\* One transaction: the document with its event, or the course's video columns
\* with audit and event.
Record(r) ==
    /\ trail' = trail \union {r}
    /\ IF Does(r, "document")
       THEN documents' = documents \union {r} /\ UNCHANGED <<course, unseen>>
       ELSE /\ course' = [course EXCEPT !.key = r]
            /\ unseen' = unseen \union ({course.key} \ {None, found[r].key})
            /\ UNCHANGED documents

Commit(r) ==
    /\ pc[r] = "commit"
    /\ Goto(r, IF Does(r, "video") /\ found[r].key \notin {None, r}
               THEN "drop" ELSE "ok")
    /\ Record(r)
    /\ UNCHANGED <<objects, subscribed, recommended, ask, locals,
                   faulty, lost, stray, unfetched, patched, edited>>

\* The transaction is rolled back, or commits and its answer is lost: both run
\* the catch block.
CommitFails(r) ==
    /\ pc[r] = "commit" /\ CanFail
    /\ Goto(r, "undo")
    /\ \/ UNCHANGED <<documents, course, trail, unseen, lost>>
       \/ Record(r) /\ lost' = lost \union {r}
    /\ Blame(r)
    \* the key a video would have dropped stays, too
    /\ stray' = stray \union (IF Does(r, "video") THEN {found[r].key} \ {None} ELSE {})
    /\ UNCHANGED <<objects, subscribed, recommended, ask, locals, unfetched,
                   patched, edited>>

\* Seeded bug: the replaced object is deleted by the key the course has now.
DropCurrent(r) == objects' = objects \ {course.key}

\* Deletes the object the new video replaces, by the key read in the beginning.
Drop(r) == objects' = objects \ {found[r].key}

\* Seeded bug: no compensation, a failed transaction leaves its object.
UndoNothing(r) == UNCHANGED objects

\* Deletes the object whose transaction failed.
Undo(r) == objects' = objects \ {r}

Delete(r) ==
    /\ \/ pc[r] = "drop" /\ Drop(r) /\ Goto(r, "ok")
       \/ pc[r] = "undo" /\ Undo(r) /\ Goto(r, "failed")
    /\ UNCHANGED <<documents, course, subscribed, recommended, trail, ask, locals, history>>

\* A failing delete is ignored.
DeleteFails(r) ==
    /\ pc[r] \in {"drop", "undo"} /\ CanFail
    /\ Goto(r, IF pc[r] = "drop" THEN "ok" ELSE "failed")
    /\ stray' = stray \union {IF pc[r] = "drop" THEN found[r].key ELSE r}
    /\ Blame(r)
    /\ UNCHANGED <<data, ask, locals, lost, unseen, unfetched, patched, edited>>

-----------------------------------------------------------------------------
(* WorkflowService.update of a course *)

\* oEmbed answers, or it does not and nobody hears of it.
Fetch(r) ==
    /\ pc[r] = "fetch"
    /\ Goto(r, "save")
    /\ fetched' = [fetched EXCEPT ![r] = ask[r].set.url]
    /\ UNCHANGED <<data, ask, found, member, sought, history>>

FetchFails(r) ==
    /\ pc[r] = "fetch" /\ CanFail
    /\ Goto(r, "save")
    /\ Blame(r)
    /\ UNCHANGED <<data, ask, locals, lost, stray, unseen, unfetched, patched, edited>>

\* Seeded bug: clearing the URL leaves the lesson's columns.
LessonKept(r) == IF fetched[r] # None THEN [lesson |-> fetched[r]] ELSE <<>>

\* What update assigns over the input: the metadata it fetched, NULL for a NULL URL,
\* otherwise nothing.
Lesson(r) ==
    LET set == ask[r].set
    IN  IF fetched[r] # None THEN [lesson |-> fetched[r]]
        ELSE IF "url" \in DOMAIN set /\ set.url = None THEN [lesson |-> None] ELSE <<>>

Save(r) ==
    /\ pc[r] = "save"
    /\ Goto(r, "ok")
    /\ LET set == ask[r].set
           columns == [c \in DOMAIN course |->
               IF c \in DOMAIN Lesson(r) THEN Lesson(r)[c]
               ELSE IF c \in DOMAIN set THEN set[c] ELSE course[c]]
       IN  /\ course' = columns
           /\ unseen' = unseen \union ({course.key} \ {None, columns.key})
           /\ unfetched' = IF ~Fetches(ask[r]) THEN unfetched
                           ELSE IF fetched[r] = None THEN unfetched \union {set.url}
                           ELSE unfetched \ {set.url}
           /\ patched' = patched \union {k \in Keys : Names(ask[r], k)}
           /\ edited' = /\ "lesson" \notin DOMAIN Lesson(r)
                        /\ "lesson" \in DOMAIN set \/ edited
    /\ trail' = trail \union {r}
    /\ UNCHANGED <<objects, documents, subscribed, recommended, ask, locals,
                   faulty, lost, stray>>

-----------------------------------------------------------------------------
(* subscribeToCourse, recommend *)

Upsert(r) ==
    /\ pc[r] = "upsert"
    /\ Goto(r, "audit")
    /\ subscribed' = TRUE
    /\ UNCHANGED <<objects, documents, course, recommended, trail, ask, locals, history>>

Made(r) == {t \in Trades : <<r, t>> \in recommended}

\* Seeded bug: the audit row is written with the first recommendation.
AuditAtOnce(r) == TRUE

\* The audit row of recommend is written when every trade has its row.
LastTrade(r) == Made(r) = Trades

\* One row per active trade, each an insert of its own.
Recommend(r) ==
    /\ pc[r] = "trade"
    /\ \E t \in Trades \ Made(r) :
          recommended' = recommended \union {<<r, t>>}
    /\ Goto(r, IF LastTrade(r)' THEN "audit" ELSE "trade")
    /\ UNCHANGED <<objects, documents, course, subscribed, trail, ask, locals, history>>

Audit(r) ==
    /\ pc[r] = "audit"
    /\ Goto(r, IF Does(r, "subscribe") THEN "course" ELSE "ok")
    /\ trail' = trail \union {r}
    /\ UNCHANGED <<objects, documents, course, subscribed, recommended, ask, locals, history>>

-----------------------------------------------------------------------------
(* courseAccess, sanitizeCourse, readCourseVideo and read *)

ReadCourse(r) ==
    /\ pc[r] = "course"
    /\ Goto(r, "subscription")
    /\ found' = [found EXCEPT ![r] = course]
    /\ UNCHANGED <<data, ask, member, sought, fetched, history>>

\* A lesson there is, and it is free or the learner subscribed; an upload comes
\* before a URL.
Granted(c, m) == (c.key # None \/ c.url \in Urls) /\ (~c.gated \/ m)

ReadSubscription(r) ==
    /\ pc[r] = "subscription"
    /\ member' = [member EXCEPT ![r] = subscribed]
    /\ Goto(r, IF ~Does(r, "watch") THEN "ok"
               ELSE IF Granted(found[r], subscribed) /\ found[r].key # None
                    THEN "row" ELSE "denied")
    /\ UNCHANGED <<data, ask, found, sought, fetched, history>>

\* The row that names the object: the course's, once more, or the document's.
ReadRow(r) ==
    /\ pc[r] = "row"
    /\ LET key == IF Does(r, "watch") THEN course.key
                  ELSE IF ask[r].document \in documents THEN ask[r].document ELSE None
       IN  /\ sought' = [sought EXCEPT ![r] = key]
           /\ Goto(r, IF key = None THEN "denied" ELSE "get")
    /\ UNCHANGED <<data, ask, found, member, fetched, history>>

GetObject(r) ==
    /\ pc[r] = "get"
    /\ Goto(r, IF sought[r] \in objects THEN "ok" ELSE "missing")
    /\ UNCHANGED <<data, ask, locals, history>>

-----------------------------------------------------------------------------
\* An error in any other statement, before it took effect, or the end of the
\* process, at any await.
Die(r) ==
    /\ pc[r] \notin Over \union {"idle"} /\ CanFail
    /\ Goto(r, "dead")
    /\ Blame(r)
    /\ stray' = stray \union {r} \union (IF pc[r] = "drop" THEN {found[r].key} ELSE {})
    /\ UNCHANGED <<data, ask, locals, lost, unseen, unfetched, patched, edited>>

Serve(r) ==
    \/ Look(r) \/ Put(r) \/ PutFails(r) \/ Commit(r) \/ CommitFails(r)
    \/ Delete(r) \/ DeleteFails(r) \/ Fetch(r) \/ FetchFails(r) \/ Save(r)
    \/ Upsert(r) \/ Recommend(r) \/ Audit(r)
    \/ ReadCourse(r) \/ ReadSubscription(r) \/ ReadRow(r) \/ GetObject(r) \/ Die(r)

Next == \E r \in Requests : (\E a \in Asks : Arrive(r, a)) \/ Serve(r)

Spec == Init /\ [][Next]_vars

-----------------------------------------------------------------------------
(* Properties *)

Rows == documents \union ({course.key} \ {None})

\* Whatever a document or the course names is in the store, with two exceptions: a
\* transaction that committed without the service learning of it (the catch block
\* deletes the object of a committed row), and a key that a PATCH wrote (update does
\* not ask whether there is such an object, or who is about to delete it).
RowsHaveObjects == Rows \ objects \subseteq lost \union patched

\* An object without a row is on its way in or out, or left there for a reason: a
\* fault at its put, its transaction or its delete, or a replacement by an upload
\* or an update that had not read its key.
InHand == {r \in Requests : pc[r] \in {"commit", "undo"}}
          \union {found[r].key : r \in {q \in Requests : pc[q] = "drop"}}
OrphansExplained == objects \ Rows \subseteq InHand \union stray \union unseen

\* A reader finds the object its row named, unless the video was replaced in
\* the meantime, its row had lost the object before, or the key came from a PATCH.
MissesExplained ==
    \A r \in Requests : pc[r] = "missing" =>
        \/ sought[r] \in lost \union patched
        \/ Does(r, "watch") /\ sought[r] # course.key

\* The lesson's title and author are those of the course's URL, whatever updates
\* cross; except that a URL whose metadata could not be fetched, or an empty one,
\* keeps the title of the lesson before it, and that a PATCH without a URL to fetch
\* may write them itself.
LessonMatchesUrl ==
    course.lesson # course.url =>
        course.url = Blank \/ course.url \in unfetched \/ edited

\* Audit and effect of an operation without a transaction: what is audited was
\* done in full, and what was done, even in part, is audited unless the request
\* is still at it or met a fault.
Acted(r) == Made(r) # {} \/ (Does(r, "subscribe") /\ pc[r] \notin {"idle", "upsert"})
TrailMatches ==
    \A r \in Requests :
        /\ r \in trail /\ Does(r, "recommend") => Made(r) = Trades
        /\ r \in trail /\ Does(r, "subscribe") => subscribed
        /\ Acted(r) /\ r \notin trail => pc[r] \in {"trade", "audit"} \/ r \in faulty

\* Rows and their objects are found together, or it is known why not.
ObjectsFound == RowsHaveObjects /\ MissesExplained

-----------------------------------------------------------------------------
(* The inductive invariant *)

\* Which kinds of requests take which steps.
StepInv ==
    \A r \in Requests :
        /\ pc[r] = "idle" <=> ask[r] = NoAsk
        /\ pc[r] \in {"look", "drop"} => Does(r, "video")
        /\ pc[r] \in {"put", "commit", "undo"} => Does(r, "document") \/ Does(r, "video")
        /\ pc[r] \in {"fetch", "save"} => Does(r, "patch")
        /\ pc[r] = "fetch" => Fetches(ask[r])
        /\ pc[r] = "upsert" => Does(r, "subscribe")
        /\ pc[r] = "trade" => Does(r, "recommend")
        /\ pc[r] = "audit" => Does(r, "subscribe") \/ Does(r, "recommend")
        /\ pc[r] \in {"row", "get", "missing"} => Does(r, "watch") \/ Does(r, "read")

\* Documents and videos have different keys, as long as no PATCH mixes them up.
VideoKey(k) == k \in Requests => Does(k, "video") \/ k \in patched
KeyInv ==
    /\ \A d \in documents : Does(d, "document")
    /\ VideoKey(course.key) /\ \A q \in Requests : VideoKey(found[q].key)

\* Nobody knows a key before its transaction has committed.
Unrecorded(r) ==
    \/ pc[r] \in {"idle", "look", "put", "commit"}
    \/ pc[r] = "undo" /\ r \notin lost
UnrecordedInv ==
    \A r \in Requests :
        /\ Unrecorded(r) => /\ r \notin documents \union trail /\ course.key # r
                            /\ \A q \in Requests :
                                  found[q].key # r /\ sought[q] # r /\ ~Names(ask[q], r)
        /\ pc[r] = "commit" => r \in objects

\* A key that was replaced never comes back, unless a PATCH brings it back.
DropInv ==
    \A r \in Requests : pc[r] = "drop" =>
        /\ found[r].key # None
        /\ found[r].key = course.key => found[r].key \in patched

\* A reader got as far as an object by a row that names it.
ReadInv ==
    \A r \in Requests :
        /\ pc[r] \in {"get", "missing"} => sought[r] # None
        /\ pc[r] = "get" /\ Does(r, "read") => sought[r] \in documents

\* The metadata in hand is of the URL that is going to be stored.
FetchInv ==
    \A r \in Requests : fetched[r] # None =>
        /\ Does(r, "patch") /\ Fetches(ask[r])
        /\ fetched[r] = ask[r].set.url

\* What has been done when the audit row is due.
ActInv ==
    \A r \in Requests :
        /\ pc[r] = "idle" => r \notin trail
        /\ Made(r) # {} => Does(r, "recommend")
        /\ pc[r] = "audit" => /\ Does(r, "recommend") => Made(r) = Trades
                              /\ Does(r, "subscribe") => subscribed

IInv ==
    /\ TypeOK /\ StepInv /\ KeyInv /\ UnrecordedInv /\ DropInv /\ ReadInv /\ FetchInv /\ ActInv
    /\ RowsHaveObjects /\ MissesExplained /\ OrphansExplained /\ LessonMatchesUrl /\ TrailMatches
=============================================================================
