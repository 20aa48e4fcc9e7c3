# Verification of the rural skill and livelihood platform

TLA+ models of the concurrent and failure-prone parts of this repository, TLC
configurations that check them on small instances, and TLAPS proofs of their
main safety properties for every value of the constants. Paths below are
relative to `dhisoft-rural-skill-backend/src/` unless they begin with another
directory of the repository.

## 1. The system and its components

A NestJS backend over PostgreSQL (Prisma), three worker processes, a Next.js
frontend, and five external services behind ports: a Kafka-compatible stream,
EventBridge, SQS, S3 or the local filesystem, and Redis.

| Component | State it keeps | Operations | Correct when |
| --- | --- | --- | --- |
| **Outbox and publisher** (`events/outbox.service.ts`, `workers/outbox-worker.ts`) | rows of `OutboxEvent`: `publishedAt`, `availableAt`, `lockedAt`, `attempts`; each publisher's place in its batch | `enqueue` inside a request's transaction; `claimOne`; `publishPending` | a committed event is delivered at least once before it is marked, an uncommitted one never; every committed event is published; duplicates only after a failure or an expired claim |
| **Event consumers** (`events/event-consumer.service.ts`, `events/event-consumers.ts`, `workers/event-consumer-worker.ts`, `infrastructure/adapters/stream.adapters.ts`) | `ProcessedEvent` receipts, committed offsets | `subscribeMany`, `processOnce`, five handlers | a handler's effect happens once per event, or there is a reason; the partition is never stuck |
| **Certificate queue and worker** (`workers/certificate-worker.ts`, `infrastructure/adapters/queue.adapters.ts`) | SQS messages, receipts, `Certificate`, `Document`, stored artifact | receive, receipt, look-up, put, transaction, delete, cleanup | a passed result gets one certificate with a stored, correctly recorded artifact; a job is retried or dead-lettered |
| **Event routing** (`events/event-publisher.service.ts`, `workflowEvents` in `workflow/workflow.service.ts`) | none | `topicForEvent`, `eventTypesFor` | every emitted event has a subscribed topic |
| **Workflow service** (`workflow/workflow.service.ts`) | some forty domain tables | `create` with the enrolment gates, `update`, `subscribeToCourse`, `courseAccess`, `recommend`, `list`, `report` | gates hold under concurrent requests; event and row commit together; what is audited was done |
| **Candidates** (`candidates/candidates.service.ts`) | `Candidate.status` | `create`, `verify` | one candidate per mobile number; only verified ones enrol |
| **Sessions** (`auth/auth.service.ts`, `auth/auth.guard.ts`) | `AuthSession`, refresh-token families, `tokenVersion`, failed-login counter, reset token; the cookies of the browsers | login, guard, refresh, logout, logout of all, reset | what was ended stays ended; nobody is signed out without a cause; failures are counted |
| **Documents and videos** (`storage/storage.service.ts`) | object keys, `Document`, `Course.videoStorageKey` | put, transaction, compensating delete, read | every row has its object, and objects without a row are accounted for |
| **Dashboard** (`dashboard.service.ts`) | one cache entry per tenant, 45 s TTL | cache-aside read, invalidation by events | staleness has a cause and an end |
| **Frontend** (`dhisoft-rural-skill-frontend/src/lib/api.ts`, `components/workflow-page.tsx`, `components/course-catalog.tsx`) | list rows, request sequence, form, panel | refresh on 401, list load, creation, lesson upload, course access | the list answers the last thing asked and shows what was created; nothing typed once is stored twice unless an answer was lost |
| **Seed and cleanup** (`dhisoft-rural-skill-backend/prisma/seed.ts`, `scripts/cleanup-generated-test-data.mjs`) | none: they empty tables | delete in order, create, delete in a transaction, delete objects | foreign keys allow the order; no more goes than should; both can be repeated |
| Permissions, health, certificate verification, notifications, controllers | none | table look-ups, probes, one read, a log line | not modelled: stateless |

How they interact: a request writes its rows and an outbox row in one
transaction. A publisher claims the row, sends the event to the topic named by
its type, and integration events also to EventBridge. Each consumer group runs
its handler through `processOnce`; the `certificate-consumer` handler turns
`training.assessment.passed` into a message on the certificate queue, the
`dashboard-cache-invalidation` handler deletes the tenant's cache entry. The
certificate worker writes the artifact, the certificate and, again through the
outbox, `training.certificate.issued`.

What is hard, and hardly reached by a test: every process may run several
times and die between two awaits; claims, visibility and partitions expire
under a holder that is only slow; an answer may be lost after the call took
effect; a check and the write that depends on it are separate statements
nearly everywhere. `PROJECT.json` lists these hazards at their lines, each with
the properties that cover it.

## 2. Modules

| Module | Models |
| --- | --- |
| `EventDelivery` | the contract of the outbox: at-least-once delivery of committed events on every channel of their route, then settled; nothing about duplicates or order |
| `Outbox` | the publishers, one action per await of `publishPending` and `claimOne` |
| `OutboxProperties` | its properties, the refinement to `EventDelivery`, its inductive invariant |
| `OutboxProofs` | TLAPS proofs |
| `EventConsumer` | one consumer group on one partition, with its properties and invariant |
| `EventConsumerProofs` | TLAPS proofs |
| `CertificateWorker` | the SQS queue and the worker's loop, with its properties and invariant |
| `Enrollment` | requests that register and verify candidates, enrol them and update enrolments and batches, with their properties and invariant |
| `EnrollmentProofs` | TLAPS proofs |
| `Sessions` | browsers, `AuthGuard` and `AuthService`, one action per statement, with its properties and invariants |
| `StagedRequests` | uploads, course updates, subscriptions, recommendations and reads, none of which is one transaction, with their properties and invariant |
| `Dashboard` | the cached figures, the events of the changes, their topics and the invalidating group, with its properties and invariant |
| `ListPage` | the two list components of the frontend and their requests, with their properties and invariant |
| `Maintenance` | the seed and the cleanup against the foreign keys, with their properties and invariant |
| `CertificateWorkerProofs`, `SessionsProofs`, `StagedRequestsProofs`, `ListPageProofs` | TLAPS proofs |
| `DashboardMaintenanceProofs` | TLAPS proofs about the two components that are about whole tables; `Maintenance` has names of its own (`MInit`, `MNext`, `MSpec`, ...) so that one module can extend both |
| `MC...` | instances for TLC |

Operators whose comment begins "Seeded bug" are plausible mistakes in the
definition they precede. No action uses them; replacing the definition by one
of them must make TLC report the property `PROJECT.json` names beside it.

### Outbox

`txn[e]` follows the request's transaction: publishers see a row only when it
is "committed", and `createdAt` is drawn before the commit, so commit order
and `createdAt` order may differ. Time appears only as the comparisons the
code makes: `locked[e]` is free, fresh or stale (older than five minutes),
`available[e]` says whether the back-off is over. `sawStale[w]` stands for the
`stale` instant that `claimOne` computes once and uses in both statements: a lock
that turns stale between them does not match the update.

| Action | Code |
| --- | --- |
| `Enqueue`, `EndTransaction` | `outbox.enqueue` and the end of the request's transaction |
| `FindOldest`, `FindNothing` | `findFirst` in `claimOne` |
| `Claim`, `ClaimLost` | `updateMany`: `count` is 1 or 0. A lost claim returns null, which ends the batch |
| `StreamPublish`, `BusPublish` | acknowledged, refused, or stored with the answer lost |
| `MarkPublished`, `MarkFails` | the success update; its failure, applied or not, runs the catch block |
| `RecordFailure` | the failure update, by id whoever holds the claim, and its dropped error |
| `WakeUp`, `Crash`, `Restart` | the polling loop, process death (SIGTERM does not wait for the batch) and the supervisor |
| `LeaseExpires`, `BackoffElapses` | time |

Left out: the length of the back-off (2^min(attempts, 8) seconds, so the
300-second cap is never reached), the text of the last error, and the graceful
part of a shutdown. A failing `findUnique` after the claim is a `Crash`, since
nothing catches it.

### EventConsumer

The log is the partition; an event may stand on it more than once because the
outbox repeats deliveries. `pos[i]` is the message instance `i` resolved last or
has in hand; `owner` is the instance the partition is assigned to. `Assign` may
take the partition from a live instance that is too slow, which then finishes
its message without knowing; `CommitOffset` is the group's autocommit, some time
after a message is resolved. `InsertReceipt`, `SkipDuplicate`, `InsertFails`,
`Handle`, `HandleFails`, `DeleteReceipt` and `DeleteFails` are the paths of
`processOnce`; a throw resets the position so that the message comes again. The five groups differ in their
handler only, and a receipt carries the group's name, so groups do not
interfere and one stands for all. A handler is one effect that may fail before
or after it took place. Assignment and offset commits belong to Kafka and are
marked external in the map.

### CertificateWorker

A message is unsent, visible, in flight, deleted or dead (in the dead-letter
queue). A worker receives a batch, so that the visibility timeout of the last
message runs while the first is processed. `handle` is the receive count a
worker got its message with; a delete with an outdated handle may or may not
remove the message. The three functions `IdOf`, `ResultOf` and `AwardOf`
describe what the messages are about: the same `messageId` sent twice, a result
that was updated after it passed (a new event, hence a new id), two results of
one candidate and course. A payload is represented by its `generatedAt`, so that
two payloads of one result are different, as their hashes are. `Fails` is any
error inside the inner `try`, before or after the call took effect;
`InsertFails`, `SkipFails` and `CleanupFails` are errors outside it, which end the
process. Revocation of a certificate is not modelled.

### Enrollment

Each element of `Requests` is one HTTP request, and the row it creates carries
its name. `asked[r]` is what it asks for, one record type per endpoint:
`register` and `verify` (`CandidatesService`), `enrol` (`POST
/workflow/enrollments`), `move` and `resize` (`PATCH` of an enrolment and of a
batch, which go through the generic `update` and its gates: none). `pc[r]`
follows the statements: `Check` is what is looked up before the transaction,
`Begin` takes a connection, `References` is `assertReferences`, `Look` and `Count`
are the gates of an enrolment, `Write` the insert or update, `Commit...` the end.
A `Write` is visible to others from its commit on. It waits for open writes of
the same row or unique key and fails with P2002 when the key is there
(`Blocks`, `PlaceKeyTaken`, `MobileKeyTaken`): this is PostgreSQL under READ COMMITTED, the default,
which the code never changes. `trail` holds the requests whose audit and
outbox rows were committed with their change; what becomes of the outbox row is
`Outbox`. `Abort` is a crash, a database error or one of Prisma's time limits.

Left out: the tenant (every look-up is by tenant, one is modelled), columns
no gate reads, and rows of other resources.

### Sessions

A session, a refresh token and the access token issued with it are named by the
request that created them (`tokens[t]` has the session and the `tokenVersion`).
`jar` is what a browser's cookies hold, shared by its tabs; `card[r]` is what
request `r` was sent with, which may be older by the time it is served.

| Action | Code |
| --- | --- |
| `Send`, `Offer`, `Retry`, `GiveUp` | `api()`: the first attempt, the refresh after a 401 outside `/auth/`, the repetition, the error |
| `Guard` | `AuthGuard.canActivate`: signature and age of the access token, session, `tokenVersion`, CSRF token for anything but a read |
| `ReadToken`, `UseToken`, `IssueNext`, `RevokeFamily`, `RevokeSession` | the statements of `refresh`; `Receive` stores the answer's cookies |
| `EndSession`, `EndTokens`, `BumpVersion`, `EndAll`, `EndAllTokens`, `Clear` | the statements of `logout`, and the cleared cookies |
| `Lookup`, `CountFailure`, `CreateSession`, `IssueFirst`, `ClearCounters`, `Welcome` | the statements of `login`, and its cookies |
| `CheckReset`, `Reset` | `resetPassword`: a check, then one transaction |
| `GuardFails` | an error inside the guard, which its catch block answers with a 401 like any refusal: `api()` refreshes and repeats |
| `Fault`, `AccessLapses`, `LockLapses` | any other failing statement or a lost answer; fifteen minutes |

Left out: the seven-day expiries, users and tenants that are not ACTIVE,
`forgotPassword` (which adds a reset token; the model has one to use), audit rows
and `lastSeenAt`, which nothing reads.

### StagedRequests

`Look`, `Put`, `Commit`, `Drop`, `Undo` are an upload: the key the video has now, the
object, the transaction, the deletion of the object replaced, and the catch block.
`CommitFails` rolls back, or commits and loses the answer; both run the catch
block. `Fetch` and `Save` are `update` of a course with oEmbed before the
transaction; a URL stands for the metadata YouTube has of it. `update` drops only the
columns in `blocked`, and neither the video's key nor the lesson's columns are among
them, so a PATCH sets any subset of the four columns modelled to anything
(`Patches`; `Typed` is a text that is no object's key and no URL's metadata). Metadata
that was fetched, or the NULL of a NULL URL, is assigned over it (`Lesson`). Keys contain
a random UUID: a PATCH can name one only when it has been on record (`Sayable`).
`patched` and `edited` remember what came from a PATCH. `Upsert`, `Recommend`
and `Audit` are `subscribeToCourse` and `recommend`, whose statements no transaction
encloses. `ReadCourse`, `ReadSubscription`, `ReadRow` and `GetObject` are the readers:
`courseAccess`, then the row again, then the object. Left out: file types and sizes
(checked before anything changes), byte ranges, the score of a recommendation.

### Dashboard

`rows` are the rows behind the figures; the candidates who are not verified and those
who are are two parts of one table, which `Figure` adds up as COUNT does. `Create(c)` is a
new row, `Verify` the verification of a candidate (also of one who is verified already),
`Update(c)` the workflow's update, which emits the events of a creation and may take a
certificate out of the active ones; each with its events in one transaction (`Write`).
`Emits` is `workflowEvents`, `assessmentEventTypes` and the events of the other services. An
event type is the sequence of its words, so `topicForEvent` is `Head`. `Count` reads one
figure at a time, `Set` stores what was counted, however long ago. The consumer
group takes events in any order (`Invalidate`) or dies between receipt and handler
(`Lose`, the loss `EventConsumer` explains). A cache that fails looks like one without
an entry. `late` and `during` remember what happened while a reader was counting. Left
out: rows the seed and the cleanup delete (`Maintenance`).

### ListPage

One variable `page` says which component is mounted: `WorkflowPage` numbers its
requests, `CourseCatalog` does not. A request is a record in `flight`, answered
when it has been `served`; answers arrive in any order (`Loaded`, `Created`,
`Uploaded`, `AccessShown`) or not at all (`Fail`). A form entry has a number, which
changes when the form is cleared; a record on the server is the entry it was made
from. `list` answers with at most a page of the rows that match the filter and the
search, in the order of random identifiers, so a load answers with any set of at most
`PageSize` records (`Pages`); what it leaves out is remembered in `omitted`. The order of
the rows makes no difference to any action or property. Left out: other pages (the
candidates page loads once and shows no spinner), the text of errors.

### Maintenance

A database maps each row to the rows it refers to; `Requires` and `Optional` are the
relations of the schema. A row is `<<table, origin>>`: one row from the seed per table, any
number under a browser test's names (`Tests`) and any number of others (`Others`); TLC takes
one of each, which tells the scripts' cases apart. `Starts` is any set of databases whose
foreign keys hold.
`DeleteTable` and `CreateRow` are the statements of `seed.ts`, each on its own.
`StartCleanup` is the first read of `cleanup-generated-test-data.mjs`, of the courses with
their lessons; `ReadRest` is the others, each of which may or may not see a row written
since. `Commit` or `Refuse` is its transaction: `LinksAt(k)` is what is in the way of statement `k` when those before it have
run, `Refuse` ends at the first that has any, `Commit` takes place when none has.
`DeleteLesson` is what follows the commit. `WriteRow`, `Handle` and `Upload` are the
application, `Crash` the end of a script anywhere. An upload goes well (`Replace`), leaves
the lesson before or loses the answer of its commit (`ReplaceHalfway`; `undone` has the
lessons it deleted then, though they are on record), or is rolled back and leaves its own
object (`LeaveBehind`); that it is several steps matters to other requests, and those are
`StagedRequests`.

## 3. Runs

| Run | Question | Bounds |
| --- | --- | --- |
| `outbox` | safety, the refinement, the invariant used in the proofs, and is every committed event published, whatever look-up order and batches do? | 2 publishers, batch of 2, 1 crash; and either 1 event with 2 failures, or 2 events (1 integrated) without (`OneTrouble`) |
| `consumer` | safety and progress of a group | 2 events, 2 instances, log of 2, 1 failure per event, 1 crash, 2 rebalances |
| `certificate_replay` | one job sent twice: safety, the invariant used in the proofs, and progress | 2 workers, batch of 2, 3 receives, 1 failure, 1 crash, 1 timeout, S3 |
| `certificate_race` | two jobs of one award | 2 workers, batch of 2, 2 receives, 1 failure, 1 crash, 1 timeout, local files |
| `enrollment` | the overbooking bound, verification, unique keys, every request answered; the invariant used in the proofs | 3 requests of 13 kinds of ask, 4 candidates, 2 batches, 2 connections |
| `sessions` | do endings last, are refreshes refused for a cause, do cookies and counters agree? (`WellFormed` is the invariant of the proofs) | 3 requests of 2 browsers (everything but a page's writes in the one, logins and reads in the other), 1 cut-off call, 1 expiry or error in the guard, 3 failures counted before |
| `sessions_logout` | does a logout end access? (no) | the same |
| `staged_requests` | rows and objects, lesson and URL, audit and effect; the invariant used in the proofs | 3 requests, 2 faults, 2 URLs, 2 trades; PATCHes of each column to each of its values and of two pairs of columns |
| `dashboard` | freshness, agreement, the invariant used in the proofs, and the end of staleness | 2 readers, 2 changes of 3 kinds, 1 lost event |
| `dashboard_topics` | does every event of the catalogue reach a consumer? (no) | 2 readers, 2 changes: a registration, a counselling session |
| `list_page` | newest answer, created record, form, spinner and panel; the invariant used in the proofs | 5 requests, 1 lost answer, 2 courses, pages of at most 2 rows |
| `maintenance` | order and extent of the deletions (the three invariants together are the invariant of the proofs) | 1 row per table and origin, 2 disturbances (a row written, a script that dies, an upload that meets a fault), 2 lessons, three databases to start from (empty, seeded, a row in every table) |

Why the bounds are enough: a bound is on environment events (failures, crashes,
rebalances, timeouts), never on what the program does in reply. One or two
of each, with two processes, give all pairwise interleavings of a step with a
failure, an expiry and the recovery; the third process or the second failure
of a kind adds repetitions of the same situations. Three requests are
what it takes to overfill a batch of one by more than two connections explain, to
register, verify and enrol one candidate, to log out while two others refresh,
or to replace a video twice while somebody watches it. Two changes and two
readers are a verification that one reader counts half of and another serves from the
cache. Five requests of a page are two loads around a submission, with its
repetition; with up to three records a page of two leaves one out. A PATCH of more columns
than the two pairs of `staged_requests` does to each what a PATCH of it alone does. A second
event of the outbox is there for the look-up order, so it need not fail (`OneTrouble` in
`MCOutbox` forbids it: both at once are some ten million states); whatever may fail may also
succeed, so the restriction asks nothing impossible of the fairness. A database has up to
three rows per table because the scripts distinguish no more kinds. The safety results do not depend on the bounds at all: section 4
proves them for all values.

Symmetry is used for requests, workers and courses that nothing tells apart, in
runs without liveness only.

`CHECK_DEADLOCK FALSE` stands in every configuration but that of the outbox: their
bounded logs, queues, requests and changes really come to rest. The outbox never does.

Fairness. Weak fairness of a publisher's or a worker's own next step (the
loops run until killed and every await returns), of its restart (deployed under
a supervisor), and of time (claims grow stale, back-offs end, an unattended
message becomes visible again, one over its limit is redriven, a cache entry gets
old); for the consumers also of the stream (an unowned partition is assigned,
resolved messages are committed), for `Enrollment` of the server's next step of each
request, and for `Dashboard` of a reader's next step (`FairSpec`) and, in `dashboard_topics` only, of the group's
handling of each event (`HearingSpec`). Nothing is assumed of requests, failures, crashes, rebalances of a
live owner, a timeout of a message somebody holds, or aborted transactions. No
strong fairness is used. `Sessions`, `StagedRequests`, `ListPage` and `Maintenance`
promise nothing in the end (a user may leave, an operator may not come back), so
they state none.

What the runs show beyond the properties that hold:

- **Logout with an expired access token** (`sessions_logout`). It gets a 401, is not
  repeated because its path begins with `/auth/`, and the page goes to `/login` all
  the same: session and cookies live on. What a logout that was answered has ended
  stays ended (`ClosedForGood`).
- **Back-off.** `docs/OUTBOX-PATTERN.md:21` has a failure schedule a back-off.
  `claimOne` tests `availableAt` when it looks a row up and not when it
  claims it, so a publisher that had looked it up before retries at once.
- **A receipt without its effect.** The receipt is committed before the handler
  runs. A crash in between loses the effect, and the redelivery is skipped.
  `LossesAccounted` states exactly when this can happen. The certificate
  worker has the same shape: `LossesExplained` says when a job leaves the queue
  unfinished. A repeated effect: a handler that throws after its effect is run
  again; `RepeatsAccounted` states the bound that does hold.
- **Two certificates, rewritten artifact.** Updating a passed result emits the
  event again under a new id. Two workers may both issue a certificate; one
  worker replaces the artifact that a document row describes by its hash.
  `CertificatesAccounted` and `HashesExplained` state what is left.
- **Overbooking.** Two creations count the rows of a batch before either commits.
  `OverbookingBounded` says how far it can go.
- **Age.** The age rule subtracts years (`candidates.service.ts:19`): whoever turns 18
  later this year is registered as an adult, and nothing after it looks at the
  date of birth again.
- **Objects and rows.** A commit whose answer is lost runs the catch block, which
  deletes the object of a committed row; a video cleared or replaced by one who had
  not read its key leaves the object behind. A PATCH may write `videoStorageKey` itself, since
  `blocked` (`workflow/workflow.service.ts:14`) has `storageKey` only: the row then names an object that
  is not there, or one that a replacement is about to delete. `ObjectsFound` and
  `OrphansExplained` say that there is no other way.
- **Lesson metadata.** When oEmbed does not answer, the new URL is stored with the
  title and author of the lesson before it; an empty URL keeps them as well, and a PATCH
  without a URL to fetch may write them itself (`LessonMatchesUrl`).
- **Events nobody hears** (`dashboard_topics`). `docs/EVENT-CATALOG.md:9` has `counselling.completed` on
  `candidate-events`, consumed by audit and analytics. Its topic is `counselling-events`, by its first
  word, and no group subscribes to that one; nor to `course-events`, where `course.video.uploaded` goes.
- **Dashboard.** Only placements among the eight figures are announced by an event that clears the
  cache: the others are right again when the entry is 45 seconds old (`PlacementsAreFresh`,
  `ExactInTheEnd`). The eight counts have no common snapshot: an answer may have more verified
  candidates than candidates, by those registered while it was counted (`FiguresAgree`).
- **Lists.** A submission voids a load that is on its way and nothing repeats it; a
  load sent while a creation is under way may drop the record or show it twice; a load
  sent after it may leave it out, because the order is by random identifiers and a page
  has twenty rows, and because the page puts its own record there whatever the filter; a
  lost answer of a creation leads to a second record (`NewestIsShown`,
  `CreatedIsListedOnce`, `StoredOnce`).
- **Seed.** It deletes neither `OutboxEvent` nor `ProcessedEvent`, which refer to the
  tenants: on a database that was used it fails at its last deletion, with all the
  rest gone, and leaves the stored lessons behind (`SeedIsSound`, `LessonsExplained`).
- **Cleanup.** It passes rows where identifiers are expected for placements and
  applications (lines 45-50), and does not follow all references (`NotFollowed`), so it is
  refused when such rows exist; a lesson uploaded after its first read stays
  (`CleanupIsSound`, `LessonsExplained`).
- **Errors in the guard.** A database error there is a 401 like any other: `api()` refreshes and
  repeats, and for a logout, which it does not repeat, the page goes to `/login` with the session
  alive, as after an expiry.
- With local storage (`WriteOnce`) a repeated put is refused, so a job
  whose transaction failed after its put fails until the queue gives it up;
  `EventuallyIssued` is therefore checked for the overwriting storage only.

## 4. Proofs

TLAPS checks every theorem for arbitrary sets of events, processes and all
bounds, from the named assumptions of the modules: a null value is none of the
values it stands beside, integration events are events, each job has a result and each
result an award, batch sizes and pool are positive, bounds are naturals and, where a
proof counts them, the publishers and the requests of an enrolment are finite.

**Outbox** (`OutboxProofs`). `SinglePublisher` and `DuplicatesAccounted` are not inductive.
`IInv` adds: `CommittedInv` (whoever holds a row holds a committed one),
`ProgressInv` (what a publisher past a publish knows of the broker), `LeaseInv`
(until a claim expires its holder has the lock or has marked the row, and
nobody can have seen the lock stale), `ClaimsInv` (claims are paid for by failures
and expiries, except the current one) and `SpendInv` (deliveries plus publishers
that still owe one are at most the claims). `Invariance` is `Spec => []IInv`; from it
follow type correctness, `PublishedAreDelivered`, `DeliveredAreCommitted`,
`OnePublisherPerLease`, `DuplicatesArePaidFor`, the action property `PublishedIsFinal`, and
`OutboxImplementsDelivery`, the refinement of `EventDelivery` step by step.

**Consumers** (`EventConsumerProofs`). `IInv` has two halves. The lock:
an instance past the insert has the receipt (`HolderInv`), and before a receipt
is there or while it is held no run has finished (`EffectInv`); from it
`HandlersExclude`, `RepeatsArePaidFor` and `FinishedIsFinal`. The losses: a receipt whose event is
not safe is held (`ReceiptInv`), what an instance without the partition has in
hand was reported (`NonOwnerInv`), and what the owner has resolved is safe
(`ResolvedInv`); since only the owner commits, `LossesAreExplained` follows.

**Enrolment** (`EnrollmentProofs`). The pool is what bounds overbooking. `AdmittedInv`
counts rows together with the creations that are past the check (`Admitted`):
to pass it, a creation saw fewer rows than a capacity the batch has had
(`LookedInv`), and everyone past it holds one of `PoolSize` connections (`PoolInv`), so the sum
is at most that capacity plus `PoolSize - 1`; a commit moves one from `Admitted` to the
rows, and a `PATCH` into the batch is counted by the trail. `OpenWriteInv` (an open write has its
row and key for itself) carries `NoDuplicates`. From `Invariance` follow
`OverbookingIsBounded`, `EnrolmentNeedsVerification` and `KeysAreUnique`. The assumptions: finitely many requests, a
pool of at least one connection, and initial candidates with different mobile
numbers.

**Certificates** (`CertificateWorkerProofs`). The receipt is the lock here too
(`HolderInv`, `OneWorkerPerJob`), and the rest of `IInv` is about what a worker relies on.
`StoredInv`: a payload is stored before it is recorded, so documents have their artifact
(`RecordedAreStored`). `SeenInv`: what an attempt found at its look-up is still there.
`RaceInv`: for an award that is not raced, at most one attempt is without its certificate,
and only while there is none; a second certificate is therefore a race
(`DoubleAwardsAreRaces`). `HashInv`: the only job of a result, with neither failure nor
interruption, has one attempt, whose payload is the one stored and recorded
(`HashDriftIsExplained`). For `LossesAreInterruptions` one has to know that a message of an
uninterrupted job is in one hand only (`HandInv`), that its receipt means it is done or in
hand (`ReceiptInv`), and that whenever a duplicate was deleted, or is about to be, the queue has
another message of the job that is nobody's duplicate (`LiveInv`): a worker finds the receipt
of an unfinished job only while another holds it with a message of its own.

**Sessions** (`SessionsProofs`). `ClosedForGood` speaks of requests that
are over, so it is not inductive. `IInv` adds: a request takes only the steps of its operation
(`Routed`); tokens belong to sessions, cookies hold tokens, and a request issues at most
one (`Known`); and what a logout or a reset was sent after is over, and the sessions it
covers are revoked once it has passed that statement (`Ended`). The last part is the heart:
a login that was under way meanwhile may still add a session, but only its own, and it
is not among the requests that were over. Since the guard refuses a revoked session, and
`RowsGrow` says that no step takes a revocation back (`SessionsOnlyGrow`), `ClosedForGood` follows.
`RefreshesExplained` needs `Refreshed` as well: a browser keeps and offers only tokens
sent to it (`JarsOwn`, `OffersOwn`), whoever got an answer holds another token than it offered
(`AnswersMoveOn`), two refreshes with one token have met or one was cut off (`OffersMet`), and a spent
token has a request that used it (`SpentByOffer`). `SessionsWellFormed` adds `Fitting`, of which
`SessionsCookiesAgree` and `SessionsFailuresCounted` are parts: a refresh under way has the
token of the session its browser has the csrf_token of, or crossed a login or a logout (`Fits`);
and without rival logins whoever is about to count a failure has read the counter as it is
(`CountInv`). The assumptions: names differ, the
home browser is one of the browsers, and the bounds are naturals.

**Uploads and staged requests** (`StagedRequestsProofs`). A key is the name of the request
that made it, so everything rests on who can know it: nobody before its transaction has
committed (`UnrecordedInv`), documents and videos never share one (`KeyInv`) and a key that was
replaced does not come back (`DropInv`), unless a PATCH wrote it, which `patched` remembers. Hence a
catch block or a delete takes the object of a row only if the commit's answer was lost or a PATCH
put its key there (`RowsAndObjectsMeet`), and what is left over has its
reason (`OrphansHaveReasons`). `FetchInv` keeps metadata with its URL (`LessonsStayTogether`, with `edited` for what a PATCH wrote), `ActInv`
says what has been done when the audit row is due (`TrailsAreHonest`).

**Dashboard** (`DashboardMaintenanceProofs`). `PartialInv`: what a reader has counted as
candidates lacks at most those registered since, and nobody stops being verified, so what it has counted
as verified is still there. From it `FiguresFitTogether`, which needs no bound on verifications, with `AgreeInv` for the entry, and `FreshInv`: a number of
placements on its way to the cache is right, or an event that will clear it is under way, or the
reader is known to be late. `PlacementsStayFresh` says the same of the entry and is part of `IInv`.

**List pages** (`ListPageProofs`). `NewestInv` is what `requestSequence` is for: no load but the
newest will be taken, and that has arrived or is on its way (in `CourseCatalog`, which has no
number, as long as it was sent alone); from it `NewestStaysShown`. `RowsInv` and `DataInv` say that
rows no submission crossed have every record the page was told of, once, or their load left it out
(`Lists`), and lack the one of a submission on its way; from them `CreatedAreListedOnce`. `SubmitInv`, `RecordInv` and `CopyInv` (one
submission at a time, whose record nobody was told of; a copy of what the form holds is a loss
or a submission on its way) carry `CopiesAreLosses`, `SpinInv` and `PanelInv` the two theorems about
spinner and panel. The lemmas `PutBefore` and `CopyAdded` say what a step does to the rows and to the copies.

**Seed and cleanup** (`DashboardMaintenanceProofs`). The two lists and the relations of the schema
are data, and the proofs begin with what they have to do with each other: `SeedOrder` (every table
is emptied, after all that require it), `CreationOrder`, and `CleanupOrder` (a table has one statement;
a reference that is followed has the statement of the referring table first, which selects through
it, or the reads did). To prove them each table gets its place in the list (`Place`, `Turn`), which
turns an order into arithmetic. `MInv` adds to the properties where the scripts are.
`SeedInTurn`: what has been emptied has recent rows only, and the rows created so far are there; a
reference to the next table therefore comes from a recent row. `CleanupReadsAll`: the rows read are
still there with what they were found through, and no older row that refers to them is missing. From it
`LinksAreExplained` (whatever is in the way of a statement is recent or not followed) and
`OnlyWhatHangs`; the lemma `NothingIsLeftHanging` is the transaction's side of the foreign keys:
statements none of which fails leave no reference to what they delete. `LessonsNumbered` keeps the lesson read apart
from one uploaded later. The theorems are `SeedFailsForCause`, `CleanupFailsForCause`,
`MaintenanceWellFormed`, and two of its parts that matter by themselves: `ForeignKeysHold` and
`NamedLessonIsStored`: no script takes a lesson that is still named, but an upload may have deleted its
own after a commit whose answer was lost. They hold for any database to start from whose foreign keys hold, any set of
tables the application writes to, any number of rows with and without marked names, of scripts
that die, of uploads, and of faults they meet; TLC has one row of each kind per table. `MaintenanceAssumption` is all they
assume; that relations lead to tables, which is part of it, TLC evaluates on the relations.

Every safety invariant and action property that a run checks is stated by a theorem. Only model-checked:

- All liveness (`EventuallyPublished`, `EventuallyCommitted`, `EventuallyIssued`,
  `EveryRequestAnswered`, `ExactInTheEnd`): fairness and ENABLED are beyond the prover.
- `sessions_logout` and `dashboard_topics` are counterexamples, not properties that hold.

## 5. Order of the work and what is left

Most important behaviour first: the outbox, because every other component hands its
events to it; the consumers; the certificate worker, which composes receipts,
queue, storage and outbox; enrolment; then sessions, staged requests, dashboard,
list pages and the maintenance scripts. The proofs came in the same order. What would come
next: liveness, with a prover that handles ENABLED, beginning with `EventuallyPublished`.

Not modelled: permissions, health probes, certificate verification, notifications and
controllers (stateless); `forgotPassword`; `report` (counts without a cache, as torn as
the dashboard's); migrations (data); the in-memory adapters (single-process
stand-ins that worker processes cannot share); the start of a new group, which
does not see events published before it first subscribes (`fromBeginning: false`);
provisioning, except for the queue's attributes; the test scripts; page layout.
