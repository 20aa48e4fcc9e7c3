---------------------------- MODULE Maintenance ----------------------------
(***************************************************************************)
(* The two scripts that delete rows while the foreign keys of the database *)
(* watch: prisma/seed.ts empties the tables one statement at a time and    *)
(* writes the pilot data; scripts/cleanup-generated-test-data.mjs reads    *)
(* what the browser tests left, deletes it with what hangs on it in one    *)
(* transaction, and then deletes the lessons from the object store.  The   *)
(* application writes meanwhile, and a script may die between two steps.   *)
(* A row is <<table, origin>>: "pilot" for what the seed wrote, a member of *)
(* Tests for what a browser test wrote under a marked name, and one of     *)
(* Others for the rest.  (Names begin with M where Dashboard, whose proofs  *)
(* stand in one module with these, has the others.)                        *)
(***************************************************************************)
EXTENDS Naturals, Sequences, Functions

CONSTANTS
    Written,        \* the tables the application writes to
    Tests, Others,  \* the origins of rows written under marked names, and of others
    Starts,         \* the databases to start from
    MaxDisturbances,    \* bound: rows the application writes, scripts that die and
                    \* uploads that meet a fault
    MaxUploads      \* bound: uploads of the marked course's lesson

-----------------------------------------------------------------------------
(* The schema *)

\* Required references: the row they lead to cannot be deleted (ON DELETE
\* RESTRICT).  OutboxEvent and ProcessedEvent are variables of their own.
Requires ==
    [tenant |-> {}, user |-> {}, auditEvent |-> {}, candidate |-> {"tenant"},
     trade |-> {"tenant"}, trainingPartner |-> {"tenant"}, trainingCentre |-> {"tenant"},
     trainerProfile |-> {"tenant"}, employer |-> {"tenant"}, serviceArea |-> {"tenant"},
     invitation |-> {"tenant"}, complaint |-> {"tenant"}, payment |-> {"tenant"},
     payout |-> {"tenant"}, document |-> {"tenant"},
     consent |-> {"candidate"}, incomeRecord |-> {"candidate"},
     enrollment |-> {"candidate", "batch"}, jobApplication |-> {"candidate", "vacancy"},
     placement |-> {"candidate", "employer", "vacancy"}, retentionFollowUp |-> {"placement"},
     authSession |-> {"tenant", "user"}, passwordResetToken |-> {"tenant", "user"},
     refreshToken |-> {"tenant", "user", "authSession"},
     course |-> {"tenant", "trade"}, courseSubscription |-> {"tenant", "course", "user"},
     curriculumVersion |-> {"course"},
     batch |-> {"tenant", "course", "curriculumVersion", "trainingCentre"},
     timetable |-> {"tenant", "batch"},
     attendanceRecord |-> {"tenant", "candidate", "batch", "enrollment"},
     practicalAssignment |-> {"tenant", "candidate", "batch", "enrollment"},
     evidenceFile |-> {"tenant", "candidate"}, evaluation |-> {"tenant", "practicalAssignment"},
     assessment |-> {"tenant", "batch", "course"},
     assessmentResult |-> {"tenant", "assessment", "candidate"},
     certificate |-> {"tenant", "candidate", "trade", "course", "curriculumVersion"},
     counsellingSession |-> {"tenant", "candidate"},
     tradeRecommendation |-> {"tenant", "candidate", "trade"},
     candidateTradeChoice |-> {"tenant", "candidate", "trade"},
     vacancy |-> {"tenant", "employer", "trade"},
     interview |-> {"tenant", "jobApplication", "candidate", "vacancy"},
     interviewScorecard |-> {"tenant", "interview"},
     employmentOffer |-> {"tenant", "jobApplication", "candidate", "vacancy"},
     apprenticeship |-> {"tenant", "candidate", "trade"},
     serviceOpportunity |-> {"tenant", "serviceArea", "trade"},
     serviceBooking |-> {"tenant", "serviceOpportunity", "candidate"}]

Tables == DOMAIN Requires

\* Optional references: cleared when the row they lead to goes (ON DELETE SET NULL).
Optional ==
    [t \in Tables |->
        CASE t \in {"auditEvent", "user"} -> {"tenant"}
          [] t = "invitation" -> {"user"}
          [] t = "attendanceRecord" -> {"timetable"}
          [] t = "evidenceFile" -> {"practicalAssignment"}
          [] t \in {"assessment", "document"} -> {"candidate"}
          [] t = "candidateTradeChoice" -> {"tradeRecommendation"}
          [] t = "complaint" -> {"candidate", "serviceBooking"}
          [] t = "payment" -> {"serviceBooking", "placement"}
          \* the candidate of a payout is a plain column
          [] t = "payout" -> {"payment", "serviceBooking", "candidate"}
          [] OTHER -> {}]

\* Tables whose new rows come with a domain event.
Announced ==
    {"candidate", "counsellingSession", "enrollment", "attendanceRecord", "assessment",
     "assessmentResult", "certificate", "jobApplication", "interview", "employmentOffer",
     "placement", "retentionFollowUp", "serviceBooking", "incomeRecord", "payout", "document"}

Row == Tables \X ({"pilot"} \union Tests \union Others)

\* A database d gives each of its rows those it refers to.  Its foreign keys:
Consistent(d) ==
    /\ DOMAIN d \subseteq Row
    /\ \A r \in DOMAIN d :
          d[r] \subseteq DOMAIN d /\ Requires[r[1]] \subseteq {to[1] : to \in d[r]}

ASSUME MaintenanceAssumption ==
    /\ Written \subseteq Tables /\ {MaxDisturbances, MaxUploads} \subseteq Nat
    /\ "test" \in Tests /\ "pilot" \notin Tests \union Others
    /\ \A d \in Starts : Consistent(d)
    /\ \A t \in Tables : Requires[t] \subseteq Tables

\* The references that do not let the rows D be deleted: from a row that stays,
\* with its target.
Blockers(d, D) ==
    {link \in (DOMAIN d \ D) \X D :
        link[2] \in d[link[1]] /\ link[2][1] \in Requires[link[1][1]]}

Without(d, D) == [r \in DOMAIN d \ D |-> d[r] \ D]

Of(d, t) == {r \in DOMAIN d : r[1] = t}

-----------------------------------------------------------------------------
(* The lists of seed.ts *)

Emptied ==
    <<"courseSubscription", "payout", "payment", "complaint", "serviceBooking",
      "serviceOpportunity", "serviceArea", "document", "evidenceFile", "evaluation",
      "practicalAssignment", "attendanceRecord", "timetable", "assessmentResult", "assessment",
      "interviewScorecard", "interview", "employmentOffer", "apprenticeship",
      "tradeRecommendation", "candidateTradeChoice", "counsellingSession", "refreshToken",
      "authSession", "passwordResetToken", "invitation", "auditEvent", "incomeRecord",
      "retentionFollowUp", "placement", "jobApplication", "vacancy", "employer", "certificate",
      "enrollment", "batch", "trainingCentre", "curriculumVersion", "course", "trade",
      "trainerProfile", "trainingPartner", "consent", "candidate", "user", "tenant">>

\* Seeded bug: the tables of later migrations are left out.
DeletionsButSubscriptions == Tail(Emptied)

Deletions == Emptied

Creations ==
    <<"tenant", "user", "trade", "course", "curriculumVersion", "trainingCentre", "batch",
      "candidate", "consent", "enrollment", "employer", "vacancy">>

PilotRefs(t) == {<<p, "pilot">> : p \in Requires[t]}

\* What the seed leaves.
Pilot == [r \in Range(Creations) \X {"pilot"} |-> PilotRefs(r[1])]

-----------------------------------------------------------------------------
(* The lists of cleanup-generated-test-data.mjs *)

\* Tables whose rows show whether a browser test wrote them.
Markers ==
    {"course", "candidate", "trainingPartner", "trainerProfile", "trainingCentre", "batch",
     "practicalAssignment", "assessment", "apprenticeship", "employer", "vacancy",
     "serviceArea", "serviceOpportunity", "serviceBooking", "complaint", "payment", "payout",
     "incomeRecord"}

\* Tables whose rows are found by the rows they refer to.
Found ==
    [attendanceRecord |-> {"batch", "candidate"}, timetable |-> {"batch"},
     enrollment |-> {"candidate", "batch"}, jobApplication |-> {"candidate", "vacancy"},
     interview |-> {"candidate", "vacancy", "jobApplication"},
     placement |-> {"candidate", "vacancy"}]

\* What each statement of the transaction deletes: the rows of the table that
\* were read, and those that refer to rows that were read of these tables.
Statement(t, tables) == [table |-> t, by |-> tables]

Listed ==
    <<Statement("payout", {"payment", "serviceBooking", "candidate"}),
      Statement("payment", {"serviceBooking", "placement"}),
      Statement("complaint", {"serviceBooking", "candidate"}),
      Statement("retentionFollowUp", {"placement"}), Statement("placement", {}),
      Statement("interviewScorecard", {"interview"}),
      Statement("employmentOffer", {"jobApplication", "candidate", "vacancy"}),
      Statement("interview", {}), Statement("jobApplication", {}),
      Statement("serviceBooking", {"serviceOpportunity"}), Statement("serviceOpportunity", {}),
      Statement("serviceArea", {}), Statement("assessmentResult", {"assessment", "candidate"}),
      Statement("evaluation", {"practicalAssignment"}),
      Statement("evidenceFile", {"practicalAssignment", "candidate"}),
      Statement("attendanceRecord", {"batch", "candidate"}),
      Statement("practicalAssignment", {"batch", "candidate"}), Statement("enrollment", {}),
      Statement("timetable", {}), Statement("assessment", {"batch"}),
      Statement("certificate", {"candidate"}), Statement("apprenticeship", {"candidate"}),
      Statement("counsellingSession", {"candidate"}),
      Statement("candidateTradeChoice", {"candidate"}),
      Statement("tradeRecommendation", {"candidate"}), Statement("incomeRecord", {"candidate"}),
      Statement("document", {"candidate"}), Statement("consent", {"candidate"}),
      Statement("candidate", {}), Statement("batch", {}), Statement("trainingCentre", {}),
      Statement("trainingPartner", {}), Statement("trainerProfile", {}),
      Statement("vacancy", {}), Statement("employer", {}),
      Statement("courseSubscription", {"course"}), Statement("curriculumVersion", {"course"}),
      Statement("course", {})>>

\* Seeded bug: consents are forgotten.
StatementsButConsent == SelectSeq(Listed, LAMBDA s : s.table # "consent")

Statements == Listed

-----------------------------------------------------------------------------
VARIABLES
    db,             \* the rows, each with the rows it refers to
    events, handled,    \* rows that have an OutboxEvent, a ProcessedEvent
    objects, video, \* lessons in the object store; the one the marked course names
    script,         \* what the running script does next, or how it ended
    read,           \* the rows and the lesson the cleanup has read
    \* history
    disturbances, uploads,
    recent,         \* rows written since the script began
    excess,         \* rows the cleanup deleted that hang on no marked row
    abandoned,      \* lessons no script will delete that has not read them before
    undone          \* lessons deleted though their upload was committed

store   == <<objects, video, uploads, abandoned, undone>>
history == <<disturbances, recent, excess>>
mvars == <<db, events, handled, store, script, read, history>>

Idle == [at |-> "idle"]
NothingRead == [rows |-> {}, video |-> 0]
Lessons == 0 .. MaxUploads
MarkedCourse == <<"course", "test">>

MTypeOK ==
    /\ Consistent(db)
    /\ events \subseteq Row /\ handled \subseteq Row
    /\ objects \subseteq Lessons \ {0} /\ abandoned \subseteq Lessons \ {0}
    /\ video # 0 => MarkedCourse \in DOMAIN db
    /\ read.rows \subseteq Row /\ read.video \in Lessons
    /\ script.at \in {"idle", "delete", "create", "seeded", "seed failed",
                      "read", "clean", "objects", "cleaned", "cleanup failed"}

MInit ==
    /\ db \in Starts
    /\ events = {} /\ handled = {}
    /\ objects = {} /\ video = 0 /\ uploads = 0 /\ abandoned = {} /\ undone = {}
    /\ script = Idle /\ read = NothingRead
    /\ disturbances = 0 /\ recent = {} /\ excess = {}

-----------------------------------------------------------------------------
(* The application *)

\* The database with one more row.
With(r, refs) == [x \in DOMAIN db \union {r} |-> IF x \in DOMAIN db THEN db[x] ELSE refs]

\* A row with its references, and its event.
WriteRow(r) ==
    /\ disturbances < MaxDisturbances
    /\ r[1] \in Written /\ r[2] \in Tests \union Others /\ r \notin DOMAIN db
    /\ r[2] \in Tests => r[1] \in Markers
    /\ \E refs \in SUBSET {to \in DOMAIN db : to[1] \in Requires[r[1]] \union Optional[r[1]]} :
          /\ \A to1, to2 \in refs : to1[1] = to2[1] => to1 = to2
          /\ Requires[r[1]] \subseteq {to[1] : to \in refs}
          /\ db' = With(r, refs)
    /\ events' = IF r[1] \in Announced THEN events \union {r} ELSE events
    /\ disturbances' = disturbances + 1
    /\ recent' = recent \union {r}
    /\ UNCHANGED <<handled, store, script, read, excess>>

\* A consumer handles an event; the groups do not hear of every family.
Handle(r) ==
    /\ r \in events \ handled /\ r[1] \notin {"course", "counsellingSession"}
    /\ handled' = handled \union {r}
    /\ UNCHANGED <<db, events, store, script, read, history>>

\* A lesson is recorded, with its event, and the one before it deleted.
Replace(n) ==
    /\ video' = n /\ events' = events \union {MarkedCourse}
    /\ objects' = (objects \ {video}) \union {n}
    /\ UNCHANGED <<abandoned, undone, disturbances>>

\* The deletion fails; or the answer of the commit is lost, and the new lesson is
\* deleted in place of the one before, or not that one either.
ReplaceHalfway(n) ==
    /\ video' = n /\ events' = events \union {MarkedCourse}
    /\ abandoned' = abandoned \union ({video} \ {0})
    /\ \/ objects' = objects \union {n} /\ UNCHANGED undone
       \/ undone' = undone \union {n} /\ UNCHANGED objects

\* The transaction is rolled back, and the deletion that makes up for it fails.
LeaveBehind(n) ==
    /\ objects' = objects \union {n} /\ abandoned' = abandoned \union {n}
    /\ UNCHANGED <<video, events, undone>>

\* An upload of a lesson.  (One that leaves nothing is no step here; what requests
\* of the application do to each other is StagedRequests.)
Upload ==
    /\ uploads < MaxUploads /\ MarkedCourse \in DOMAIN db
    /\ uploads' = uploads + 1
    /\ \/ Replace(uploads + 1)
       \/ /\ disturbances < MaxDisturbances /\ disturbances' = disturbances + 1
          /\ ReplaceHalfway(uploads + 1) \/ LeaveBehind(uploads + 1)
    /\ UNCHANGED <<db, handled, script, read, recent, excess>>

\* Rows go, and with the marked course the name of its lesson.
Delete(D) ==
    /\ db' = Without(db, D)
    /\ video' = IF MarkedCourse \in D THEN 0 ELSE video
    /\ recent' = recent \ D

-----------------------------------------------------------------------------
(* seed.ts *)

StartSeed ==
    /\ script = Idle
    /\ script' = [at |-> "delete", i |-> 1]
    /\ recent' = {}
    /\ UNCHANGED <<db, events, handled, store, read, disturbances, excess>>

\* The next place in a list, or what comes after it.
Following(list, then) == IF script.i < Len(list) THEN [script EXCEPT !.i = @ + 1] ELSE then

\* What refers to the tenants besides the rows of db.
EventRows(t) ==
    IF t # "tenant" THEN {}
    ELSE (({"outboxEvent"} \X events) \union ({"processedEvent"} \X handled)) \X Of(db, t)

\* One statement deletes the rows of one table, or fails and ends the script.
DeleteTable ==
    /\ script.at = "delete"
    /\ LET t == Deletions[script.i]
           links == Blockers(db, Of(db, t)) \union EventRows(t)
       IN IF links = {}
          THEN /\ Delete(Of(db, t))
               /\ abandoned' = IF t = "course" THEN abandoned \union ({video} \ {0})
                              ELSE abandoned
               /\ script' = Following(Deletions, [at |-> "create", i |-> 1])
          ELSE /\ script' = [at |-> "seed failed", links |-> links]
               /\ UNCHANGED <<db, video, recent, abandoned>>
    /\ UNCHANGED <<events, handled, objects, uploads, undone, read, disturbances, excess>>

CreateRow ==
    /\ script.at = "create"
    /\ LET t == Creations[script.i] IN db' = With(<<t, "pilot">>, PilotRefs(t))
    /\ script' = Following(Creations, [at |-> "seeded"])
    /\ UNCHANGED <<events, handled, store, read, history>>

-----------------------------------------------------------------------------
(* cleanup-generated-test-data.mjs *)

\* The rows of a table that refer to one of the given rows of these tables.
Referring(t, tables, rows) ==
    {r \in Of(db, t) : \E to \in db[r] \intersect rows : to[1] \in tables}

Marked == {r \in DOMAIN db : r[1] \in Markers /\ r[2] \in Tests}

\* The marked rows, the rows found through them, and the interviews found through
\* the applications, but for those that came after their table was read.
RowsToRead(marked, unseen) ==
    LET found == (UNION {Referring(t, Found[t], marked) : t \in DOMAIN Found}) \ unseen
    IN found \union marked \union
       (Referring("interview", {"jobApplication"}, Of(db, "jobApplication") \intersect found)
           \ unseen)

\* The first statement reads the marked courses, with the lesson.
StartCleanup ==
    /\ script = Idle
    /\ script' = [at |-> "read"]
    /\ read' = [rows |-> Of(db, "course") \intersect Marked,
                video |-> IF MarkedCourse \in DOMAIN db THEN video ELSE 0]
    /\ recent' = {}
    /\ UNCHANGED <<db, events, handled, store, disturbances, excess>>

\* The other statements before the transaction, one after the other: of the rows
\* written since the first each may see some.
ReadRest ==
    /\ script.at = "read"
    /\ script' = [at |-> "clean"]
    /\ \E unseen \in SUBSET recent :
          LET others == {r \in Marked \ unseen : r[1] # "course"}
          IN read' = [rows |-> RowsToRead(read.rows \union others, unseen), video |-> read.video]
    /\ UNCHANGED <<db, events, handled, store, history>>

\* What a statement deletes.
Selects(s) == (Of(db, s.table) \intersect read.rows) \union Referring(s.table, s.by, read.rows)

\* The statements run in turn: what those before the k-th delete, and the references
\* then in the way of the k-th.
Earlier(k) == UNION {Selects(Statements[j]) : j \in 1 .. k - 1}
LinksAt(k) == Blockers(Without(db, Earlier(k)), Selects(Statements[k]))

\* The statements that would fail, and what they delete if none does.
Failing == {k \in DOMAIN Statements : LinksAt(k) # {}}
Transaction == UNION {Selects(Statements[k]) : k \in DOMAIN Statements}

\* Two of the lists hold the rows read instead of their identifiers: the client
\* refuses the statement unless the list is empty.
RowsForIds == {r \in read.rows : r[1] \in {"placement", "jobApplication"}}

\* The rows of D that are marked or refer, in some steps, to one that is.
Hanging(D) ==
    LET Reach(R) == R \union {r \in D : db[r] \intersect R # {}}
    IN Reach(Reach(Reach(Reach(D \intersect Marked))))

\* The transaction is rolled back at the first statement that fails.
Refuse ==
    /\ script.at = "clean"
    /\ \/ /\ RowsForIds # {}
          /\ script' = [at |-> "cleanup failed", links |-> {}]
       \/ /\ RowsForIds = {}
          /\ LET failing == Failing
             IN \E k \in failing :
                   /\ \A j \in failing : k <= j
                   /\ script' = [at |-> "cleanup failed", links |-> LinksAt(k)]
    /\ UNCHANGED <<db, events, handled, store, read, history>>

\* The events of the rows read go too; ProcessedEvent is searched for the
\* identifiers of rows, which are no event's.
\* (The audit rows of the rows read go as well: nothing tells those of different
\* rows apart here, nothing refers to them, and auditEvent stays as it is.)
Commit ==
    /\ script.at = "clean"
    /\ RowsForIds = {} /\ Failing = {}
    /\ Delete(Transaction)
    /\ events' = events \ read.rows
    /\ excess' = excess \union (Transaction \ Hanging(Transaction))
    /\ abandoned' = abandoned \union
          (IF MarkedCourse \in Transaction THEN {video} \ {0, read.video} ELSE {})
    /\ script' = [at |-> "objects"]
    /\ UNCHANGED <<handled, objects, uploads, undone, read, disturbances>>

\* Seeded bug: the lesson is not deleted.
KeepLesson == {}

LessonRead == {read.video} \ {0}

\* The lesson is deleted after the commit.
DeleteLesson ==
    /\ script.at = "objects"
    /\ objects' = objects \ LessonRead
    /\ script' = [at |-> "cleaned"]
    /\ UNCHANGED <<db, events, handled, video, uploads, abandoned, undone, read, history>>

\* The process dies, or the object store refuses: nothing after that is done.
Crash ==
    /\ disturbances < MaxDisturbances
    /\ script.at \in {"delete", "create", "read", "clean", "objects"}
    /\ disturbances' = disturbances + 1
    /\ abandoned' = IF script.at = "objects" THEN abandoned \union ({read.video} \ {0})
                    ELSE abandoned
    /\ script' = Idle /\ read' = NothingRead
    /\ UNCHANGED <<db, events, handled, objects, video, uploads, undone, recent, excess>>

\* The operator has seen how it ended.
Dismiss ==
    /\ script.at \in {"seeded", "seed failed", "cleaned", "cleanup failed"}
    /\ script' = Idle /\ read' = NothingRead
    /\ UNCHANGED <<db, events, handled, store, history>>

MNext ==
    \/ \E r \in Row : WriteRow(r) \/ Handle(r)
    \/ Upload \/ StartSeed \/ DeleteTable \/ CreateRow
    \/ StartCleanup \/ ReadRest \/ Refuse \/ Commit \/ DeleteLesson \/ Crash \/ Dismiss

MSpec == MInit /\ [][MNext]_mvars

-----------------------------------------------------------------------------
(* Properties *)

\* The seed deletes in an order the foreign keys allow, from whatever a run that
\* died before has left: it fails only over a row written since it began, or over
\* OutboxEvent and ProcessedEvent, which it never empties and which refer to the
\* tenants it deletes last, when all the rest is gone.
SeedFailsOverEventsOnly ==
    script.at = "seed failed" => \A link \in script.links :
        link[1] \in recent \/ link[1][1] \in {"outboxEvent", "processedEvent"}

\* When the seed is done the database holds its rows and no others, but those
\* written meanwhile.
SeedLeavesPilotOnly ==
    script.at = "seeded" =>
        DOMAIN db \ recent \subseteq DOMAIN Pilot /\ DOMAIN Pilot \subseteq DOMAIN db

\* Required references the cleanup deletes the target of and does not follow: an
\* unmarked row of the first table keeps the whole cleanup from happening.
NotFollowed ==
    {<<"serviceBooking", "candidate">>, <<"vacancy", "employer">>,
     <<"placement", "employer">>, <<"serviceOpportunity", "serviceArea">>,
     <<"batch", "course">>, <<"batch", "trainingCentre">>, <<"assessment", "course">>,
     <<"certificate", "course">>, <<"batch", "curriculumVersion">>,
     <<"certificate", "curriculumVersion">>, <<"evaluation", "practicalAssignment">>,
     <<"assessmentResult", "assessment">>, <<"attendanceRecord", "enrollment">>,
     <<"practicalAssignment", "enrollment">>}

\* The cleanup deletes in an order the foreign keys allow: it is refused only over
\* a row written since it read, over a reference it does not follow, or because
\* placements or applications were found (it passes the rows for their identifiers).
CleanupRefusedForReasons ==
    script.at = "cleanup failed" =>
        \/ RowsForIds # {}
        \/ \A link \in script.links :
              link[1] \in recent \/ <<link[1][1], link[2][1]>> \in NotFollowed

\* The cleanup takes no row that neither is marked nor hangs on a marked one.
CleanupSparesTheRest == excess = {}

\* A lesson in the object store is the marked course's, or the cleanup is about to
\* delete it, or no script will: the seed deletes no objects, the cleanup none if it
\* dies after its commit and none that was uploaded after it read, and an upload may
\* fail to delete one.  And the lesson the course names is in the store, unless the
\* upload itself deleted it: the cleanup deletes none whose course it leaves.
LessonsExplained ==
    /\ \A o \in objects : o \in {video} \union abandoned \/ (script.at = "objects" /\ o = read.video)
    /\ video \in objects \union undone \union {0}

\* The seed fails for no other reason, and leaves nothing else.
SeedIsSound == SeedFailsOverEventsOnly /\ SeedLeavesPilotOnly

\* The cleanup fails for no other reason, and takes nothing else.
CleanupIsSound == CleanupRefusedForReasons /\ CleanupSparesTheRest

-----------------------------------------------------------------------------
(* The inductive invariant *)

\* Lessons are numbered as they come; the one read is the marked course's, and
\* when that course is gone another has been uploaded, if any.
LessonsNumbered ==
    /\ uploads \in 0 .. MaxUploads /\ objects \subseteq 1 .. uploads
    /\ {video, read.video} \subseteq 0 .. uploads
    /\ script.at \in {"read", "clean"} /\ read.video # 0 => MarkedCourse \in read.rows
    /\ script.at = "objects" /\ read.video # 0 => video # read.video

\* What the seed has emptied stays empty but for rows written meanwhile, and it
\* has written what its list says so far.
Created(i) == {<<Creations[j], "pilot">> : j \in 1 .. i - 1}
SeedInTurn ==
    /\ script.at = "delete" =>
          /\ script = [at |-> "delete", i |-> script.i] /\ script.i \in DOMAIN Deletions
          /\ \A r \in DOMAIN db, j \in 1 .. script.i - 1 : r[1] = Deletions[j] => r \in recent
    /\ script.at = "create" =>
          /\ script = [at |-> "create", i |-> script.i] /\ script.i \in DOMAIN Creations
          /\ DOMAIN db \ recent \subseteq Created(script.i)
          /\ Created(script.i) \subseteq DOMAIN db

\* The rows the cleanup has read are still there, each marked or beside what it was
\* found through; and no older row that it should have found is missing.
CleanupReadsAll ==
    /\ script.at = "read" => \A r \in read.rows : r \in Marked /\ r[1] = "course"
    /\ script.at = "clean" =>
        /\ \A r \in read.rows :
              /\ r \in DOMAIN db /\ r[1] \in Markers \union DOMAIN Found
              /\ \/ r \in Marked \/ db[r] \intersect read.rows \intersect Marked # {}
                 \/ \E to \in db[r] \intersect read.rows : to[1] = "jobApplication"
        /\ \A r \in DOMAIN db \ recent : r[1] \in DOMAIN Found =>
              \A to \in db[r] \intersect read.rows :
                  to[1] \in Found[r[1]] \intersect Markers => r \in read.rows

\* Every value has its type (the foreign keys hold), no lesson is forgotten, and
\* the scripts are as far as their lists and what they have read say.
WellFormed ==
    MTypeOK /\ LessonsNumbered /\ LessonsExplained /\ SeedInTurn /\ CleanupReadsAll

MInv == WellFormed /\ SeedIsSound /\ CleanupIsSound
=============================================================================
