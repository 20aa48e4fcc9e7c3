----------------------------- MODULE Dashboard -----------------------------
(***************************************************************************)
(* The outcome dashboard of one tenant: figures counted in PostgreSQL and  *)
(* kept in a cache for 45 seconds; the domain events of the changes, the   *)
(* topics they are published to, and the consumer group that deletes the   *)
(* cache entry when it hears of some of them.                              *)
(* An event type is the sequence of its words, as in                       *)
(* <<"training", "assessment", "passed">>.                                 *)
(***************************************************************************)
EXTENDS Naturals, Sequences, FiniteSets

CONSTANTS
    Changes,        \* the kinds of change that happen; see Emits
    Readers,        \* requests for the dashboard
    None,           \* no cache entry
    MaxChanges,     \* bound: changes, in all
    MaxLosses       \* bound: consumers that die between receipt and handler

\* What the dashboard counts.
Figures == {"candidates", "verified", "batches", "placements", "certificates",
            "enrollments", "complaints", "serviceBookings"}

\* The events of each kind of change: CandidatesService, StorageService, the
\* certificate worker, and workflowEvents with assessmentEventTypes.
Emits ==
    [candidates |-> {<<"candidate", "registered">>},
     verified |-> {<<"candidate", "verified">>},
     documents |-> {<<"document", "uploaded">>},
     courseVideos |-> {<<"course", "video", "uploaded">>},
     counselling |-> {<<"counselling", "completed">>},
     enrollments |-> {<<"training", "enrolled">>},
     attendance |-> {<<"training", "attendance", "recorded">>},
     assessments |-> {<<"training", "assessment", "completed">>},
     passedResults |-> {<<"training", "assessment", "completed">>,
                        <<"training", "assessment", "passed">>},
     failedResults |-> {<<"training", "assessment", "completed">>,
                        <<"training", "assessment", "failed">>},
     certificates |-> {<<"training", "certificate", "issued">>},
     applications |-> {<<"employment", "application", "created">>},
     interviews |-> {<<"employment", "interview", "completed">>},
     offers |-> {<<"employment", "offer", "created">>},
     placements |-> {<<"employment", "placement", "created">>},
     retention |-> {<<"employment", "retention", "updated">>},
     serviceBookings |-> {<<"livelihood", "booking", "created">>},
     earnings |-> {<<"livelihood", "earning", "recorded">>},
     payouts |-> {<<"livelihood", "payout", "completed">>},
     \* resources without an entry in workflowEvents
     batches |-> {}, complaints |-> {}]

EventTypes == UNION {Emits[c] : c \in Changes}
Counted == Changes \intersect Figures

ASSUME DashboardAssumption ==
    /\ Changes \subseteq DOMAIN Emits /\ "candidates" \in Changes
    /\ {MaxChanges, MaxLosses} \subseteq Nat

\* The topic is the first word of the type.
topicForEvent(type) == Head(type)

\* The topics the group of event-consumer-worker.ts subscribes to.
Topics == {"candidate", "training", "employment", "livelihood", "document"}

\* Seeded bug: placements do not invalidate.
ClearsWithoutPlacements ==
    {<<"training", "assessment", "completed">>, <<"training", "assessment", "passed">>,
     <<"employment", "retention", "updated">>, <<"livelihood", "payout", "completed">>}

\* eventTypes of DashboardCacheInvalidationConsumer.
Clears ==
    {<<"training", "assessment", "completed">>, <<"training", "assessment", "passed">>,
     <<"employment", "placement", "created">>, <<"employment", "retention", "updated">>,
     <<"livelihood", "payout", "completed">>}

VARIABLES
    rows,           \* the rows behind each figure; those of "candidates" are the
                    \* candidates who are not verified, of "verified" those who are
    stream,         \* events committed and not yet handled by the group
    cache,          \* the tenant's entry
    pc,             \* each reader's step
    partial,        \* the figures it has counted so far, or its answer
    \* history
    changes, losses,
    late,           \* readers that were counting when an entry was deleted, or
                    \* when a consumer lost the event that would have
    during          \* the candidates registered while a reader was counting

vars == <<rows, stream, cache, pc, partial, changes, losses, late, during>>

\* Seeded bug: the candidates counted are those with the status of a registration.
FigureByStatus(f) == rows[f]

\* What COUNT says of each figure: of candidates without regard to their status.
Figure(f) == IF f = "candidates" THEN rows["candidates"] + rows["verified"] ELSE rows[f]

count == [f \in Counted |-> Figure(f)]

Values  == [Counted -> 0 .. MaxChanges]
Entries == [value : Values, ttl : BOOLEAN, late : BOOLEAN, during : 0 .. MaxChanges]

TypeOK ==
    /\ rows \in [Figures -> 0 .. MaxChanges]
    /\ stream \in [EventTypes -> 0 .. MaxChanges]
    /\ cache \in Entries \union {None}
    /\ pc \in [Readers -> {"idle", "get", "count", "set", "done"}]
    /\ DOMAIN partial = Readers
    /\ \A r \in Readers : DOMAIN partial[r] \subseteq Counted
    /\ \A r \in Readers : pc[r] \in {"set", "done"} => partial[r] \in Values
    /\ changes \in 0 .. MaxChanges /\ losses \in 0 .. MaxLosses
    /\ late \subseteq Readers /\ during \in [Readers -> 0 .. MaxChanges]

Init ==
    /\ rows = [f \in Figures |-> 0]
    /\ stream = [e \in EventTypes |-> 0]
    /\ cache = None
    /\ pc = [r \in Readers |-> "idle"]
    /\ partial = [r \in Readers |-> <<>>]
    /\ changes = 0 /\ losses = 0 /\ late = {} /\ during = [r \in Readers |-> 0]

Counting == {r \in Readers : pc[r] \in {"count", "set"}}

-----------------------------------------------------------------------------
\* A change and its events, in one transaction.
Write(c) ==
    /\ changes < MaxChanges
    /\ changes' = changes + 1
    /\ stream' = [e \in EventTypes |-> IF e \in Emits[c] THEN stream[e] + 1 ELSE stream[e]]
    /\ UNCHANGED <<cache, pc, partial, losses, late>>

\* A new row: a registration, an upload, or workflow's create.
Create(c) ==
    /\ c # "verified" /\ Write(c)
    /\ rows' = IF c \in Figures THEN [rows EXCEPT ![c] = @ + 1] ELSE rows
    /\ during' = [r \in Readers |->
          IF c = "candidates" /\ r \in Counting THEN during[r] + 1 ELSE during[r]]

\* CandidatesService.verify asks for a candidate, not for its status: verifying
\* again emits the event again.
Verify ==
    /\ "verified" \in Changes /\ Write("verified")
    /\ \/ /\ rows["candidates"] > 0
          /\ rows' = [rows EXCEPT !["candidates"] = @ - 1, !["verified"] = @ + 1]
       \/ rows["verified"] > 0 /\ UNCHANGED rows
    /\ UNCHANGED during

\* workflow's update emits the events of a creation; that of a certificate may
\* take it out of the ACTIVE ones, or put it back as Create does.
Update(c) ==
    /\ c \notin {"candidates", "verified", "documents", "courseVideos"} /\ Write(c)
    /\ c \in Figures => rows[c] > 0
    /\ rows' \in {rows} \union
          (IF c = "certificates" THEN {[rows EXCEPT ![c] = @ - 1]} ELSE {})
    /\ UNCHANGED during

Take(e) ==
    /\ stream[e] > 0 /\ topicForEvent(e) \in Topics
    /\ stream' = [stream EXCEPT ![e] = @ - 1]

\* The group handles an event; one it does not know is dropped.  A failing
\* delete leaves the event where it is, to come again.
Invalidate(e) ==
    /\ Take(e)
    /\ IF e \in Clears THEN cache' = None /\ late' = late \union Counting
       ELSE UNCHANGED <<cache, late>>
    /\ UNCHANGED <<rows, pc, partial, changes, losses, during>>

\* The process dies between receipt and handler: the event is not heard of again.
Lose(e) ==
    /\ losses < MaxLosses /\ e \in Clears
    /\ Take(e)
    /\ losses' = losses + 1
    /\ late' = late \union Counting
    /\ cache' = IF cache = None THEN None ELSE [cache EXCEPT !.late = TRUE]
    /\ UNCHANGED <<rows, pc, partial, changes, during>>

\* The cache drops an entry that was set with a time to live.
Expire ==
    /\ cache # None /\ cache.ttl
    /\ cache' = None
    /\ UNCHANGED <<rows, stream, pc, partial, changes, losses, late, during>>

-----------------------------------------------------------------------------
(* DashboardService.get *)

Begin(r) ==
    /\ pc[r] = "idle"
    /\ pc' = [pc EXCEPT ![r] = "get"]
    /\ UNCHANGED <<rows, stream, cache, partial, changes, losses, late, during>>

Hit(r) ==
    /\ pc[r] = "get" /\ cache # None
    /\ partial' = [partial EXCEPT ![r] = cache.value]
    /\ during' = [during EXCEPT ![r] = cache.during]
    /\ pc' = [pc EXCEPT ![r] = "done"]
    /\ UNCHANGED <<rows, stream, cache, changes, losses, late>>

\* No entry, or no cache: nothing tells them apart.
Miss(r) ==
    /\ pc[r] = "get"
    /\ pc' = [pc EXCEPT ![r] = "count"]
    /\ UNCHANGED <<rows, stream, cache, partial, changes, losses, late, during>>

AllCounted(figures) == figures = Counted

\* The counts are separate statements, in any order.
Count(r) ==
    /\ pc[r] = "count"
    /\ \E f \in Counted \ DOMAIN partial[r] :
          LET counted == DOMAIN partial[r] \union {f} IN
          /\ partial' = [partial EXCEPT ![r] =
                [g \in counted |-> IF g = f THEN count[f] ELSE partial[r][g]]]
          /\ pc' = [pc EXCEPT ![r] = IF AllCounted(counted) THEN "set" ELSE "count"]
    /\ UNCHANGED <<rows, stream, cache, changes, losses, late, during>>

\* Seeded bug: the entry is stored without its 45 seconds.
EntryForever(r) == [value |-> partial[r], ttl |-> FALSE, late |-> r \in late, during |-> during[r]]

Entry(r) == [value |-> partial[r], ttl |-> TRUE, late |-> r \in late, during |-> during[r]]

\* The entry is stored, or the cache is out of reach and nobody minds.
Set(r) ==
    /\ pc[r] = "set"
    /\ cache' \in {cache, Entry(r)}
    /\ pc' = [pc EXCEPT ![r] = "done"]
    /\ UNCHANGED <<rows, stream, partial, changes, losses, late, during>>

Answer(r) ==
    /\ pc[r] = "done"
    /\ pc' = [pc EXCEPT ![r] = "idle"]
    /\ partial' = [partial EXCEPT ![r] = <<>>]
    /\ late' = late \ {r} /\ during' = [during EXCEPT ![r] = 0]
    /\ UNCHANGED <<rows, stream, cache, changes, losses>>

Serve(r) == Hit(r) \/ Miss(r) \/ Count(r) \/ Set(r) \/ Answer(r)

Next ==
    \/ \E c \in Changes : Create(c) \/ Update(c)
    \/ Verify
    \/ \E e \in EventTypes : Invalidate(e) \/ Lose(e)
    \/ Expire
    \/ \E r \in Readers : Begin(r) \/ Serve(r)

Spec == Init /\ [][Next]_vars

\* Requests run to their ends, and entries grow old.
Fairness ==
    /\ \A r \in Readers : WF_vars(Serve(r))
    /\ WF_vars(Expire)

FairSpec == Spec /\ Fairness

\* The consumers go on handling what comes to them.
HearingSpec == Spec /\ \A e \in EventTypes : WF_vars(Invalidate(e))

-----------------------------------------------------------------------------
(* Properties *)

\* docs/EVENT-DRIVEN-ARCHITECTURE.md has the entry cleared after relevant events.
\* Of the figures only placements are announced by an event of the list: once
\* the event of a placement is handled the cached number includes it, unless a
\* reader that had counted before stored its number after, or the event was lost.
\* (The other figures may lag until the entry expires.)
PlacementsAreFresh ==
    "placements" \in Counted /\ cache # None =>
        \/ cache.value["placements"] = count["placements"]
        \/ stream[<<"employment", "placement", "created">>] > 0
        \/ cache.late

\* The eight counts are separate statements without a common snapshot, so one
\* answer, or one entry, may tear: but never by more than the candidates
\* registered while it was being counted.  Without such a registration nobody is
\* verified who is not counted as a candidate, however many are verified meanwhile.
FiguresAgree ==
    \A r \in Readers : pc[r] = "done" /\ "verified" \in Counted =>
        partial[r]["verified"] <= partial[r]["candidates"] + during[r]

\* A stale number is neither kept nor handed on for ever: once the changes end,
\* so do the answers that leave one out, those of changes no event of which
\* clears the entry and of readers that overtook an invalidation among them.
ExactInTheEnd == <>[](\A r \in Readers : pc[r] = "done" => partial[r] = count)

\* docs/EVENT-CATALOG.md names the topic and the consumers of every event of the
\* outbox: whatever is published comes to the group in the end.
EventsAreHeard == \A e \in EventTypes : stream[e] > 0 ~> stream[e] = 0

-----------------------------------------------------------------------------
(* The inductive invariant *)

\* Every row counted and every event under way is of a change, and so is every
\* registration that a reader may have missed.
BoundInv ==
    /\ \A f \in Figures : Figure(f) <= changes
    /\ \A e \in EventTypes : stream[e] <= changes
    /\ \A r \in Counting : during[r] <= changes

\* A reader starts from nothing; it lacks no more candidates than were registered
\* since, and nobody stops being verified.
PartialInv ==
    \A r \in Readers :
        /\ pc[r] \in {"idle", "get"} => DOMAIN partial[r] = {} /\ during[r] = 0
        /\ \A f \in DOMAIN partial[r] : partial[r][f] \in 0 .. MaxChanges
        /\ r \in Counting /\ "candidates" \in DOMAIN partial[r] =>
              Figure("candidates") <= partial[r]["candidates"] + during[r]
        /\ r \in Counting /\ "verified" \in DOMAIN partial[r] =>
              partial[r]["verified"] <= Figure("verified")

\* So the entry agrees with itself as far as its reader's answer did.
AgreeInv ==
    "verified" \in Counted /\ cache # None =>
        cache.value["verified"] <= cache.value["candidates"] + cache.during

\* A number of placements on its way to the cache is right, or it will be heard
\* that it is not, or it is known to come late.
FreshInv ==
    "placements" \in Counted => \A r \in Counting : "placements" \in DOMAIN partial[r] =>
        \/ partial[r]["placements"] = count["placements"]
        \/ stream[<<"employment", "placement", "created">>] > 0
        \/ r \in late

IInv ==
    TypeOK /\ BoundInv /\ PartialInv /\ AgreeInv /\ FiguresAgree /\ FreshInv /\ PlacementsAreFresh
=============================================================================
