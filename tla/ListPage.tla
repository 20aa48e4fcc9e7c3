------------------------------ MODULE ListPage ------------------------------
(***************************************************************************)
(* A page of the web application that lists the records of one resource    *)
(* and creates new ones: WorkflowPage, which numbers its requests so that  *)
(* an old answer does not replace a new one, and CourseCatalog, which does *)
(* not, and which also uploads a lesson and shows the access to a course   *)
(* in a panel.  Requests are on their way at the same time; their answers  *)
(* come in any order, or not at all.                                       *)
(* A filter, a search and a click on Refresh are the same to the model: a  *)
(* new load of the list, which answers with any page full of the records.  *)
(***************************************************************************)
EXTENDS Naturals, Sequences, FiniteSets

CONSTANTS
    Courses,        \* courses whose panel can be opened
    None,           \* no course
    PageSize,       \* rows that a load answers with at most
    MaxRequests,    \* bound: requests sent by clicks, in all
    MaxLost         \* bound: answers that do not arrive

ASSUME ListPageAssumption ==
    None \notin Courses /\ {PageSize, MaxRequests, MaxLost} \subseteq Nat

VARIABLES
    page,           \* which of the two components is mounted
    table,          \* on the server: the form entry behind each stored record
    flight,         \* requests and answers on their way
    requestSequence,
    data, loading, busy,
    entry,          \* what the form holds; a cleared form gets a new number
    withVideo,      \* a file is chosen in the form
    selected, access,   \* the panel: the course it is of, the one it shows
    \* history
    sent,           \* requests sent
    lost,           \* answers that got lost
    lostCreates,    \* those of creations, or of the upload after one
    confirmed,      \* records whose creation the page was told of
    shown,          \* the load whose answer is in data
    newest,         \* the newest load: were others on their way when it was
                    \* sent, and what kept its answer from the list
    crossed         \* the panel changed while an answer was on its way to it

server  == <<table, flight>>
listed  == <<data, shown, newest>>
form    == <<busy, entry, withVideo>>
panel   == <<selected, access, crossed>>
history == <<sent, lost, lostCreates, confirmed>>
vars == <<page, server, requestSequence, loading, listed, form, panel, history>>

Kinds == {"load", "create", "upload", "access", "subscribe"}

\* A request, with the answer once the server has given it: the records read,
\* or the one created.  The page it is from keeps its sequence number, the
\* entry sent and the course asked for; crossing, and the records that the answer
\* to a load leaves out, are history.
Request(kind) ==
    [id |-> sent + 1, kind |-> kind, sequence |-> 0, rows |-> <<>>, omitted |-> {},
     served |-> FALSE, of |-> None, crossing |-> FALSE]

Message == [id : Nat, kind : Kinds, sequence : Nat, rows : Seq(Nat), omitted : SUBSET Nat,
            served : BOOLEAN, of : Courses \union {None}, crossing : BOOLEAN]

NoLoad == [id |-> 0, crossing |-> FALSE, omitted |-> {}]

TypeOK ==
    /\ page \in {"WorkflowPage", "CourseCatalog"}
    /\ table \in Seq(Nat)
    /\ flight \subseteq Message
    /\ \A f \in flight : f.id <= sent /\ f.sequence <= requestSequence
    /\ \A f, g \in flight : f.id = g.id => f = g
    /\ requestSequence \in Nat /\ entry \in Nat \ {0}
    /\ data \in Seq(1 .. Len(table))
    /\ loading \in BOOLEAN /\ busy \in BOOLEAN /\ withVideo \in BOOLEAN /\ crossed \in BOOLEAN
    /\ selected \in Courses \union {None} /\ access \in Courses \union {None}
    /\ sent \in Nat /\ lost \in Nat /\ lostCreates \in Nat
    /\ confirmed \subseteq 1 .. Len(table)
    /\ shown \in [id : Nat, crossing : BOOLEAN, omitted : SUBSET (1 .. Len(table))]
    /\ newest \in [id : 1 .. sent, overlapped : BOOLEAN,
                   fate : {"none", "failed", "discarded", "overtaken"}]

OnTheWay(kinds) == {f \in flight : f.kind \in kinds}
NewestOnTheWay == \E f \in OnTheWay({"load"}) : f.id = newest.id

\* The first load is sent when the page appears.
Init ==
    /\ page \in {"WorkflowPage", "CourseCatalog"}
    /\ table = <<>>
    /\ sent = 1 /\ requestSequence = 1
    /\ flight = {[id |-> 1, kind |-> "load", sequence |-> 1, rows |-> <<>>, omitted |-> {},
                  served |-> FALSE, of |-> None, crossing |-> FALSE]}
    /\ data = <<>> /\ loading = TRUE
    /\ busy = FALSE /\ entry = 1 /\ withVideo = FALSE
    /\ selected = None /\ access = None
    /\ lost = 0 /\ lostCreates = 0 /\ confirmed = {}
    /\ shown = NoLoad /\ crossed = FALSE
    /\ newest = [id |-> 1, overlapped |-> FALSE, fate |-> "none"]

-----------------------------------------------------------------------------
(* The user *)

Spinner == TRUE

\* A filter, the Enter key in the search, or Refresh.
Load ==
    /\ sent < MaxRequests
    /\ requestSequence' = requestSequence + 1
    /\ loading' = Spinner
    /\ sent' = sent + 1
    /\ flight' = flight \union
          {[Request("load") EXCEPT !.sequence = requestSequence + 1,
                                   !.crossing = OnTheWay({"create", "upload"}) # {}]}
    /\ LET others == OnTheWay({"load"}) # {} IN
       newest' = [id |-> sent + 1, overlapped |-> others,
                  fate |-> IF others /\ page = "CourseCatalog" THEN "overtaken" ELSE "none"]
    /\ UNCHANGED <<page, table, data, shown, form, panel, lost, lostCreates, confirmed>>

\* Seeded bug: a submission leaves the loads on their way as good as before.
NoBump == requestSequence

Bump == IF page = "WorkflowPage" THEN requestSequence + 1 ELSE requestSequence

\* The button is disabled while a submission runs.
Submit ==
    /\ ~busy /\ sent < MaxRequests
    /\ busy' = TRUE
    /\ requestSequence' = Bump
    /\ sent' = sent + 1
    /\ withVideo' \in IF page = "CourseCatalog" THEN BOOLEAN ELSE {FALSE}
    /\ flight' = {IF f.kind = "load" /\ page = "CourseCatalog"
                  THEN [f EXCEPT !.crossing = TRUE] ELSE f : f \in flight}
                 \union {Request("create")}
    /\ newest' = IF page = "WorkflowPage" /\ NewestOnTheWay
                 THEN [newest EXCEPT !.fate = "discarded"] ELSE newest
    /\ UNCHANGED <<page, table, data, loading, entry, shown, panel,
                   lost, lostCreates, confirmed>>

\* The panel opens, over the list, and asks for the access.
Open(c) ==
    /\ page = "CourseCatalog" /\ selected = None /\ sent < MaxRequests
    /\ selected' = c
    /\ crossed' = (access # None \/ OnTheWay({"access", "subscribe"}) # {})
    /\ sent' = sent + 1
    /\ flight' = flight \union {[Request("access") EXCEPT !.of = c]}
    /\ UNCHANGED <<page, table, requestSequence, loading, listed, form, access,
                   lost, lostCreates, confirmed>>

ForgetAccess == None

Close ==
    /\ selected # None
    /\ selected' = None
    /\ access' = ForgetAccess
    /\ crossed' = (OnTheWay({"access", "subscribe"}) # {})
    /\ UNCHANGED <<page, server, requestSequence, loading, listed, form, history>>

\* The button is there when the access shown is not granted (whether it is does
\* not matter here), and disabled while a subscription is on its way.
Subscribe ==
    /\ selected # None /\ access # None /\ sent < MaxRequests
    /\ OnTheWay({"subscribe"}) = {}
    /\ sent' = sent + 1
    /\ flight' = flight \union {[Request("subscribe") EXCEPT !.of = selected]}
    /\ UNCHANGED <<page, table, requestSequence, loading, listed, form, panel,
                   lost, lostCreates, confirmed>>

-----------------------------------------------------------------------------
(* The server *)

\* A course code is unique: the catalogue's second creation of one entry is refused.
Refused(f) == f.kind = "create" /\ page = "CourseCatalog" /\ \E i \in DOMAIN table : table[i] = entry

\* A page of the records: those that match the filter and the search, in the order
\* of their random identifiers, and no more than fit; so any of them, each once.
\* (Which row is the first makes no difference here.)
Pages == {rows \in UNION {[1 .. n -> DOMAIN table] : n \in 0 .. PageSize} :
             \A i, j \in DOMAIN rows : i < j => rows[i] < rows[j]}

Omitted(rows) == {id \in DOMAIN table : \A i \in DOMAIN rows : rows[i] # id}

Serve(f) ==
    /\ ~f.served /\ ~Refused(f)
    /\ \E rows \in CASE f.kind = "load" -> Pages
                     [] f.kind = "create" -> {<<Len(table) + 1>>}
                     [] OTHER -> {f.rows} :
          flight' = (flight \ {f}) \union
             {[f EXCEPT !.served = TRUE, !.rows = rows,
                        !.omitted = IF f.kind = "load" THEN Omitted(rows) ELSE {}]}
    /\ table' = IF f.kind = "create" THEN Append(table, entry) ELSE table
    /\ UNCHANGED <<page, requestSequence, loading, listed, form, panel, history>>

-----------------------------------------------------------------------------
(* The answers *)

\* Seeded bug: an answer is taken whatever its number.
TakesAny(f) == TRUE

Takes(f) == page = "WorkflowPage" => f.sequence = requestSequence

Loaded(f) ==
    /\ f.kind = "load" /\ f.served
    /\ flight' = flight \ {f}
    /\ loading' = FALSE
    /\ IF Takes(f)
       THEN /\ data' = f.rows
            /\ shown' = [id |-> f.id, crossing |-> f.crossing, omitted |-> f.omitted]
       ELSE UNCHANGED <<data, shown>>
    /\ UNCHANGED <<page, table, requestSequence, newest, form, panel, history>>

\* Seeded bug: the form keeps what it held.
KeepForm == entry

ClearForm == entry + 1

WhatWasCreated(f) == f.rows[1]

\* The record is put before those listed.
Finish(id) ==
    /\ data' = <<id>> \o data
    /\ confirmed' = confirmed \union {id}
    /\ busy' = FALSE
    /\ entry' = ClearForm

Created(f) ==
    /\ f.kind = "create" /\ f.served
    /\ IF withVideo
       THEN /\ flight' = (flight \ {f}) \union
                  {[f EXCEPT !.kind = "upload", !.served = FALSE]}
            /\ UNCHANGED <<data, confirmed, busy, entry>>
       ELSE flight' = flight \ {f} /\ Finish(WhatWasCreated(f))
    /\ UNCHANGED <<page, table, requestSequence, loading, withVideo, shown, newest, panel, sent, lost, lostCreates>>

Uploaded(f) ==
    /\ f.kind = "upload" /\ f.served
    /\ flight' = flight \ {f}
    /\ Finish(WhatWasCreated(f))
    /\ UNCHANGED <<page, table, requestSequence, loading, withVideo, shown, newest, panel, sent, lost, lostCreates>>

\* The panel shows the answer whatever course it is open on.
AccessShown(f) ==
    /\ f.kind \in {"access", "subscribe"} /\ f.served
    /\ flight' = flight \ {f}
    /\ access' = f.of
    /\ crossed' = (crossed /\ (f.of # selected \/ OnTheWay({"access", "subscribe"}) # {f}))
    /\ UNCHANGED <<page, table, requestSequence, loading, listed, form, selected, history>>

\* The request or its answer is lost, or the server refuses: the page shows the
\* error, whichever request it is of, and stops waiting.
Fail(f) ==
    /\ \/ lost < MaxLost /\ lost' = lost + 1
       \/ ~f.served /\ Refused(f) /\ UNCHANGED lost
    /\ flight' = flight \ {f}
    /\ loading' = (loading /\ f.kind # "load")
    /\ busy' = (busy /\ f.kind \notin {"create", "upload"})
    /\ lostCreates' = IF f.kind \in {"create", "upload"} THEN lostCreates + 1 ELSE lostCreates
    /\ newest' = IF f.id = newest.id THEN [newest EXCEPT !.fate = "failed"] ELSE newest
    /\ UNCHANGED <<page, table, requestSequence, data, shown, entry, withVideo,
                   panel, sent, confirmed>>

Next ==
    \/ Load \/ Submit \/ Close \/ Subscribe
    \/ \E c \in Courses : Open(c)
    \/ \E f \in flight : \/ Serve(f) \/ Loaded(f) \/ Created(f) \/ Uploaded(f)
                         \/ AccessShown(f) \/ Fail(f)

Spec == Init /\ [][Next]_vars

-----------------------------------------------------------------------------
(* Properties *)

\* The sequence number is there so that the list answers the last thing asked.
\* When no load is on its way the rows are those of the newest load, or it
\* failed, or, in WorkflowPage, a submission made its answer void (nothing loads
\* the list again), or, in CourseCatalog, an older load was on its way with it.
NewestIsShown ==
    OnTheWay({"load"}) = {} /\ newest.fate = "none" => shown.id = newest.id

\* A record the page was told of is in the list, once, unless the load shown left
\* it out: a record the page adds itself stays, whatever the filter, until then.
\* The rows of a load that was on its way together with a creation are excepted:
\* such an answer may lack the record, or have it before the page adds it again.
\* (WorkflowPage voids the loads sent before the submission, not those sent during
\* it.)
CreatedIsListedOnce ==
    ~shown.crossing =>
        \A id \in confirmed :
            Cardinality({i \in DOMAIN data : data[i] = id}) = IF id \in shown.omitted THEN 0 ELSE 1

\* What was typed once is stored once, unless an answer was lost: the form is
\* kept then, and sending it again creates another record.
Copies(e) == {i \in DOMAIN table : table[i] = e}
StoredOnce == \A e \in 1 .. entry : Cardinality(Copies(e)) <= 1 + lostCreates

\* Who waits for the newest load sees that the page does, unless other loads
\* were on their way: the first answer, or failure, hides the spinner.
SpinnerTellsTruth == NewestOnTheWay => loading \/ newest.overlapped

\* The panel shows the access to its own course (and plays its lesson), unless
\* it changed while an answer was on its way to it.
PanelShowsItsCourse == access # None => access = selected \/ crossed

-----------------------------------------------------------------------------
(* The inductive invariant *)

\* One submission at a time, and none unless the button is disabled.
Submissions == OnTheWay({"create", "upload"})
SubmitInv == (\A f, g \in Submissions : f = g) /\ (Submissions # {} => busy)

\* A submission whose record is stored; the page has not been told.
Stored(f) == f.kind = "upload" \/ (f.kind = "create" /\ f.served)
RecordInv ==
    \A f \in flight : Stored(f) => Len(f.rows) = 1 /\ f.rows[1] \in (1 .. Len(table)) \ confirmed

\* Only a loss, or a submission on its way, leaves a copy of what the form holds.
CopyInv ==
    /\ \A i \in DOMAIN table : table[i] <= entry
    /\ (\A f \in flight : ~Stored(f)) => Cardinality(Copies(entry)) <= lostCreates

\* The newest load has arrived, or is on its way, and no other will be taken.
NewestInv ==
    newest.fate = "none" =>
        /\ \A f \in OnTheWay({"load"}) : Takes(f) => f.id = newest.id
        /\ shown.id = newest.id \/ \E f \in OnTheWay({"load"}) : f.id = newest.id /\ Takes(f)

\* A load that was sent alone stays alone until another is sent.
SpinInv == ~newest.overlapped => \A f \in OnTheWay({"load"}) : loading /\ f.id = newest.id

\* What is on its way to an unchanged panel is of its course.
PanelInv == \A f \in OnTheWay({"access", "subscribe"}) : f.of = selected \/ crossed

\* Rows are of stored records; those of a load that no submission crossed, and
\* that will be taken, have every record the page was told of once, or left it out.
Once(rows, id) == \E i \in DOMAIN rows : \A j \in DOMAIN rows : rows[j] = id <=> j = i
Absent(rows, id) == \A i \in DOMAIN rows : rows[i] # id
Lists(rows, id, omitted) == IF id \in omitted THEN Absent(rows, id) ELSE Once(rows, id)
RowsInv ==
    \A f \in OnTheWay({"load"}) :
        /\ f.served => f.rows \in Seq(1 .. Len(table)) /\ f.omitted \subseteq 1 .. Len(table)
        /\ Takes(f) /\ ~f.crossing =>
              /\ Submissions = {}
              /\ f.served => \A id \in confirmed : Lists(f.rows, id, f.omitted)

\* So have the rows shown, and they lack the record of a submission on its way,
\* which their load did not know.
DataInv ==
    ~shown.crossing =>
        /\ \A id \in confirmed : Lists(data, id, shown.omitted)
        /\ \A f \in flight : Stored(f) => Absent(data, f.rows[1]) /\ f.rows[1] \notin shown.omitted

\* Every value has its type, and the page does not mislead its user.
IInv ==
    /\ TypeOK /\ SubmitInv /\ RecordInv /\ CopyInv /\ NewestInv /\ SpinInv /\ PanelInv
    /\ RowsInv /\ DataInv /\ StoredOnce /\ SpinnerTellsTruth /\ PanelShowsItsCourse
=============================================================================
