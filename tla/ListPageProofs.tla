--------------------------- MODULE ListPageProofs ---------------------------
(* Proofs about ListPage, for any number of requests, losses and courses.     *)
EXTENDS ListPage, FiniteSetTheorems, SequenceTheorems, TLAPS

-----------------------------------------------------------------------------
(* Rows and records. *)

\* Rows that list a record once list it at one place.
LEMMA OnceIsOne ==
    ASSUME NEW rows, NEW id, Once(rows, id)
    PROVE  Cardinality({i \in DOMAIN rows : rows[i] = id}) = 1
<1>1. PICK i \in DOMAIN rows : \A j \in DOMAIN rows : rows[j] = id <=> j = i
  BY DEF Once
<1>2. {j \in DOMAIN rows : rows[j] = id} = {i}
  BY <1>1
<1>. QED BY <1>2, FS_Singleton

LEMMA AbsentIsNone ==
    ASSUME NEW rows, NEW id, Absent(rows, id)
    PROVE  Cardinality({i \in DOMAIN rows : rows[i] = id}) = 0
<1>1. {i \in DOMAIN rows : rows[i] = id} = {}
  BY DEF Absent
<1>. QED BY <1>1, FS_EmptySet

\* A page lists each record once or leaves it out.
LEMMA PageShape ==
    ASSUME table \in Seq(Nat), NEW rows \in Pages
    PROVE  /\ rows \in Seq(1 .. Len(table)) /\ rows \in Seq(Nat)
           /\ Omitted(rows) \subseteq 1 .. Len(table) /\ Omitted(rows) \in SUBSET Nat
           /\ \A id \in 1 .. Len(table) : Lists(rows, id, Omitted(rows))
<1>1. DOMAIN table = 1 .. Len(table) /\ Len(table) \in Nat /\ 1 .. Len(table) \subseteq Nat
  BY LenProperties
<1>2. PICK n \in 0 .. PageSize : rows \in [1 .. n -> 1 .. Len(table)]
  BY <1>1 DEF Pages
<1>3. n \in Nat
  BY <1>2, ListPageAssumption
<1>4. rows \in Seq(1 .. Len(table))
  BY <1>2, <1>3, SeqDef
<1>5. \A i, j \in DOMAIN rows : i < j => rows[i] < rows[j]
  BY DEF Pages
<1>6. ASSUME NEW id \in 1 .. Len(table)
      PROVE  Lists(rows, id, Omitted(rows))
  <2>1. CASE id \in Omitted(rows)
    BY <2>1 DEF Omitted, Lists, Absent
  <2>2. CASE id \notin Omitted(rows)
    <3>1. PICK i \in DOMAIN rows : rows[i] = id
      BY <1>1, <2>2 DEF Omitted
    <3>2. ASSUME NEW j \in DOMAIN rows, rows[j] = id
          PROVE  j = i
      <4>1. i \in Int /\ j \in Int /\ id \in Int
        BY <1>1, <1>2, <1>3
      <4>2. ~(i < j) /\ ~(j < i)
        BY <1>5, <3>1, <3>2, <4>1
      <4>. QED BY <4>1, <4>2
    <3>. QED BY <2>2, <3>1, <3>2 DEF Lists, Once
  <2>. QED BY <2>1, <2>2
<1>7. Omitted(rows) \subseteq 1 .. Len(table)
  BY <1>1 DEF Omitted
<1>. QED BY <1>1, <1>4, <1>6, <1>7, SeqMonotonic

LEMMA PutBefore ==
    ASSUME NEW S, NEW rows \in Seq(S), NEW id \in S
    PROVE  /\ <<id>> \o rows \in Seq(S)
           /\ \A other \in S : other # id /\ Once(rows, other) => Once(<<id>> \o rows, other)
           /\ \A other \in S : other # id /\ Absent(rows, other) => Absent(<<id>> \o rows, other)
           /\ Absent(rows, id) => Once(<<id>> \o rows, id)
<1>. DEFINE longer == <<id>> \o rows
<1>1. <<id>> \in Seq(S) /\ Len(<<id>>) = 1 /\ <<id>>[1] = id
  OBVIOUS
<1>2. /\ longer \in Seq(S) /\ Len(longer) = 1 + Len(rows)
      /\ \A i \in 1 .. 1 + Len(rows) : longer[i] = IF i <= 1 THEN <<id>>[i] ELSE rows[i - 1]
  BY <1>1, ConcatProperties
<1>3. DOMAIN longer = 1 .. 1 + Len(rows) /\ DOMAIN rows = 1 .. Len(rows) /\ Len(rows) \in Nat
  BY <1>2, LenProperties
<1>. HIDE DEF longer
<1>4. longer[1] = id /\ \A i \in DOMAIN rows : i + 1 \in DOMAIN longer /\ longer[i + 1] = rows[i]
  BY <1>1, <1>2, <1>3
<1>5. \A i \in DOMAIN longer : i = 1 \/ \E k \in DOMAIN rows : i = k + 1
  <2>. TAKE i \in DOMAIN longer
  <2>1. i # 1 => i - 1 \in DOMAIN rows /\ i = (i - 1) + 1
    BY <1>3
  <2>. QED BY <2>1
<1>6. ASSUME NEW other \in S, other # id, Once(rows, other)
      PROVE  Once(longer, other)
  <2>1. PICK i \in DOMAIN rows : \A j \in DOMAIN rows : rows[j] = other <=> j = i
    BY <1>6 DEF Once
  <2>2. \A j \in DOMAIN longer : longer[j] = other <=> j = i + 1
    BY <1>3, <1>4, <1>5, <1>6, <2>1
  <2>. QED BY <1>4, <2>2 DEF Once
<1>7. ASSUME Absent(rows, id)
      PROVE  Once(longer, id)
  <2>1. \A j \in DOMAIN longer : longer[j] = id <=> j = 1
    BY <1>3, <1>4, <1>5, <1>7 DEF Absent
  <2>. QED BY <1>3, <2>1 DEF Once
<1>8. ASSUME NEW other \in S, other # id, Absent(rows, other)
      PROVE  Absent(longer, other)
  BY <1>4, <1>5, <1>8 DEF Absent
<1>. QED BY <1>2, <1>6, <1>7, <1>8 DEF longer

\* The copies of an entry are among the records, and finitely many.
LEMMA CopiesAreFinite ==
    ASSUME table \in Seq(Nat), NEW e
    PROVE  IsFiniteSet(Copies(e)) /\ Cardinality(Copies(e)) \in Nat
<1>1. DOMAIN table = 1 .. Len(table) /\ Len(table) \in Nat
  BY LenProperties
<1>2. Copies(e) \in SUBSET (1 .. Len(table)) /\ IsFiniteSet(1 .. Len(table))
  BY <1>1, FS_Interval DEF Copies
<1>. QED BY <1>2, FS_Subset, FS_CardinalityType

LEMMA CopyAdded ==
    ASSUME table \in Seq(Nat), NEW x \in Nat, table' = Append(table, x)
    PROVE  /\ table' \in Seq(Nat) /\ Len(table') = Len(table) + 1
           /\ \A i \in DOMAIN table' : table'[i] = IF i = Len(table) + 1 THEN x ELSE table[i]
           /\ \A e : e # x => Copies(e)' = Copies(e)
           /\ Cardinality(Copies(x)') = Cardinality(Copies(x)) + 1
<1>1. /\ table' \in Seq(Nat) /\ Len(table') = Len(table) + 1
      /\ DOMAIN table' = 1 .. Len(table) + 1
      /\ DOMAIN table = 1 .. Len(table) /\ Len(table) \in Nat
      /\ \A i \in 1 .. Len(table) : table'[i] = table[i]
      /\ table'[Len(table) + 1] = x
  OBVIOUS
<1>2. \A e : e # x => Copies(e)' = Copies(e)
  BY <1>1 DEF Copies
<1>3. Copies(x)' = Copies(x) \union {Len(table) + 1} /\ Len(table) + 1 \notin Copies(x)
  BY <1>1 DEF Copies
<1>4. Cardinality(Copies(x)') = Cardinality(Copies(x)) + 1
  BY <1>3, CopiesAreFinite, FS_AddElement
<1>. QED BY <1>1, <1>2, <1>4

-----------------------------------------------------------------------------
(* What a step leaves alone. *)

\* Loads, their numbers and the spinner.
LoadsInv == NewestInv /\ SpinInv /\ SpinnerTellsTruth

LEMMA LoadsTurn ==
    ASSUME LoadsInv, UNCHANGED <<page, requestSequence, shown, loading>>,
           newest' = newest \/ newest' = [newest EXCEPT !.fate = "failed"],
           newest \in [id : Nat, overlapped : BOOLEAN,
                       fate : {"none", "failed", "discarded", "overtaken"}],
           \A f \in OnTheWay({"load"})' :
               \E g \in OnTheWay({"load"}) : g.id = f.id /\ g.sequence = f.sequence,
           \A g \in OnTheWay({"load"}) :
               \E f \in OnTheWay({"load"})' : g.id = f.id /\ g.sequence = f.sequence
    PROVE  LoadsInv'
<1>1. /\ newest'.id = newest.id /\ newest'.overlapped = newest.overlapped
      /\ newest'.fate = "none" => newest.fate = "none"
  OBVIOUS
<1>2. NewestInv'
  BY <1>1 DEF LoadsInv, NewestInv, Takes
<1>3. SpinInv'
  BY <1>1 DEF LoadsInv, SpinInv
<1>4. SpinnerTellsTruth'
  BY <1>1 DEF LoadsInv, SpinnerTellsTruth, NewestOnTheWay
<1>. QED BY <1>2, <1>3, <1>4 DEF LoadsInv

LEMMA LoadsStay ==
    ASSUME LoadsInv, UNCHANGED <<page, requestSequence, shown, loading>>,
           newest' = newest \/ newest' = [newest EXCEPT !.fate = "failed"],
           newest \in [id : Nat, overlapped : BOOLEAN,
                       fate : {"none", "failed", "discarded", "overtaken"}],
           OnTheWay({"load"})' = OnTheWay({"load"})
    PROVE  LoadsInv'
BY LoadsTurn

\* The panel.
PanelsInv == PanelInv /\ PanelShowsItsCourse
Panel == {"access", "subscribe"}

LEMMA PanelsStay ==
    ASSUME PanelsInv, UNCHANGED <<selected, access, crossed>>,
           \A f \in OnTheWay(Panel)' : \E g \in OnTheWay(Panel) : g.of = f.of
    PROVE  PanelsInv'
BY DEF PanelsInv, PanelInv, PanelShowsItsCourse, Panel

\* The form, and the records it made.
FormInv == SubmitInv /\ RecordInv /\ CopyInv /\ StoredOnce

LEMMA FormStays ==
    ASSUME FormInv, UNCHANGED <<table, confirmed, busy, entry, lostCreates>>,
           Submissions' = Submissions
    PROVE  FormInv'
<1>1. \A f : f \in flight' /\ Stored(f) <=> f \in flight /\ Stored(f)
  <2>1. \A f : f \in flight' /\ f.kind \in {"create", "upload"} <=>
               f \in flight /\ f.kind \in {"create", "upload"}
    BY DEF Submissions, OnTheWay
  <2>. QED BY <2>1 DEF Stored
<1>2. SubmitInv'
  BY DEF FormInv, SubmitInv
<1>3. RecordInv'
  BY <1>1 DEF FormInv, RecordInv, Stored
<1>4. CopyInv' /\ StoredOnce'
  BY <1>1 DEF FormInv, CopyInv, StoredOnce, Copies, Stored
<1>. QED BY <1>2, <1>3, <1>4 DEF FormInv

\* The rows shown, and those on their way.
ListInv == RowsInv /\ DataInv

LEMMA ListStays ==
    ASSUME ListInv, UNCHANGED <<page, table, requestSequence, confirmed, data, shown>>,
           OnTheWay({"load"})' \subseteq OnTheWay({"load"}),
           Submissions = {} => Submissions' = {},
           \A f \in flight' : Stored(f) => \E g \in flight : Stored(g) /\ g.rows = f.rows
    PROVE  ListInv'
<1>1. RowsInv'
  BY DEF ListInv, RowsInv, Takes
<1>2. DataInv'
  BY DEF ListInv, DataInv, Stored
<1>. QED BY <1>1, <1>2 DEF ListInv

LEMMA Parts ==
    IInv <=> TypeOK /\ LoadsInv /\ PanelsInv /\ FormInv /\ ListInv
BY DEF IInv, LoadsInv, PanelsInv, FormInv, ListInv

-----------------------------------------------------------------------------
(* Requests come and go. *)

FlightInv ==
    /\ flight \subseteq Message
    /\ \A f \in flight : f.id <= sent /\ f.sequence <= requestSequence
    /\ \A f, g \in flight : f.id = g.id => f = g

LEMMA Typed == TypeOK => FlightInv /\ requestSequence \in Nat /\ sent \in Nat
BY DEF TypeOK, FlightInv

\* A new request, numbered by the page and by history.
LEMMA NewRequest ==
    ASSUME TypeOK, NEW new \in Message, new.id = sent + 1, new.sequence <= requestSequence',
           requestSequence' \in Nat, requestSequence <= requestSequence', sent' = sent + 1,
           flight' = flight \union {new}
    PROVE  FlightInv'
<1>1. \A f \in flight : f.id \in Nat /\ f.sequence \in Nat /\ f.id <= sent /\ f.sequence <= requestSequence
  BY Typed DEF FlightInv, Message
<1>2. \A f \in flight' : f.id <= sent' /\ f.sequence <= requestSequence'
  BY <1>1, Typed
<1>3. \A f, g \in flight' : f.id = g.id => f = g
  BY <1>1, Typed DEF FlightInv
<1>. QED BY <1>2, <1>3, Typed DEF FlightInv

\* The fields of a request that the page fills in.
LEMMA FilledIn ==
    ASSUME sent \in Nat, NEW kind \in Kinds
    PROVE  /\ Request(kind) \in Message
           /\ Request(kind).id = sent + 1 /\ Request(kind).kind = kind /\ ~Request(kind).served
           /\ Request(kind).sequence = 0
<1>1. <<>> \in Seq(Nat)
  OBVIOUS
<1>. QED BY <1>1 DEF Request, Message

NewLoad(number, crossing) == [Request("load") EXCEPT !.sequence = number, !.crossing = crossing]
NewAsk(kind, c) == [Request(kind) EXCEPT !.of = c]

LEMMA NewLoadShape ==
    ASSUME sent \in Nat, NEW number \in Nat, NEW crossing \in BOOLEAN
    PROVE  LET new == NewLoad(number, crossing)
           IN  /\ new \in Message /\ new.id = sent + 1 /\ new.kind = "load" /\ ~new.served
               /\ new.sequence = number /\ (new.crossing <=> crossing)
<1>1. PICK r \in Message : r = Request("load") /\ r.id = sent + 1 /\ r.kind = "load" /\ ~r.served
  BY FilledIn DEF Kinds
<1>2. NewLoad(number, crossing) = [r EXCEPT !.sequence = number, !.crossing = crossing]
  BY <1>1 DEF NewLoad
<1>. QED BY <1>1, <1>2 DEF Message

LEMMA NewAskShape ==
    ASSUME sent \in Nat, NEW kind \in Kinds, NEW c \in Courses \union {None}
    PROVE  LET new == NewAsk(kind, c)
           IN  /\ new \in Message /\ new.id = sent + 1 /\ new.kind = kind
               /\ new.sequence = 0 /\ new.of = c
<1>1. PICK r \in Message : r = Request(kind) /\ r.id = sent + 1 /\ r.kind = kind /\ r.sequence = 0
  BY FilledIn
<1>2. NewAsk(kind, c) = [r EXCEPT !.of = c]
  BY <1>1 DEF NewAsk
<1>. QED BY <1>1, <1>2 DEF Message

\* A request is gone.
LEMMA RequestGone ==
    ASSUME TypeOK, flight' \subseteq flight, UNCHANGED <<sent, requestSequence>>
    PROVE  FlightInv'
BY Typed DEF FlightInv

\* A request has become another, under the same numbers.
LEMMA RequestTurned ==
    ASSUME TypeOK, NEW f \in flight, NEW g \in Message, g.id = f.id, g.sequence = f.sequence,
           flight' = (flight \ {f}) \union {g}, UNCHANGED <<sent, requestSequence>>
    PROVE  FlightInv'
<1>1. FlightInv
  BY Typed
<1>2. \A h \in flight' : h.id <= sent' /\ h.sequence <= requestSequence'
  BY <1>1 DEF FlightInv
<1>3. \A h, k \in flight' : h.id = k.id => h = k
  BY <1>1 DEF FlightInv
<1>. QED BY <1>1, <1>2, <1>3 DEF FlightInv

\* The server's answer to one request.
LEMMA Answer ==
    ASSUME TypeOK, NEW f \in flight, Serve(f)
    PROVE  /\ ~f.served
           /\ \E g \in Message :
                /\ flight' = (flight \ {f}) \union {g}
                /\ g.id = f.id /\ g.kind = f.kind /\ g.sequence = f.sequence /\ g.served
                /\ g.of = f.of /\ (g.crossing <=> f.crossing)
                /\ f.kind = "load" => g.rows \in Pages /\ g.omitted = Omitted(g.rows)
                /\ f.kind = "create" => g.rows = <<Len(table) + 1>>
                /\ f.kind \notin {"load", "create"} => g.rows = f.rows
           /\ table' = IF f.kind = "create" THEN Append(table, entry) ELSE table
           /\ UNCHANGED <<page, requestSequence, loading, listed, form, panel, history>>
<1>1. f \in Message
  BY DEF TypeOK
<1>2. PICK rows \in CASE f.kind = "load" -> Pages
                      [] f.kind = "create" -> {<<Len(table) + 1>>}
                      [] OTHER -> {f.rows} :
         flight' = (flight \ {f}) \union
             {[f EXCEPT !.served = TRUE, !.rows = rows,
                        !.omitted = IF f.kind = "load" THEN Omitted(rows) ELSE {}]}
  BY DEF Serve
<1>3. /\ f.kind = "load" => rows \in Pages
      /\ f.kind = "create" => rows = <<Len(table) + 1>>
      /\ f.kind \notin {"load", "create"} => rows = f.rows
  OBVIOUS
<1>. DEFINE omitted == IF f.kind = "load" THEN Omitted(rows) ELSE {}
            g == [f EXCEPT !.served = TRUE, !.rows = rows, !.omitted = omitted]
<1>4. rows \in Seq(Nat) /\ omitted \in SUBSET Nat
  <2>1. table \in Seq(Nat) /\ Len(table) + 1 \in Nat /\ f.rows \in Seq(Nat)
    BY <1>1, LenProperties DEF TypeOK, Message
  <2>2. CASE f.kind = "load"
    BY <1>3, <2>1, <2>2, PageShape
  <2>3. CASE f.kind = "create"
    <3>1. PICK n \in Nat : n = Len(table) + 1
      BY <2>1
    <3>2. <<n>> \in Seq(Nat)
      OBVIOUS
    <3>3. rows = <<n>> /\ omitted = {}
      BY <1>3, <2>3, <3>1
    <3>. QED BY <3>2, <3>3
  <2>4. CASE f.kind \notin {"load", "create"}
    BY <1>3, <2>1, <2>4
  <2>. QED BY <2>2, <2>3, <2>4
<1>5. f.kind = "load" => omitted = Omitted(rows)
  OBVIOUS
<1>6. flight' = (flight \ {f}) \union {g}
  BY <1>2
<1>. HIDE DEF omitted
<1>7. /\ g \in Message
      /\ g.id = f.id /\ g.kind = f.kind /\ g.sequence = f.sequence /\ g.served
      /\ g.of = f.of /\ (g.crossing <=> f.crossing) /\ g.rows = rows /\ g.omitted = omitted
  BY <1>1, <1>4 DEF Message
<1>8. /\ ~f.served
      /\ table' = IF f.kind = "create" THEN Append(table, entry) ELSE table
      /\ UNCHANGED <<page, requestSequence, loading, listed, form, panel, history>>
  BY DEF Serve
<1>. HIDE DEF g
<1>. QED BY <1>3, <1>5, <1>6, <1>7, <1>8

-----------------------------------------------------------------------------
(* A load is sent. *)

LEMMA LoadSent ==
    ASSUME TypeOK, Load
    PROVE  \E new \in Message :
             /\ new.id = sent + 1 /\ new.kind = "load" /\ new.sequence = requestSequence + 1
             /\ ~new.served /\ (new.crossing <=> Submissions # {})
             /\ flight' = flight \union {new}
<1>1. \E crossing \in BOOLEAN : (crossing = (OnTheWay({"create", "upload"}) # {}))
  BY Zenon
<1>2. PICK crossing \in BOOLEAN : (crossing = (OnTheWay({"create", "upload"}) # {}))
  BY <1>1
<1>3. flight' = flight \union {NewLoad(requestSequence + 1, crossing)}
  BY <1>2, Zenon DEF Load, NewLoad
<1>4. crossing <=> Submissions # {}
  BY <1>2, Zenon DEF Submissions
<1>5. sent \in Nat /\ requestSequence + 1 \in Nat
  BY Typed
<1>. QED BY <1>3, <1>4, <1>5, NewLoadShape

LEMMA LoadKeeps ==
    ASSUME IInv, Load
    PROVE  IInv'
<1>1. TypeOK /\ LoadsInv /\ PanelsInv /\ FormInv /\ ListInv /\ FlightInv
      /\ requestSequence \in Nat /\ sent \in Nat
  BY Parts, Typed
<1>2. PICK new \in Message :
         /\ new.id = sent + 1 /\ new.kind = "load" /\ new.sequence = requestSequence + 1
         /\ ~new.served /\ (new.crossing <=> Submissions # {})
         /\ flight' = flight \union {new}
  BY <1>1, LoadSent
<1>. DEFINE others == OnTheWay({"load"}) # {}
<1>3. /\ requestSequence' = requestSequence + 1 /\ loading' = TRUE /\ sent' = sent + 1
      /\ newest' = [id |-> sent + 1, overlapped |-> others,
                    fate |-> IF others /\ page = "CourseCatalog" THEN "overtaken" ELSE "none"]
      /\ UNCHANGED <<page, table, data, shown, form, panel, lost, lostCreates, confirmed>>
  BY DEF Load, Spinner
<1>4. /\ requestSequence' \in Nat /\ requestSequence <= requestSequence'
      /\ new.sequence <= requestSequence'
  BY <1>1, <1>2, <1>3
<1>5. FlightInv'
  BY <1>1, <1>2, <1>3, <1>4, NewRequest
<1>6. TypeOK'
  <2>1. newest' \in [id : 1 .. sent', overlapped : BOOLEAN,
                     fate : {"none", "failed", "discarded", "overtaken"}]
    <3>1. others \in BOOLEAN
      BY Zenon
    <3>2. sent + 1 \in 1 .. sent'
      BY <1>1, <1>3
    <3>. HIDE DEF others
    <3>. QED BY <1>3, <3>1, <3>2
  <2>. QED BY <1>1, <1>3, <1>5, <2>1 DEF TypeOK, FlightInv, form, panel
<1>7. LoadsInv'
  <2>1. \A f \in OnTheWay({"load"}) : f.sequence \in Nat /\ f.sequence <= requestSequence
    BY <1>1 DEF FlightInv, OnTheWay, Message
  <2>2. OnTheWay({"load"})' = OnTheWay({"load"}) \union {new}
    BY <1>2 DEF OnTheWay
  <2>3. newest'.id = new.id /\ loading' /\ Takes(new)'
    BY <1>3, <1>2 DEF Takes
  <2>4. NewestInv'
    <3>1. newest'.fate = "none" => page = "WorkflowPage" \/ OnTheWay({"load"}) = {}
      BY <1>1, <1>3 DEF TypeOK
    <3>2. page = "WorkflowPage" => \A f \in OnTheWay({"load"}) : ~Takes(f)'
      BY <1>1, <1>3, <2>1 DEF Takes
    <3>. QED BY <2>2, <2>3, <3>1, <3>2 DEF NewestInv
  <2>5. SpinInv'
    BY <1>3, <2>2, <2>3 DEF SpinInv
  <2>6. SpinnerTellsTruth'
    BY <2>3 DEF SpinnerTellsTruth
  <2>. QED BY <2>4, <2>5, <2>6 DEF LoadsInv
<1>8. PanelsInv'
  <2>1. \A f \in OnTheWay(Panel)' : f \in OnTheWay(Panel)
    BY <1>2 DEF OnTheWay, Panel
  <2>. QED BY <1>1, <1>3, <2>1, PanelsStay DEF panel
<1>9. FormInv'
  <2>1. Submissions' = Submissions
    BY <1>2 DEF Submissions, OnTheWay
  <2>. QED BY <1>1, <1>3, <2>1, FormStays DEF form
<1>10. ListInv'
  <2>1. Submissions' = Submissions
    BY <1>2 DEF Submissions, OnTheWay
  <2>2. \A f \in OnTheWay({"load"}) : f.sequence \in Nat /\ f.sequence <= requestSequence
    BY <1>1 DEF FlightInv, OnTheWay, Message
  <2>3. \A f \in OnTheWay({"load"}) : Takes(f)' => Takes(f)
    BY <1>1, <1>3, <2>2 DEF Takes
  <2>4. OnTheWay({"load"})' = OnTheWay({"load"}) \union {new}
    BY <1>2 DEF OnTheWay
  <2>5. RowsInv'
    BY <1>1, <1>2, <1>3, <2>1, <2>3, <2>4 DEF ListInv, RowsInv
  <2>6. DataInv'
    BY <1>1, <1>3, <1>2 DEF ListInv, DataInv, Stored
  <2>. QED BY <2>5, <2>6 DEF ListInv
<1>. QED BY <1>6, <1>7, <1>8, <1>9, <1>10 DEF IInv, LoadsInv, PanelsInv, FormInv, ListInv

-----------------------------------------------------------------------------
(* The form is submitted. *)

\* The catalogue's loads on their way are crossed.
Mark(f) == IF f.kind = "load" /\ page = "CourseCatalog" THEN [f EXCEPT !.crossing = TRUE] ELSE f

LEMMA MarkShape ==
    ASSUME NEW f \in Message
    PROVE  /\ Mark(f) \in Message
           /\ Mark(f).id = f.id /\ Mark(f).kind = f.kind /\ Mark(f).sequence = f.sequence
           /\ Mark(f).rows = f.rows /\ Mark(f).of = f.of /\ Mark(f).omitted = f.omitted
           /\ (Mark(f).served <=> f.served)
           /\ f.kind = "load" /\ page = "CourseCatalog" => Mark(f).crossing
           /\ f.kind # "load" => Mark(f) = f
<1>1. CASE f.kind = "load" /\ page = "CourseCatalog"
  <2>1. Mark(f) = [f EXCEPT !.crossing = TRUE]
    BY <1>1 DEF Mark
  <2>. QED BY <1>1, <2>1 DEF Message
<1>2. CASE ~(f.kind = "load" /\ page = "CourseCatalog")
  BY <1>2 DEF Mark
<1>. QED BY <1>1, <1>2

LEMMA SubmitKeeps ==
    ASSUME IInv, Submit
    PROVE  IInv'
<1>1. TypeOK /\ LoadsInv /\ PanelsInv /\ FormInv /\ ListInv /\ FlightInv
      /\ requestSequence \in Nat /\ sent \in Nat
  BY Parts, Typed
<1>2. /\ ~busy /\ busy' = TRUE /\ requestSequence' = Bump /\ sent' = sent + 1
      /\ withVideo' \in BOOLEAN
      /\ newest' = IF page = "WorkflowPage" /\ NewestOnTheWay
                   THEN [newest EXCEPT !.fate = "discarded"] ELSE newest
      /\ UNCHANGED <<page, table, data, loading, entry, shown, panel,
                     lost, lostCreates, confirmed>>
  BY DEF Submit
<1>3. PICK new \in Message :
         /\ new.id = sent + 1 /\ new.kind = "create" /\ ~new.served /\ new.sequence = 0
         /\ flight' = {Mark(f) : f \in flight} \union {new}
  <2>1. "create" \in Kinds /\ flight' = {Mark(f) : f \in flight} \union {Request("create")}
    BY DEF Submit, Mark, Kinds
  <2>. QED BY <1>1, <2>1, FilledIn
<1>4. /\ requestSequence' \in Nat /\ requestSequence <= requestSequence'
      /\ page = "WorkflowPage" => requestSequence' = requestSequence + 1
      /\ page = "CourseCatalog" => requestSequence' = requestSequence
  BY <1>1, <1>2 DEF Bump
<1>5. \A f \in flight : /\ f \in Message /\ f.id \in Nat /\ f.sequence \in Nat
                        /\ f.id <= sent /\ f.sequence <= requestSequence
  BY <1>1 DEF FlightInv, Message
<1>6. \A h \in flight' : h = new \/ \E f \in flight : h = Mark(f)
  BY <1>3
<1>7. FlightInv'
  <2>1. flight' \subseteq Message
    BY <1>3, <1>5, MarkShape
  <2>2. \A h \in flight' : h.id <= sent' /\ h.sequence <= requestSequence'
    BY <1>1, <1>2, <1>3, <1>4, <1>5, <1>6, MarkShape
  <2>3. ASSUME NEW g \in flight', NEW h \in flight', g.id = h.id
        PROVE  g = h
    <3>1. ASSUME NEW k \in flight
          PROVE  Mark(k).id # new.id
      BY <1>1, <1>3, <1>5, MarkShape
    <3>2. ASSUME NEW k \in flight, NEW l \in flight, Mark(k).id = Mark(l).id
          PROVE  Mark(k) = Mark(l)
      BY <1>1, <1>5, <3>2, MarkShape DEF FlightInv
    <3>. QED BY <1>6, <2>3, <3>1, <3>2
  <2>. QED BY <2>1, <2>2, <2>3 DEF FlightInv
<1>8. newest.id \in Nat /\ newest'.id = newest.id /\ newest'.overlapped = newest.overlapped
      /\ (newest'.fate = "none" => newest.fate = "none" /\
                                   (page = "WorkflowPage" => ~NewestOnTheWay))
  BY <1>1, <1>2 DEF TypeOK
<1>9. TypeOK'
  <2>1. newest' \in [id : 1 .. sent', overlapped : BOOLEAN,
                     fate : {"none", "failed", "discarded", "overtaken"}]
    <3>1. newest \in [id : 1 .. sent', overlapped : BOOLEAN,
                      fate : {"none", "failed", "discarded", "overtaken"}]
      BY <1>1, <1>2 DEF TypeOK
    <3>. QED BY <1>2, <3>1
  <2>. QED BY <1>1, <1>2, <1>4, <1>7, <2>1 DEF TypeOK, FlightInv, panel
<1>10. \A h \in OnTheWay({"load"})' :
          \E f \in OnTheWay({"load"}) :
             /\ h.id = f.id /\ h.sequence = f.sequence /\ h.rows = f.rows
             /\ h.omitted = f.omitted /\ (h.served <=> f.served) /\ (page = "CourseCatalog" => h.crossing)
  BY <1>3, <1>5, <1>6, MarkShape DEF OnTheWay
<1>11. LoadsInv'
  <2>1. page = "WorkflowPage" => \A h \in OnTheWay({"load"})' : ~Takes(h)'
    <3>1. \A h \in OnTheWay({"load"})' : h.sequence \in Nat /\ h.sequence <= requestSequence
      BY <1>5, <1>10 DEF OnTheWay
    <3>. QED BY <1>1, <1>2, <1>4, <3>1 DEF Takes
  <2>2. page = "CourseCatalog" => \A h : Takes(h) /\ Takes(h)'
    BY <1>2 DEF Takes
  <2>3. page \in {"WorkflowPage", "CourseCatalog"} /\ page' = page /\ shown' = shown
    BY <1>1, <1>2 DEF TypeOK
  <2>4. NewestInv'
    <3>. SUFFICES ASSUME newest'.fate = "none"
                  PROVE  /\ \A f \in OnTheWay({"load"})' : Takes(f)' => f.id = newest'.id
                         /\ shown'.id = newest'.id
                            \/ \E f \in OnTheWay({"load"})' : f.id = newest'.id /\ Takes(f)'
      BY DEF NewestInv
    <3>1. CASE page = "WorkflowPage"
      <4>1. shown.id = newest.id
        BY <1>1, <1>8, <3>1 DEF LoadsInv, NewestInv, NewestOnTheWay
      <4>. QED BY <1>8, <2>1, <2>3, <3>1, <4>1
    <3>2. CASE page = "CourseCatalog"
      <4>1. \A f \in OnTheWay({"load"}) : f.id = newest.id
        BY <1>1, <1>8, <2>2, <3>2 DEF LoadsInv, NewestInv
      <4>2. \A f \in OnTheWay({"load"})' : f.id = newest'.id
        BY <1>8, <1>10, <4>1
      <4>3. \A f \in OnTheWay({"load"}) : Mark(f) \in OnTheWay({"load"})'
        BY <1>3, <1>5, MarkShape DEF OnTheWay
      <4>4. shown.id = newest.id \/ OnTheWay({"load"}) # {}
        BY <1>1, <1>8 DEF LoadsInv, NewestInv
      <4>. QED BY <1>8, <2>2, <2>3, <3>2, <4>2, <4>3, <4>4
    <3>. QED BY <2>3, <3>1, <3>2
  <2>5. SpinInv'
    BY <1>1, <1>2, <1>8, <1>10 DEF LoadsInv, SpinInv
  <2>6. SpinnerTellsTruth'
    BY <1>1, <1>2, <1>8, <1>10 DEF LoadsInv, SpinnerTellsTruth, NewestOnTheWay
  <2>. QED BY <2>4, <2>5, <2>6 DEF LoadsInv
<1>12. PanelsInv'
  <2>1. \A f \in OnTheWay(Panel)' : f \in OnTheWay(Panel)
    BY <1>3, <1>5, <1>6, MarkShape DEF OnTheWay, Panel
  <2>. QED BY <1>1, <1>2, <2>1, PanelsStay DEF panel
<1>13. Submissions = {}
  BY <1>1, <1>2 DEF FormInv, SubmitInv
<1>14. \A f \in flight : ~Stored(f) /\ ~Stored(Mark(f))
  BY <1>5, <1>13, MarkShape DEF Stored, Submissions, OnTheWay
<1>15. \A f \in flight' : ~Stored(f)
  BY <1>3, <1>6, <1>14 DEF Stored
<1>16. FormInv'
  <2>1. \A f \in Submissions' : f = new
    BY <1>5, <1>6, <1>13, MarkShape DEF Submissions, OnTheWay
  <2>2. SubmitInv'
    BY <1>2, <2>1 DEF SubmitInv
  <2>3. RecordInv'
    BY <1>15 DEF RecordInv, Stored
  <2>4. CopyInv' /\ StoredOnce'
    BY <1>1, <1>2, <1>14 DEF FormInv, CopyInv, StoredOnce, Copies
  <2>. QED BY <2>2, <2>3, <2>4 DEF FormInv
<1>17. ListInv'
  <2>1. page = "WorkflowPage" => \A h \in OnTheWay({"load"})' : ~Takes(h)'
    <3>1. \A h \in OnTheWay({"load"})' : h.sequence \in Nat /\ h.sequence <= requestSequence
      BY <1>5, <1>10 DEF OnTheWay
    <3>. QED BY <1>1, <1>2, <1>4, <3>1 DEF Takes
  <2>2. page \in {"WorkflowPage", "CourseCatalog"}
    BY <1>1 DEF TypeOK
  <2>3. RowsInv'
    BY <1>1, <1>2, <1>10, <2>1, <2>2 DEF ListInv, RowsInv
  <2>4. DataInv'
    BY <1>1, <1>2, <1>15 DEF ListInv, DataInv, Stored
  <2>. QED BY <2>3, <2>4 DEF ListInv
<1>. QED BY <1>9, <1>11, <1>12, <1>16, <1>17 DEF IInv, LoadsInv, PanelsInv, FormInv, ListInv

-----------------------------------------------------------------------------
(* The panel. *)

\* A step of the panel leaves the list and the form alone.
LEMMA PanelOnly ==
    ASSUME IInv, UNCHANGED <<page, table, requestSequence, loading, listed, form,
                             lost, lostCreates, confirmed>>,
           sent' \in Nat, sent <= sent',
           selected' \in Courses \union {None}, access' \in Courses \union {None},
           crossed' \in BOOLEAN, FlightInv', PanelsInv',
           \A f : f.kind \notin Panel => (f \in flight' <=> f \in flight)
    PROVE  IInv'
<1>1. TypeOK /\ LoadsInv /\ PanelsInv /\ FormInv /\ ListInv
  BY Parts
<1>2. UNCHANGED <<data, shown, newest, busy, entry, withVideo>>
  BY DEF listed, form
<1>3. TypeOK'
  <2>1. newest' \in [id : 1 .. sent', overlapped : BOOLEAN,
                     fate : {"none", "failed", "discarded", "overtaken"}]
    <3>1. 1 .. sent \subseteq 1 .. sent' /\ newest.id \in 1 .. sent
      BY <1>1 DEF TypeOK
    <3>. QED BY <1>1, <1>2, <3>1 DEF TypeOK
  <2>. QED BY <1>1, <1>2, <2>1 DEF TypeOK, FlightInv
<1>4. /\ OnTheWay({"load"})' = OnTheWay({"load"})
      /\ Submissions' = Submissions
  BY DEF OnTheWay, Submissions, Panel
<1>5. newest \in [id : Nat, overlapped : BOOLEAN,
                  fate : {"none", "failed", "discarded", "overtaken"}]
  BY <1>1 DEF TypeOK
<1>6. LoadsInv'
  BY <1>1, <1>2, <1>4, <1>5, LoadsStay
<1>7. FormInv'
  BY <1>1, <1>2, <1>4, FormStays
<1>8. \A f \in flight' : Stored(f) => f \in flight
  BY DEF Stored, Panel
<1>9. ListInv'
  BY <1>1, <1>2, <1>4, <1>8, ListStays
<1>. QED BY <1>3, <1>6, <1>7, <1>9 DEF IInv, LoadsInv, PanelsInv, FormInv, ListInv

LEMMA AskKeeps ==
    ASSUME IInv, Subscribe \/ \E c \in Courses : Open(c)
    PROVE  IInv'
<1>1. TypeOK /\ PanelsInv /\ FlightInv /\ requestSequence \in Nat /\ sent \in Nat
  BY Parts, Typed
<1>2. PICK kind \in Panel, new \in Message :
         /\ new.id = sent + 1 /\ new.kind = kind /\ new.sequence = 0
         /\ flight' = flight \union {new}
         /\ new.of = selected'
  <2>1. CASE Subscribe
    <3>1. /\ selected \in Courses \union {None} /\ selected' = selected
          /\ flight' = flight \union {NewAsk("subscribe", selected)}
      BY <1>1, <2>1 DEF Subscribe, TypeOK, panel, NewAsk
    <3>2. "subscribe" \in Kinds /\ "subscribe" \in Panel
      BY DEF Kinds, Panel
    <3>. QED BY <1>1, <3>1, <3>2, NewAskShape
  <2>2. ASSUME NEW c \in Courses, Open(c)
        PROVE  \E kind \in Panel, new \in Message :
                 /\ new.id = sent + 1 /\ new.kind = kind /\ new.sequence = 0
                 /\ flight' = flight \union {new}
                 /\ new.of = selected'
    <3>1. selected' = c /\ flight' = flight \union {NewAsk("access", c)}
      BY <2>2 DEF Open, NewAsk
    <3>2. "access" \in Kinds /\ "access" \in Panel
      BY DEF Kinds, Panel
    <3>. QED BY <1>1, <3>1, <3>2, NewAskShape
  <2>. QED BY <2>1, <2>2
<1>3. /\ UNCHANGED <<page, table, requestSequence, loading, listed, form, access,
                     lost, lostCreates, confirmed>>
      /\ sent' = sent + 1 /\ selected' \in Courses \union {None}
      /\ \/ UNCHANGED <<selected, crossed>>
         \/ crossed' = (access # None \/ OnTheWay({"access", "subscribe"}) # {})
  BY <1>1 DEF Subscribe, Open, TypeOK, panel
<1>4. crossed' \in BOOLEAN
  BY <1>1, <1>3, Zenon DEF TypeOK
<1>5. FlightInv'
  BY <1>1, <1>2, <1>3, NewRequest
<1>6. PanelsInv'
  <2>1. \A f \in OnTheWay(Panel)' : f \in OnTheWay(Panel) \/ f = new
    BY <1>2 DEF OnTheWay
  <2>2. CASE UNCHANGED <<selected, crossed>>
    BY <1>1, <1>2, <1>3, <2>1, <2>2 DEF PanelsInv, PanelInv, PanelShowsItsCourse, Panel
  <2>3. CASE crossed' = (access # None \/ OnTheWay({"access", "subscribe"}) # {})
    <3>1. crossed' <=> access # None \/ OnTheWay(Panel) # {}
      BY <2>3, Zenon DEF Panel
    <3>. QED BY <1>2, <1>3, <2>1, <3>1 DEF PanelsInv, PanelInv, PanelShowsItsCourse, Panel
  <2>. QED BY <1>3, <2>2, <2>3
<1>7. \A f : f.kind \notin Panel => (f \in flight' <=> f \in flight)
  BY <1>2
<1>8. access' \in Courses \union {None} /\ sent' \in Nat /\ sent <= sent'
  BY <1>1, <1>3 DEF TypeOK
<1>. QED BY <1>3, <1>4, <1>5, <1>6, <1>7, <1>8, PanelOnly

LEMMA CloseKeeps ==
    ASSUME IInv, Close
    PROVE  IInv'
<1>1. TypeOK /\ PanelsInv /\ FlightInv /\ requestSequence \in Nat /\ sent \in Nat
  BY Parts, Typed
<1>2. /\ UNCHANGED <<page, table, flight, requestSequence, loading, listed, form,
                     sent, lost, lostCreates, confirmed>>
      /\ selected' = None /\ access' = None
      /\ crossed' = (OnTheWay({"access", "subscribe"}) # {})
  BY DEF Close, ForgetAccess, server, history
<1>3. crossed' \in BOOLEAN /\ (crossed' <=> OnTheWay(Panel) # {})
  BY <1>2, Zenon DEF Panel
<1>4. FlightInv'
  BY <1>1, <1>2 DEF FlightInv
<1>5. OnTheWay(Panel)' = OnTheWay(Panel)
  BY <1>2 DEF OnTheWay
<1>6. PanelsInv'
  BY <1>2, <1>3, <1>5 DEF PanelsInv, PanelInv, PanelShowsItsCourse, Panel
<1>. QED BY <1>1, <1>2, <1>3, <1>4, <1>6, PanelOnly

LEMMA AccessShownKeeps ==
    ASSUME IInv, NEW f \in flight, AccessShown(f)
    PROVE  IInv'
<1>1. TypeOK /\ PanelsInv /\ FlightInv /\ requestSequence \in Nat /\ sent \in Nat
      /\ f \in Message
  BY Parts, Typed DEF FlightInv
<1>2. /\ UNCHANGED <<page, table, requestSequence, loading, listed, form, selected,
                     sent, lost, lostCreates, confirmed>>
      /\ flight' = flight \ {f} /\ access' = f.of /\ f.kind \in Panel
      /\ crossed' = (crossed /\ (f.of # selected \/ OnTheWay({"access", "subscribe"}) # {f}))
  BY DEF AccessShown, history, Panel
<1>3. crossed' \in BOOLEAN
  BY <1>2, Zenon
<1>4. crossed' <=> crossed /\ (f.of # selected \/ OnTheWay(Panel) # {f})
  BY <1>2, Zenon DEF Panel
<1>5. FlightInv'
  BY <1>1, <1>2, RequestGone
<1>6. OnTheWay(Panel)' = OnTheWay(Panel) \ {f} /\ f \in OnTheWay(Panel)
  BY <1>2 DEF OnTheWay
<1>7. crossed' \/ (f.of = selected /\ \A g \in OnTheWay(Panel)' : g.of = selected)
  BY <1>1, <1>4, <1>6 DEF PanelsInv, PanelInv, Panel
<1>8. PanelsInv'
  BY <1>2, <1>7 DEF PanelsInv, PanelInv, PanelShowsItsCourse, Panel
<1>9. selected' \in Courses \union {None} /\ access' \in Courses \union {None}
  BY <1>1, <1>2 DEF TypeOK, Message
<1>. QED BY <1>1, <1>2, <1>3, <1>5, <1>8, <1>9, PanelOnly

-----------------------------------------------------------------------------
(* The server answers. *)

\* A submission whose record is stored goes on as another of the same record.
LEMMA SubmissionTurned ==
    ASSUME IInv, NEW f \in flight, NEW g, Stored(f), Stored(g), g.rows = f.rows,
           flight' = (flight \ {f}) \union {g},
           UNCHANGED <<page, table, requestSequence, confirmed, data, shown, busy, entry,
                       lostCreates>>
    PROVE  FormInv' /\ ListInv'
<1>1. FormInv /\ ListInv
  BY Parts
<1>2. f.kind \in {"create", "upload"} /\ g.kind \in {"create", "upload"}
  BY DEF Stored
<1>3. f \in Submissions /\ Submissions' = (Submissions \ {f}) \union {g}
  BY <1>2 DEF Submissions, OnTheWay
<1>4. SubmitInv'
  BY <1>1, <1>3 DEF FormInv, SubmitInv
<1>5. RecordInv'
  BY <1>1 DEF FormInv, RecordInv, Stored
<1>6. CopyInv' /\ StoredOnce'
  BY <1>1 DEF FormInv, CopyInv, StoredOnce, Copies, Stored
<1>7. OnTheWay({"load"})' \subseteq OnTheWay({"load"})
  BY <1>2 DEF OnTheWay
<1>8. \A h \in flight' : Stored(h) => \E k \in flight : Stored(k) /\ k.rows = h.rows
  OBVIOUS
<1>9. ListInv'
  BY <1>1, <1>3, <1>7, <1>8, ListStays
<1>. QED BY <1>4, <1>5, <1>6, <1>9 DEF FormInv

LEMMA ServeKeeps ==
    ASSUME IInv, NEW f \in flight, Serve(f)
    PROVE  IInv'
<1>1. TypeOK /\ LoadsInv /\ PanelsInv /\ FormInv /\ ListInv /\ FlightInv
      /\ requestSequence \in Nat /\ sent \in Nat /\ f \in Message /\ table \in Seq(Nat)
      /\ Len(table) \in Nat /\ data \in Seq(1 .. Len(table)) /\ confirmed \subseteq 1 .. Len(table)
  BY Parts, Typed, LenProperties DEF TypeOK
<1>2. /\ ~f.served
      /\ table' = IF f.kind = "create" THEN Append(table, entry) ELSE table
      /\ UNCHANGED <<page, requestSequence, loading, listed, form, panel, history>>
  BY <1>1, Answer
<1>3. PICK g \in Message :
         /\ flight' = (flight \ {f}) \union {g}
         /\ g.id = f.id /\ g.kind = f.kind /\ g.sequence = f.sequence /\ g.served
         /\ g.of = f.of /\ (g.crossing <=> f.crossing)
         /\ f.kind = "load" => g.rows \in Pages /\ g.omitted = Omitted(g.rows)
         /\ f.kind = "create" => g.rows = <<Len(table) + 1>>
         /\ f.kind \notin {"load", "create"} => g.rows = f.rows
  BY <1>1, Answer
<1>4. UNCHANGED <<data, shown, newest, busy, entry, withVideo, selected, access, crossed,
                  sent, lost, lostCreates, confirmed>>
  BY <1>2 DEF listed, form, panel, history
<1>5. FlightInv'
  BY <1>1, <1>2, <1>3, <1>4, RequestTurned
<1>6. /\ table' \in Seq(Nat) /\ Len(table') \in Nat /\ Len(table) <= Len(table')
      /\ f.kind # "create" => table' = table
  BY <1>1, <1>2, CopyAdded DEF TypeOK
<1>7. 1 .. Len(table) \subseteq 1 .. Len(table')
  BY <1>1, <1>6
<1>8. \A rows \in Seq(1 .. Len(table)) : rows \in Seq(1 .. Len(table'))
  BY <1>7, SeqMonotonic
<1>9. TypeOK'
  BY <1>1, <1>2, <1>4, <1>5, <1>6, <1>7, <1>8 DEF TypeOK, FlightInv
<1>10. LoadsInv'
  <2>1. newest \in [id : Nat, overlapped : BOOLEAN,
                    fate : {"none", "failed", "discarded", "overtaken"}]
    BY <1>1 DEF TypeOK
  <2>2. \A h \in OnTheWay({"load"})' :
            \E k \in OnTheWay({"load"}) : k.id = h.id /\ k.sequence = h.sequence
    BY <1>3 DEF OnTheWay
  <2>3. \A k \in OnTheWay({"load"}) :
            \E h \in OnTheWay({"load"})' : k.id = h.id /\ k.sequence = h.sequence
    <3>1. f.kind = "load" => g \in OnTheWay({"load"})'
      BY <1>3 DEF OnTheWay
    <3>2. \A k \in OnTheWay({"load"}) : k # f => k \in OnTheWay({"load"})'
      BY <1>3 DEF OnTheWay
    <3>3. f \in OnTheWay({"load"}) => f.kind = "load"
      BY DEF OnTheWay
    <3>. QED BY <1>3, <3>1, <3>2, <3>3
  <2>. QED BY <1>1, <1>2, <1>4, <2>1, <2>2, <2>3, LoadsTurn
<1>11. PanelsInv'
  <2>1. \A h \in OnTheWay(Panel)' : \E k \in OnTheWay(Panel) : k.of = h.of
    BY <1>3 DEF OnTheWay
  <2>. QED BY <1>1, <1>4, <2>1, PanelsStay
<1>12. CASE f.kind = "load"
  <2>1. Submissions' = Submissions /\ table' = table
    BY <1>3, <1>6, <1>12 DEF Submissions, OnTheWay
  <2>2. FormInv'
    BY <1>1, <1>4, <2>1, FormStays
  <2>3. /\ g.rows \in Seq(1 .. Len(table)) /\ g.omitted \subseteq 1 .. Len(table)
        /\ \A id \in confirmed : Lists(g.rows, id, g.omitted)
    BY <1>1, <1>3, <1>12, PageShape
  <2>4. \A h \in OnTheWay({"load"})' : h = g \/ h \in OnTheWay({"load"})
    BY <1>3 DEF OnTheWay
  <2>5. f \in OnTheWay({"load"}) /\ (Takes(g) <=> Takes(f))
    BY <1>3, <1>12 DEF OnTheWay, Takes
  <2>6. RowsInv'
    <3>1. \A h : Takes(h)' <=> Takes(h)
      BY <1>2 DEF Takes
    <3>2. ASSUME NEW h \in OnTheWay({"load"})'
          PROVE  /\ h.served => h.rows \in Seq(1 .. Len(table)) /\ h.omitted \subseteq 1 .. Len(table)
                 /\ Takes(h) /\ ~h.crossing =>
                       /\ Submissions = {}
                       /\ h.served => \A id \in confirmed : Lists(h.rows, id, h.omitted)
      <4>1. CASE h = g
        BY <1>1, <1>3, <2>3, <2>5, <4>1 DEF ListInv, RowsInv
      <4>2. CASE h \in OnTheWay({"load"})
        BY <1>1, <4>2 DEF ListInv, RowsInv
      <4>. QED BY <2>4, <4>1, <4>2
    <3>. QED BY <1>4, <2>1, <3>1, <3>2 DEF RowsInv
  <2>7. \A h \in flight' : Stored(h) => h \in flight
    BY <1>3, <1>12 DEF Stored
  <2>8. DataInv'
    BY <1>1, <1>4, <2>7 DEF ListInv, DataInv, Stored
  <2>. QED BY <1>9, <1>10, <1>11, <2>2, <2>6, <2>8 DEF IInv, LoadsInv, PanelsInv, FormInv, ListInv
<1>13. CASE f.kind = "create"
  <2>1. f \in Submissions /\ Submissions = {f} /\ Submissions' = {g} /\ ~Stored(f)
    <3>1. f \in Submissions /\ Submissions' = (Submissions \ {f}) \union {g}
      BY <1>3, <1>13 DEF Submissions, OnTheWay
    <3>2. ~Stored(f)
      BY <1>2, <1>13 DEF Stored
    <3>. QED BY <1>1, <3>1, <3>2 DEF FormInv, SubmitInv
  <2>2. \A h \in flight : ~Stored(h)
    BY <2>1 DEF Stored, Submissions, OnTheWay
  <2>3. \A h \in flight' : Stored(h) <=> h = g
    <3>1. Stored(g)
      BY <1>3, <1>13 DEF Stored
    <3>. QED BY <1>3, <2>2, <3>1
  <2>0. PICK x \in Nat : x = entry
    BY <1>1 DEF TypeOK
  <2>4. table' = Append(table, x) /\ entry \in Nat /\ lostCreates \in Nat /\ entry' = x
    BY <1>1, <1>2, <1>4, <1>13, <2>0 DEF TypeOK
  <2>5. /\ Len(table') = Len(table) + 1
        /\ \A i \in DOMAIN table' : table'[i] = IF i = Len(table) + 1 THEN x ELSE table[i]
        /\ \A e : e # x => Copies(e)' = Copies(e)
        /\ Cardinality(Copies(x)') = Cardinality(Copies(x)) + 1
    BY <1>1, <2>4, CopyAdded
  <2>6. Len(g.rows) = 1 /\ g.rows[1] = Len(table) + 1
    <3>1. g.rows = <<Len(table) + 1>>
      BY <1>2, <1>3, <1>13
    <3>2. \A n : Len(<<n>>) = 1 /\ <<n>>[1] = n
      OBVIOUS
    <3>. QED BY <3>1, <3>2
  <2>7. SubmitInv'
    BY <1>1, <1>4, <2>1 DEF FormInv, SubmitInv
  <2>8. RecordInv'
    <3>1. Len(table) + 1 \in (1 .. Len(table')) \ confirmed
      BY <1>1, <2>5
    <3>2. \A h : Stored(h)' <=> Stored(h)
      BY DEF Stored
    <3>. QED BY <1>4, <2>3, <2>6, <3>1, <3>2 DEF RecordInv
  <2>9. CopyInv'
    <3>1. \A i \in DOMAIN table' : table'[i] <= entry
      <4>1. DOMAIN table = 1 .. Len(table) /\ DOMAIN table' = 1 .. Len(table')
        BY <1>1, <1>6, LenProperties
      <4>. QED BY <1>1, <2>0, <2>4, <2>5, <4>1 DEF FormInv, CopyInv
    <3>2. g \in flight' /\ Stored(g)
      BY <1>3, <2>3
    <3>. QED BY <1>4, <3>1, <3>2 DEF CopyInv, Stored
  <2>10. StoredOnce'
    <3>1. Cardinality(Copies(x)) <= lostCreates /\ Cardinality(Copies(x)) \in Nat
      BY <1>1, <2>0, <2>2, CopiesAreFinite DEF FormInv, CopyInv
    <3>2. Cardinality(Copies(x)') <= 1 + lostCreates
      BY <2>4, <2>5, <3>1
    <3>3. ASSUME NEW e \in 1 .. entry
          PROVE  Cardinality(Copies(e)') <= 1 + lostCreates
      <4>1. CASE e = x
        BY <3>2, <4>1
      <4>2. CASE e # x
        <5>1. Copies(e)' = Copies(e)
          BY <2>5, <4>2
        <5>2. Cardinality(Copies(e)) <= 1 + lostCreates
          BY <1>1 DEF FormInv, StoredOnce
        <5>. QED BY <5>1, <5>2
      <4>. QED BY <4>1, <4>2
    <3>. QED BY <1>4, <3>3 DEF StoredOnce
  <2>11. OnTheWay({"load"})' = OnTheWay({"load"})
    BY <1>3, <1>13 DEF OnTheWay
  <2>12. RowsInv'
    <3>1. \A h : Takes(h)' <=> Takes(h)
      BY <1>2 DEF Takes
    <3>2. \A h \in OnTheWay({"load"}) :
             /\ h.served => h.rows \in Seq(1 .. Len(table')) /\ h.omitted \subseteq 1 .. Len(table')
             /\ ~(Takes(h) /\ ~h.crossing)
      BY <1>1, <1>7, <1>8, <2>1 DEF ListInv, RowsInv
    <3>. QED BY <2>11, <3>1, <3>2 DEF RowsInv
  <2>13. DataInv'
    <3>1. Absent(data, Len(table) + 1) /\ Len(table) + 1 \notin shown.omitted
      BY <1>1, LenProperties, ElementOfSeq DEF Absent, TypeOK
    <3>2. \A h : Stored(h)' <=> Stored(h)
      BY DEF Stored
    <3>. QED BY <1>1, <1>4, <2>3, <2>6, <3>1, <3>2 DEF ListInv, DataInv
  <2>. QED BY <1>9, <1>10, <1>11, <2>7, <2>8, <2>9, <2>10, <2>12, <2>13
           DEF IInv, LoadsInv, PanelsInv, FormInv, ListInv
<1>14. CASE f.kind = "upload"
  <2>1. Stored(f) /\ Stored(g) /\ g.rows = f.rows /\ table' = table
    BY <1>3, <1>6, <1>14 DEF Stored
  <2>2. FormInv' /\ ListInv'
    BY <1>2, <1>3, <1>4, <2>1, SubmissionTurned
  <2>. QED BY <1>9, <1>10, <1>11, <2>2 DEF IInv, LoadsInv, PanelsInv, FormInv, ListInv
<1>15. CASE f.kind \in Panel
  <2>1. /\ Submissions' = Submissions /\ table' = table
        /\ OnTheWay({"load"})' = OnTheWay({"load"})
    BY <1>3, <1>6, <1>15 DEF Submissions, OnTheWay, Panel
  <2>2. FormInv'
    BY <1>1, <1>4, <2>1, FormStays
  <2>3. \A h \in flight' : Stored(h) => h \in flight
    BY <1>3, <1>15 DEF Stored, Panel
  <2>4. ListInv'
    BY <1>1, <1>2, <1>4, <2>1, <2>3, ListStays
  <2>. QED BY <1>9, <1>10, <1>11, <2>2, <2>4 DEF IInv, LoadsInv, PanelsInv, FormInv, ListInv
<1>. QED BY <1>1, <1>12, <1>13, <1>14, <1>15 DEF Message, Kinds, Panel

-----------------------------------------------------------------------------
(* The answers arrive. *)

LEMMA LoadedKeeps ==
    ASSUME IInv, NEW f \in flight, Loaded(f)
    PROVE  IInv'
<1>1. TypeOK /\ LoadsInv /\ PanelsInv /\ FormInv /\ ListInv /\ FlightInv /\ f \in Message
  BY Parts, Typed DEF FlightInv
<1>2. /\ f.kind = "load" /\ f.served /\ flight' = flight \ {f} /\ loading' = FALSE
      /\ UNCHANGED <<page, table, requestSequence, newest, busy, entry, withVideo, selected,
                     access, crossed, sent, lost, lostCreates, confirmed>>
      /\ Takes(f) => /\ data' = f.rows
                     /\ shown' = [id |-> f.id, crossing |-> f.crossing, omitted |-> f.omitted]
      /\ ~Takes(f) => UNCHANGED <<data, shown>>
  BY DEF Loaded, form, panel, history
<1>3. FlightInv'
  BY <1>1, <1>2, RequestGone
<1>4. /\ f \in OnTheWay({"load"}) /\ OnTheWay({"load"})' = OnTheWay({"load"}) \ {f}
      /\ Submissions' = Submissions /\ OnTheWay(Panel)' = OnTheWay(Panel)
  BY <1>2 DEF OnTheWay, Submissions, Panel
<1>5. f.rows \in Seq(1 .. Len(table)) /\ f.omitted \subseteq 1 .. Len(table)
  BY <1>1, <1>2, <1>4 DEF ListInv, RowsInv
<1>6. TypeOK'
  <2>1. shown' \in [id : Nat, crossing : BOOLEAN, omitted : SUBSET (1 .. Len(table))]
        /\ data' \in Seq(1 .. Len(table))
    BY <1>1, <1>2, <1>5 DEF TypeOK, Message
  <2>. QED BY <1>1, <1>2, <1>3, <2>1 DEF TypeOK, FlightInv
<1>7. \A h : Takes(h)' <=> Takes(h)
  BY <1>2 DEF Takes
<1>8. LoadsInv'
  <2>1. NewestInv'
    <3>1. CASE Takes(f)
      <4>1. newest.fate = "none" => shown'.id = newest.id
        BY <1>1, <1>2, <1>4, <3>1 DEF LoadsInv, NewestInv
      <4>. QED BY <1>1, <1>2, <1>4, <1>7, <4>1 DEF LoadsInv, NewestInv
    <3>2. CASE ~Takes(f)
      BY <1>1, <1>2, <1>4, <1>7, <3>2 DEF LoadsInv, NewestInv
    <3>. QED BY <3>1, <3>2
  <2>2. ~newest.overlapped => OnTheWay({"load"})' = {}
    BY <1>1, <1>4 DEF LoadsInv, SpinInv, FlightInv, OnTheWay
  <2>3. SpinInv' /\ SpinnerTellsTruth'
    BY <1>2, <2>2 DEF SpinInv, SpinnerTellsTruth, NewestOnTheWay
  <2>. QED BY <2>1, <2>3 DEF LoadsInv
<1>9. PanelsInv'
  BY <1>1, <1>2, <1>4, PanelsStay
<1>10. FormInv'
  BY <1>1, <1>2, <1>4, FormStays
<1>11. ListInv'
  <2>1. CASE Takes(f)
    <3>1. RowsInv'
      BY <1>1, <1>2, <1>4, <1>7 DEF ListInv, RowsInv
    <3>2. ~shown'.crossing => /\ Submissions = {}
                              /\ \A id \in confirmed : Lists(data', id, shown'.omitted)
      BY <1>1, <1>2, <1>4, <2>1 DEF ListInv, RowsInv
    <3>3. \A h \in flight' : Stored(h) => h \in Submissions
      BY <1>2 DEF Stored, Submissions, OnTheWay
    <3>4. DataInv'
      BY <1>2, <3>2, <3>3 DEF DataInv, Stored
    <3>. QED BY <3>1, <3>4 DEF ListInv
  <2>2. CASE ~Takes(f)
    BY <1>1, <1>2, <1>4, <2>2, ListStays
  <2>. QED BY <2>1, <2>2
<1>. QED BY <1>6, <1>8, <1>9, <1>10, <1>11 DEF IInv, LoadsInv, PanelsInv, FormInv, ListInv

\* A submission is done: the page adds the record and clears the form.
LEMMA FinishKeeps ==
    ASSUME IInv, NEW f \in flight, Stored(f), Finish(WhatWasCreated(f)), flight' = flight \ {f},
           UNCHANGED <<page, table, requestSequence, loading, withVideo, shown, newest, panel,
                       sent, lost, lostCreates>>
    PROVE  IInv'
<1>1. /\ TypeOK /\ LoadsInv /\ PanelsInv /\ FormInv /\ ListInv /\ FlightInv
      /\ table \in Seq(Nat) /\ DOMAIN table = 1 .. Len(table) /\ entry \in Nat /\ lostCreates \in Nat
      /\ data \in Seq(1 .. Len(table)) /\ confirmed \subseteq 1 .. Len(table)
  BY Parts, Typed, LenProperties DEF TypeOK
<1>2. UNCHANGED <<selected, access, crossed>>
  BY DEF panel
<1>3. PICK id \in 1 .. Len(table) : id = f.rows[1] /\ id \notin confirmed
  BY <1>1 DEF FormInv, RecordInv
<1>4. PICK next \in Nat : next = entry + 1
  BY <1>1
<1>5. data' = <<id>> \o data /\ confirmed' = confirmed \union {id} /\ busy' = FALSE /\ entry' = next
  BY <1>3, <1>4 DEF Finish, WhatWasCreated, ClearForm
<1>6. /\ data' \in Seq(1 .. Len(table))
      /\ \A other \in 1 .. Len(table) : other # id /\ Once(data, other) => Once(data', other)
      /\ \A other \in 1 .. Len(table) : other # id /\ Absent(data, other) => Absent(data', other)
      /\ Absent(data, id) => Once(data', id)
  BY <1>1, <1>5, PutBefore
<1>7. FlightInv'
  BY <1>1, RequestGone
<1>8. TypeOK'
  <2>1. entry' \in Nat \ {0} /\ confirmed' \subseteq 1 .. Len(table) /\ busy' \in BOOLEAN
    <3>1. next \in Nat \ {0}
      BY <1>1, <1>4
    <3>. QED BY <1>1, <1>3, <1>5, <3>1
  <2>2. UNCHANGED <<page, table, requestSequence, loading, withVideo, shown, newest, selected,
                    access, crossed, sent, lost, lostCreates>>
    BY <1>2
  <2>. QED BY <1>1, <1>6, <1>7, <2>1, <2>2 DEF TypeOK, FlightInv
<1>9. /\ f \in Submissions /\ Submissions' = {}
      /\ OnTheWay({"load"})' = OnTheWay({"load"}) /\ OnTheWay(Panel)' = OnTheWay(Panel)
  <2>1. f.kind \in {"create", "upload"} /\ f \in Submissions
    BY DEF Stored, Submissions, OnTheWay
  <2>. QED BY <1>1, <2>1 DEF FormInv, SubmitInv, Submissions, OnTheWay, Panel
<1>10. \A h \in flight' : ~Stored(h)
  BY <1>9 DEF Submissions, OnTheWay, Stored
<1>11. newest \in [id : Nat, overlapped : BOOLEAN,
                   fate : {"none", "failed", "discarded", "overtaken"}]
  BY <1>1 DEF TypeOK
<1>12. LoadsInv' /\ PanelsInv'
  BY <1>1, <1>2, <1>9, <1>11, LoadsStay, PanelsStay
<1>13. FormInv'
  <2>1. SubmitInv' /\ RecordInv'
    BY <1>9, <1>10 DEF SubmitInv, RecordInv, Stored
  <2>2. \A i \in DOMAIN table : table[i] \in Nat /\ table[i] <= entry
    BY <1>1, ElementOfSeq DEF FormInv, CopyInv
  <2>3. Copies(next)' = {}
    BY <1>1, <1>4, <2>2 DEF Copies
  <2>4. Cardinality(Copies(next)') = 0
    BY <2>3, FS_EmptySet
  <2>5. CopyInv'
    BY <1>1, <1>4, <1>5, <2>2, <2>4 DEF CopyInv
  <2>6. ASSUME NEW e \in 1 .. next
        PROVE  Cardinality(Copies(e)') <= 1 + lostCreates
    <3>1. CASE e = next
      BY <1>1, <2>4, <3>1
    <3>2. CASE e # next
      <4>1. e \in 1 .. entry
        BY <1>1, <1>4, <3>2
      <4>2. Copies(e)' = Copies(e)
        BY DEF Copies
      <4>. QED BY <1>1, <4>1, <4>2 DEF FormInv, StoredOnce
    <3>. QED BY <3>1, <3>2
  <2>7. StoredOnce'
    BY <1>5, <2>6 DEF StoredOnce
  <2>. QED BY <2>1, <2>5, <2>7 DEF FormInv
<1>14. ListInv'
  <2>1. \A h : Takes(h)' <=> Takes(h)
    BY DEF Takes
  <2>2. RowsInv'
    BY <1>1, <1>9, <2>1 DEF ListInv, RowsInv
  <2>3. ~shown.crossing => /\ \A other \in confirmed : Lists(data, other, shown.omitted)
                           /\ Absent(data, id) /\ id \notin shown.omitted
    BY <1>1, <1>3 DEF ListInv, DataInv
  <2>4. ~shown.crossing => \A other \in confirmed' : Lists(data', other, shown.omitted)
    BY <1>1, <1>3, <1>5, <1>6, <2>3 DEF Lists
  <2>5. DataInv'
    BY <1>10, <2>4 DEF DataInv, Stored
  <2>. QED BY <2>2, <2>5 DEF ListInv
<1>. QED BY <1>8, <1>12, <1>13, <1>14 DEF IInv, LoadsInv, PanelsInv, FormInv, ListInv

LEMMA UploadedKeeps ==
    ASSUME IInv, NEW f \in flight, Uploaded(f)
    PROVE  IInv'
<1>1. Stored(f)
  BY DEF Uploaded, Stored
<1>. QED BY <1>1, FinishKeeps DEF Uploaded

LEMMA CreatedKeeps ==
    ASSUME IInv, NEW f \in flight, Created(f)
    PROVE  IInv'
<1>1. f.kind = "create" /\ f.served /\ Stored(f)
  BY DEF Created, Stored
<1>2. CASE ~withVideo
  BY <1>1, <1>2, FinishKeeps DEF Created
<1>3. CASE withVideo
  <2>1. /\ TypeOK /\ LoadsInv /\ PanelsInv /\ FormInv /\ ListInv /\ FlightInv /\ f \in Message
    BY Parts, Typed DEF FlightInv
  <2>2. /\ flight' = (flight \ {f}) \union {[f EXCEPT !.kind = "upload", !.served = FALSE]}
        /\ UNCHANGED <<page, table, requestSequence, loading, data, shown, newest, busy, entry,
                       withVideo, selected, access, crossed, sent, lost, lostCreates, confirmed>>
    BY <1>3 DEF Created, panel
  <2>3. PICK g \in Message :
           /\ flight' = (flight \ {f}) \union {g} /\ g.id = f.id /\ g.sequence = f.sequence
           /\ g.kind = "upload" /\ g.rows = f.rows
    <3>. DEFINE next == [f EXCEPT !.kind = "upload", !.served = FALSE]
    <3>1. /\ next \in Message /\ next.id = f.id /\ next.sequence = f.sequence
          /\ next.kind = "upload" /\ next.rows = f.rows
      BY <2>1 DEF Message, Kinds
    <3>2. flight' = (flight \ {f}) \union {next}
      BY <2>2
    <3>. HIDE DEF next
    <3>. QED BY <3>1, <3>2
  <2>4. FlightInv'
    BY <2>1, <2>2, <2>3, RequestTurned
  <2>5. TypeOK'
    BY <2>1, <2>2, <2>4 DEF TypeOK, FlightInv
  <2>6. FormInv' /\ ListInv'
    <3>1. Stored(g)
      BY <2>3 DEF Stored
    <3>. QED BY <1>1, <2>2, <2>3, <3>1, SubmissionTurned
  <2>7. OnTheWay({"load"})' = OnTheWay({"load"}) /\ OnTheWay(Panel)' = OnTheWay(Panel)
    BY <1>1, <2>3 DEF OnTheWay, Panel
  <2>8. newest \in [id : Nat, overlapped : BOOLEAN,
                    fate : {"none", "failed", "discarded", "overtaken"}]
    BY <2>1 DEF TypeOK
  <2>9. LoadsInv' /\ PanelsInv'
    BY <2>1, <2>2, <2>7, <2>8, LoadsStay, PanelsStay
  <2>. QED BY <2>5, <2>6, <2>9 DEF IInv, LoadsInv, PanelsInv, FormInv, ListInv
<1>. QED BY <1>2, <1>3

LEMMA FailKeeps ==
    ASSUME IInv, NEW f \in flight, Fail(f)
    PROVE  IInv'
<1>1. /\ TypeOK /\ LoadsInv /\ PanelsInv /\ FormInv /\ ListInv /\ FlightInv /\ f \in Message
      /\ table \in Seq(Nat) /\ lost \in Nat /\ lostCreates \in Nat
      /\ loading \in BOOLEAN /\ busy \in BOOLEAN
  BY Parts, Typed DEF TypeOK, FlightInv
<1>2. /\ flight' = flight \ {f}
      /\ UNCHANGED <<page, table, requestSequence, data, shown, entry, withVideo,
                     selected, access, crossed, sent, confirmed>>
      /\ loading' = (loading /\ f.kind # "load")
      /\ busy' = (busy /\ f.kind \notin {"create", "upload"})
      /\ lostCreates' = IF f.kind \in {"create", "upload"} THEN lostCreates + 1 ELSE lostCreates
      /\ newest' = IF f.id = newest.id THEN [newest EXCEPT !.fate = "failed"] ELSE newest
  BY DEF Fail, panel
<1>3. lost' \in Nat /\ lostCreates' \in Nat
  <2>1. lost' = lost + 1 \/ lost' = lost
    BY DEF Fail
  <2>. QED BY <1>1, <1>2, <2>1
<1>4. loading' \in BOOLEAN /\ busy' \in BOOLEAN
  BY <1>2, Zenon
<1>5. f.kind # "load" => loading' = loading
  BY <1>1, <1>2, Zenon
<1>6. f.kind \notin {"create", "upload"} => busy' = busy /\ lostCreates' = lostCreates
  <2>1. f.kind \notin {"create", "upload"} => busy' = busy
    BY <1>1, <1>2, Zenon
  <2>. QED BY <1>2, <2>1
<1>7. newest \in [id : 1 .. sent, overlapped : BOOLEAN,
                  fate : {"none", "failed", "discarded", "overtaken"}]
  BY <1>1 DEF TypeOK
<1>8. newest' = newest \/ newest' = [newest EXCEPT !.fate = "failed"]
  BY <1>2
<1>9. /\ newest'.id = newest.id /\ newest'.overlapped = newest.overlapped
      /\ newest'.fate = "none" => newest.fate = "none" /\ f.id # newest.id
  BY <1>2, <1>7
<1>10. FlightInv'
  BY <1>1, <1>2, RequestGone
<1>11. TypeOK'
  <2>1. newest' \in [id : 1 .. sent, overlapped : BOOLEAN,
                     fate : {"none", "failed", "discarded", "overtaken"}]
    BY <1>7, <1>8
  <2>. QED BY <1>1, <1>2, <1>3, <1>4, <1>10, <2>1 DEF TypeOK, FlightInv
<1>12. OnTheWay({"load"})' = OnTheWay({"load"}) \ {f}
  BY <1>2 DEF OnTheWay
<1>13. LoadsInv'
  <2>1. CASE f.kind = "load"
    <3>1. \A h : Takes(h)' <=> Takes(h)
      BY <1>2 DEF Takes
    <3>2. NewestInv'
      BY <1>1, <1>2, <1>9, <1>12, <3>1 DEF LoadsInv, NewestInv
    <3>3. f \in OnTheWay({"load"})
      BY <2>1 DEF OnTheWay
    <3>4. ~newest.overlapped => OnTheWay({"load"})' = {}
      BY <1>1, <1>12, <3>3 DEF LoadsInv, SpinInv, FlightInv, OnTheWay
    <3>5. SpinInv' /\ SpinnerTellsTruth'
      BY <1>9, <3>4 DEF SpinInv, SpinnerTellsTruth, NewestOnTheWay
    <3>. QED BY <3>2, <3>5 DEF LoadsInv
  <2>2. CASE f.kind # "load"
    <3>1. OnTheWay({"load"})' = OnTheWay({"load"})
      BY <1>12, <2>2 DEF OnTheWay
    <3>2. newest \in [id : Nat, overlapped : BOOLEAN,
                      fate : {"none", "failed", "discarded", "overtaken"}]
      BY <1>7
    <3>. QED BY <1>1, <1>2, <1>5, <1>8, <2>2, <3>1, <3>2, LoadsStay
  <2>. QED BY <2>1, <2>2
<1>14. PanelsInv'
  <2>1. OnTheWay(Panel)' \subseteq OnTheWay(Panel)
    BY <1>2 DEF OnTheWay
  <2>. QED BY <1>1, <1>2, <2>1, PanelsStay
<1>15. FormInv'
  <2>1. CASE f.kind \in {"create", "upload"}
    <3>1. Submissions' = {}
      BY <1>1, <1>2, <2>1 DEF FormInv, SubmitInv, Submissions, OnTheWay
    <3>2. \A h \in flight' : ~Stored(h)
      BY <3>1 DEF Submissions, OnTheWay, Stored
    <3>3. SubmitInv' /\ RecordInv'
      BY <3>1, <3>2 DEF SubmitInv, RecordInv, Stored
    <3>4. \A e : Copies(e)' = Copies(e)
      BY <1>2 DEF Copies
    <3>5. \A e : Cardinality(Copies(e)) \in Nat
      BY <1>1, CopiesAreFinite
    <3>6. PICK x \in 1 .. entry : x = entry
      BY <1>1 DEF TypeOK
    <3>7. lostCreates' = lostCreates + 1
      BY <1>2, <2>1
    <3>8. \A e \in 1 .. entry : Cardinality(Copies(e)) <= lostCreates'
      BY <1>1, <3>5, <3>7 DEF FormInv, StoredOnce
    <3>9. CopyInv'
      <4>1. Cardinality(Copies(x)') <= lostCreates'
        BY <3>4, <3>6, <3>8
      <4>2. \A i \in DOMAIN table' : table'[i] <= entry'
        BY <1>1, <1>2 DEF FormInv, CopyInv
      <4>3. entry' = x
        BY <1>2, <3>6
      <4>. QED BY <4>1, <4>2, <4>3 DEF CopyInv
    <3>10. StoredOnce'
      <4>1. ASSUME NEW e \in 1 .. entry
            PROVE  Cardinality(Copies(e)') <= 1 + lostCreates'
        BY <1>3, <3>4, <3>5, <3>8
      <4>. QED BY <1>2, <4>1 DEF StoredOnce
    <3>. QED BY <3>3, <3>9, <3>10 DEF FormInv
  <2>2. CASE f.kind \notin {"create", "upload"}
    <3>1. Submissions' = Submissions
      BY <1>2, <2>2 DEF Submissions, OnTheWay
    <3>. QED BY <1>1, <1>2, <1>6, <2>2, <3>1, FormStays
  <2>. QED BY <2>1, <2>2
<1>16. ListInv'
  <2>1. Submissions = {} => Submissions' = {}
    BY <1>2 DEF Submissions, OnTheWay
  <2>. QED BY <1>1, <1>2, <1>12, <2>1, ListStays
<1>. QED BY <1>11, <1>13, <1>14, <1>15, <1>16 DEF IInv, LoadsInv, PanelsInv, FormInv, ListInv

-----------------------------------------------------------------------------
(* Everything. *)

LEMMA InitHolds == Init => IInv
<1>. SUFFICES ASSUME Init PROVE IInv
  OBVIOUS
<1>1. PICK first : /\ first = [id |-> 1, kind |-> "load", sequence |-> 1, rows |-> <<>>,
                               omitted |-> {}, served |-> FALSE, of |-> None, crossing |-> FALSE]
                   /\ flight = {first}
  BY DEF Init
<1>2. /\ first \in Message /\ first.id = 1 /\ first.kind = "load" /\ first.sequence = 1
      /\ ~first.served
  <2>1. <<>> \in Seq(Nat)
    OBVIOUS
  <2>. QED BY <1>1, <2>1 DEF Message, Kinds
<1>3. /\ page \in {"WorkflowPage", "CourseCatalog"} /\ table = <<>> /\ sent = 1
      /\ requestSequence = 1 /\ data = <<>> /\ loading = TRUE /\ busy = FALSE /\ entry = 1
      /\ withVideo = FALSE /\ selected = None /\ access = None /\ lost = 0 /\ lostCreates = 0
      /\ confirmed = {} /\ shown = NoLoad /\ crossed = FALSE
      /\ newest = [id |-> 1, overlapped |-> FALSE, fate |-> "none"]
  BY DEF Init
<1>4. TypeOK
  <2>1. table \in Seq(Nat) /\ data \in Seq(1 .. Len(table)) /\ DOMAIN table = {}
    BY <1>3
  <2>2. shown \in [id : Nat, crossing : BOOLEAN, omitted : SUBSET (1 .. Len(table))]
    BY <1>3 DEF NoLoad
  <2>3. 1 \in 1 .. sent
    BY <1>3
  <2>4. newest \in [id : 1 .. sent, overlapped : BOOLEAN,
                    fate : {"none", "failed", "discarded", "overtaken"}]
    BY <1>3, <2>3
  <2>5. /\ flight \subseteq Message
        /\ \A f \in flight : f.id <= sent /\ f.sequence <= requestSequence
        /\ \A f, g \in flight : f.id = g.id => f = g
    BY <1>1, <1>2, <1>3
  <2>6. /\ requestSequence \in Nat /\ entry \in Nat \ {0} /\ sent \in Nat
        /\ lost \in Nat /\ lostCreates \in Nat /\ confirmed \subseteq 1 .. Len(table)
    BY <1>3
  <2>. QED BY <1>3, <2>1, <2>2, <2>4, <2>5, <2>6 DEF TypeOK
<1>5. /\ Submissions = {} /\ OnTheWay({"load"}) = {first} /\ OnTheWay(Panel) = {}
      /\ \A f \in flight : ~Stored(f)
  BY <1>1, <1>2 DEF Submissions, OnTheWay, Panel, Stored
<1>6. LoadsInv
  BY <1>2, <1>3, <1>5 DEF LoadsInv, NewestInv, SpinInv, SpinnerTellsTruth, Takes
<1>7. PanelsInv
  BY <1>3, <1>5 DEF PanelsInv, PanelInv, PanelShowsItsCourse, Panel
<1>8. FormInv
  <2>1. \A e : Copies(e) = {}
    BY <1>3 DEF Copies
  <2>2. \A e : Cardinality(Copies(e)) = 0
    BY <2>1, FS_EmptySet
  <2>. QED BY <1>3, <1>5, <2>2 DEF FormInv, SubmitInv, RecordInv, CopyInv, StoredOnce
<1>9. ListInv
  BY <1>2, <1>3, <1>5 DEF ListInv, RowsInv, DataInv
<1>. QED BY <1>4, <1>6, <1>7, <1>8, <1>9 DEF IInv, LoadsInv, PanelsInv, FormInv, ListInv

LEMMA NothingKeeps ==
    ASSUME IInv, UNCHANGED vars
    PROVE  IInv'
<1>1. UNCHANGED <<page, table, flight, requestSequence, data, loading, busy, entry, withVideo,
                  selected, access, sent, lost, lostCreates, confirmed, shown, newest, crossed>>
  BY DEF vars, server, listed, form, panel, history
<1>2. TypeOK'
  BY <1>1 DEF IInv, TypeOK
<1>3. OnTheWay({"load"})' = OnTheWay({"load"}) /\ OnTheWay(Panel)' = OnTheWay(Panel)
      /\ Submissions' = Submissions
  BY <1>1 DEF OnTheWay, Submissions
<1>4. newest \in [id : Nat, overlapped : BOOLEAN,
                  fate : {"none", "failed", "discarded", "overtaken"}]
  BY DEF IInv, TypeOK
<1>5. LoadsInv /\ PanelsInv /\ FormInv /\ ListInv
  BY Parts
<1>6. LoadsInv' /\ PanelsInv'
  BY <1>1, <1>3, <1>4, <1>5, LoadsStay, PanelsStay
<1>7. FormInv' /\ ListInv'
  BY <1>1, <1>3, <1>5, FormStays, ListStays
<1>. QED BY <1>2, <1>6, <1>7 DEF IInv, LoadsInv, PanelsInv, FormInv, ListInv

LEMMA NextKeeps ==
    ASSUME IInv, [Next]_vars
    PROVE  IInv'
<1>1. CASE Load
  BY <1>1, LoadKeeps
<1>2. CASE Submit
  BY <1>2, SubmitKeeps
<1>3. CASE Close
  BY <1>3, CloseKeeps
<1>4. CASE Subscribe \/ \E c \in Courses : Open(c)
  BY <1>4, AskKeeps
<1>5. ASSUME NEW f \in flight, Serve(f)
      PROVE  IInv'
  BY <1>5, ServeKeeps
<1>6. ASSUME NEW f \in flight, Loaded(f)
      PROVE  IInv'
  BY <1>6, LoadedKeeps
<1>7. ASSUME NEW f \in flight, Created(f)
      PROVE  IInv'
  BY <1>7, CreatedKeeps
<1>8. ASSUME NEW f \in flight, Uploaded(f)
      PROVE  IInv'
  BY <1>8, UploadedKeeps
<1>9. ASSUME NEW f \in flight, AccessShown(f)
      PROVE  IInv'
  BY <1>9, AccessShownKeeps
<1>10. ASSUME NEW f \in flight, Fail(f)
       PROVE  IInv'
  BY <1>10, FailKeeps
<1>11. CASE UNCHANGED vars
  BY <1>11, NothingKeeps
<1>. QED BY <1>1, <1>2, <1>3, <1>4, <1>5, <1>6, <1>7, <1>8, <1>9, <1>10, <1>11 DEF Next

\* In every state of the page each variable has its type and everything IInv
\* says of loads, submissions and the panel holds (WorkflowPage, CourseCatalog).
THEOREM Invariance == Spec => []IInv
<1>1. Init => IInv
  BY InitHolds
<1>2. IInv /\ [Next]_vars => IInv'
  BY NextKeeps
<1>. QED BY <1>1, <1>2, PTL DEF Spec

\* Every variable has its type: two requests on their way never share a number,
\* rows are of records the server has.
THEOREM TypeCorrect == Spec => []TypeOK
<1>1. IInv => TypeOK
  BY DEF IInv
<1>. QED BY <1>1, Invariance, PTL

\* requestSequence does its work: with nothing on its way the list is of the
\* newest load, unless that failed, was voided or was overtaken.
THEOREM NewestStaysShown == Spec => []NewestIsShown
<1>1. IInv => NewestIsShown
  BY DEF IInv, NewestInv, NewestIsShown
<1>. QED BY <1>1, Invariance, PTL

\* A created record is in the list, once, whatever filters and pages the loads
\* before it were of, until a load leaves it out; unless the rows shown are of a
\* load that a creation crossed.
THEOREM CreatedAreListedOnce == Spec => []CreatedIsListedOnce
<1>1. IInv => CreatedIsListedOnce
  BY OnceIsOne, AbsentIsNone DEF IInv, DataInv, Lists, CreatedIsListedOnce
<1>. QED BY <1>1, Invariance, PTL

\* What was typed once is stored once, but for the copies that lost answers
\* leave: busy and the cleared form let nothing through twice.
THEOREM CopiesAreLosses == Spec => []StoredOnce
<1>1. IInv => StoredOnce
  BY DEF IInv
<1>. QED BY <1>1, Invariance, PTL

\* The spinner is there while the newest load is on its way, unless it was sent
\* together with others.
THEOREM SpinnerIsHonest == Spec => []SpinnerTellsTruth
<1>1. IInv => SpinnerTellsTruth
  BY DEF IInv
<1>. QED BY <1>1, Invariance, PTL

\* The panel shows its own course, unless it changed while an answer was on its way.
THEOREM PanelsShowTheirCourse == Spec => []PanelShowsItsCourse
<1>1. IInv => PanelShowsItsCourse
  BY DEF IInv
<1>. QED BY <1>1, Invariance, PTL
=============================================================================
