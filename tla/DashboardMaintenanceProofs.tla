--------------------- MODULE DashboardMaintenanceProofs ---------------------
(* Proofs about the two components that are about whole tables: Dashboard,     *)
(* which counts their rows, for any number of readers, any set of changes with *)
(* the candidates among them and any bound on changes and losses; Maintenance, *)
(* whose scripts delete them, for any tables the application writes, any rows  *)
(* in them, any databases to start from whose foreign keys hold, and any bound *)
(* on disturbances and uploads.                                                *)
EXTENDS Dashboard, Maintenance, TLAPS

-----------------------------------------------------------------------------
(* Dashboard: the event of a placement *)

Placed == <<"employment", "placement", "created">>

LEMMA PlacementIsAnnounced ==
    /\ Placed \in Emits["placements"]
    /\ Placed \in Clears
    /\ "placements" \in Changes => Placed \in EventTypes
<1>1. Emits["placements"] = {<<"employment", "placement", "created">>}
  BY DEF Emits
<1>. QED BY <1>1 DEF Placed, Clears, EventTypes

LEMMA CandidatesAreCounted ==
    /\ "candidates" \in Counted /\ Counted \subseteq Changes /\ Counted \subseteq Figures
    /\ {"candidates", "verified", "placements"} \subseteq Figures
BY DashboardAssumption DEF Counted, Figures

-----------------------------------------------------------------------------
(* Dashboard: what a change and an event do to the numbers *)

\* The figures are naturals: the rows behind them are.
LEMMA FiguresAreNumbers ==
    ASSUME TypeOK, BoundInv
    PROVE  /\ \A f \in Figures : rows[f] \in Nat /\ Figure(f) \in Nat /\ Figure(f) \in 0 .. MaxChanges
           /\ MaxChanges \in Nat /\ changes \in Nat /\ changes <= MaxChanges
           /\ Figure("verified") = rows["verified"]
           /\ Figure("placements") = rows["placements"]
           /\ rows["verified"] <= Figure("candidates")
<1>1. /\ rows \in [Figures -> 0 .. MaxChanges]
      /\ changes \in 0 .. MaxChanges /\ MaxChanges \in Nat
  BY DashboardAssumption DEF TypeOK
<1>2. \A f \in Figures : rows[f] \in 0 .. MaxChanges
  BY <1>1
<1>3. \A f \in Figures : rows[f] \in Nat
  BY <1>1, <1>2
<1>4. \A f \in Figures : Figure(f) <= changes
  BY DEF BoundInv
<1>5. \A f \in Figures : f # "candidates" => Figure(f) = rows[f]
  BY DEF Figure
<1>6. Figure("candidates") = rows["candidates"] + rows["verified"]
  BY DEF Figure
<1>7. \A f \in Figures : Figure(f) \in Nat
  BY <1>3, <1>5, <1>6, CandidatesAreCounted
<1>8. \A f \in Figures : Figure(f) \in 0 .. MaxChanges
  BY <1>1, <1>4, <1>7
<1>. QED BY <1>1, <1>3, <1>5, <1>6, <1>7, <1>8, CandidatesAreCounted

\* What a change is recorded as.
LEMMA WriteRecords ==
    ASSUME TypeOK, BoundInv, NEW c \in Changes, Write(c)
    PROVE  /\ changes' = changes + 1 /\ changes' \in 0 .. MaxChanges
           /\ stream' \in [EventTypes -> 0 .. MaxChanges]
           /\ \A e \in EventTypes : stream'[e] <= changes'
           /\ \A e \in EventTypes : stream'[e] = IF e \in Emits[c] THEN stream[e] + 1 ELSE stream[e]
           /\ UNCHANGED <<cache, pc, partial, losses, late>>
<1>1. /\ changes < MaxChanges /\ changes' = changes + 1
      /\ changes \in 0 .. MaxChanges /\ MaxChanges \in Nat
      /\ stream \in [EventTypes -> 0 .. MaxChanges]
      /\ stream' = [e \in EventTypes |-> IF e \in Emits[c] THEN stream[e] + 1 ELSE stream[e]]
      /\ UNCHANGED <<cache, pc, partial, losses, late>>
  BY DashboardAssumption DEF TypeOK, Write
<1>2. \A e \in EventTypes : stream'[e] = IF e \in Emits[c] THEN stream[e] + 1 ELSE stream[e]
  BY <1>1
<1>3. \A e \in EventTypes : stream[e] \in 0 .. MaxChanges /\ stream[e] <= changes
  BY <1>1 DEF BoundInv
<1>4. \A e \in EventTypes : stream'[e] \in 0 .. MaxChanges /\ stream'[e] <= changes'
  BY <1>1, <1>2, <1>3
<1>5. DOMAIN stream' = EventTypes /\ stream' = [e \in EventTypes |-> stream'[e]]
  BY <1>1
<1>6. stream' \in [EventTypes -> 0 .. MaxChanges]
  BY <1>4, <1>5
<1>. QED BY <1>1, <1>2, <1>4, <1>6

\* Hearing of an event, or losing it, takes that one event from the stream.
LEMMA EventTaken ==
    ASSUME TypeOK, BoundInv, NEW e \in EventTypes, Take(e)
    PROVE  /\ stream' \in [EventTypes -> 0 .. MaxChanges]
           /\ \A t \in EventTypes : stream'[t] <= stream[t] /\ (t # e => stream'[t] = stream[t])
BY DashboardAssumption DEF TypeOK, Take

-----------------------------------------------------------------------------
(* Dashboard: every step keeps the invariant *)

\* A change keeps it if no figure grows by more than one, if who is verified stays
\* so, if a candidate more is noted by every reader that counts, and if placements
\* grow with their event only.
LEMMA WriteKeeps ==
    ASSUME IInv, NEW c \in Changes, Write(c),
           rows' \in [Figures -> Nat],
           \A f \in Figures : Figure(f)' <= Figure(f) + 1,
           rows["verified"] <= rows'["verified"],
           c # "placements" => rows'["placements"] = rows["placements"],
           during' \in [Readers -> Nat],
           \A r \in Readers : during[r] <= during'[r] /\ during'[r] <= during[r] + 1,
           \A r \in Readers : r \notin Counting => during'[r] = during[r],
           \A r \in Counting : Figure("candidates")' - Figure("candidates") <= during'[r] - during[r]
    PROVE  IInv'
<1>. USE DEF IInv
<1>1. /\ changes' = changes + 1 /\ changes' \in 0 .. MaxChanges
      /\ stream' \in [EventTypes -> 0 .. MaxChanges]
      /\ \A e \in EventTypes : stream'[e] <= changes'
      /\ \A e \in EventTypes : stream'[e] = IF e \in Emits[c] THEN stream[e] + 1 ELSE stream[e]
      /\ UNCHANGED <<cache, pc, partial, losses, late>>
  BY WriteRecords
<1>2. Counting' = Counting /\ Counting \subseteq Readers
  BY <1>1 DEF Counting
<1>3. /\ \A f \in Figures : rows[f] \in Nat /\ Figure(f) \in Nat /\ rows'[f] \in Nat
      /\ MaxChanges \in Nat /\ changes \in Nat /\ changes <= MaxChanges
      /\ Figure("verified") = rows["verified"] /\ Figure("verified")' = rows'["verified"]
      /\ Figure("placements") = rows["placements"] /\ Figure("placements")' = rows'["placements"]
  BY FiguresAreNumbers DEF Figure
<1>4. \A f \in Figures : Figure(f)' \in Nat /\ Figure(f)' <= changes'
  <2>1. \A f \in Figures : Figure(f)' \in Nat
    BY <1>3, CandidatesAreCounted DEF Figure
  <2>. QED BY <1>1, <1>3, <2>1 DEF BoundInv
<1>5. \A f \in Figures : rows'[f] \in 0 .. MaxChanges
  <2>1. \A f \in Figures : rows'[f] <= Figure(f)'
    BY <1>3, CandidatesAreCounted DEF Figure
  <2>. QED BY <1>1, <1>3, <1>4, <2>1
<1>6. \A r \in Readers : during[r] \in Nat /\ during'[r] \in Nat
  BY <1>3 DEF TypeOK
<1>7. \A r \in Readers : /\ during'[r] \in 0 .. MaxChanges
                         /\ r \in Counting => during'[r] <= changes'
  BY <1>1, <1>3, <1>6 DEF BoundInv, TypeOK
<1>8. TypeOK'
  <2>1. rows' \in [Figures -> 0 .. MaxChanges] /\ during' \in [Readers -> 0 .. MaxChanges]
    BY <1>5, <1>7
  <2>. QED BY <1>1, <2>1 DEF TypeOK
<1>9. BoundInv'
  BY <1>1, <1>2, <1>4, <1>7 DEF BoundInv
<1>10. PartialInv'
  <2>. SUFFICES ASSUME NEW r \in Readers
                PROVE  /\ pc[r] \in {"idle", "get"} => DOMAIN partial[r] = {} /\ during'[r] = 0
                       /\ \A f \in DOMAIN partial[r] : partial[r][f] \in 0 .. MaxChanges
                       /\ r \in Counting /\ "candidates" \in DOMAIN partial[r] =>
                             Figure("candidates")' <= partial[r]["candidates"] + during'[r]
                       /\ r \in Counting /\ "verified" \in DOMAIN partial[r] =>
                             partial[r]["verified"] <= Figure("verified")'
    BY <1>1, <1>2 DEF PartialInv
  <2>1. /\ pc[r] \in {"idle", "get"} => DOMAIN partial[r] = {} /\ during[r] = 0
        /\ \A f \in DOMAIN partial[r] : partial[r][f] \in 0 .. MaxChanges
        /\ r \in Counting /\ "candidates" \in DOMAIN partial[r] =>
              Figure("candidates") <= partial[r]["candidates"] + during[r]
        /\ r \in Counting /\ "verified" \in DOMAIN partial[r] =>
              partial[r]["verified"] <= Figure("verified")
    BY DEF PartialInv
  <2>2. pc[r] \in {"idle", "get"} => DOMAIN partial[r] = {} /\ during'[r] = 0
    BY <2>1 DEF Counting
  <2>3. ASSUME r \in Counting, "candidates" \in DOMAIN partial[r]
        PROVE  Figure("candidates")' <= partial[r]["candidates"] + during'[r]
    <3>1. partial[r]["candidates"] \in Nat /\ during[r] \in Nat /\ during'[r] \in Nat
      BY <1>3, <1>6, <2>1, <2>3
    <3>2. Figure("candidates") \in Nat /\ Figure("candidates")' \in Nat
      BY <1>3, <1>4, CandidatesAreCounted
    <3>. QED BY <2>1, <2>3, <3>1, <3>2
  <2>4. ASSUME r \in Counting, "verified" \in DOMAIN partial[r]
        PROVE  partial[r]["verified"] <= Figure("verified")'
    <3>1. partial[r]["verified"] \in Nat /\ rows["verified"] \in Nat /\ rows'["verified"] \in Nat
      BY <1>3, <2>1, <2>4, CandidatesAreCounted
    <3>. QED BY <1>3, <2>1, <2>4, <3>1
  <2>. QED BY <2>1, <2>2, <2>3, <2>4
<1>11. AgreeInv'
  BY <1>1 DEF AgreeInv
<1>12. FiguresAgree'
  <2>. SUFFICES ASSUME NEW r \in Readers, pc[r] = "done", "verified" \in Counted
                PROVE  partial[r]["verified"] <= partial[r]["candidates"] + during'[r]
    BY <1>1 DEF FiguresAgree
  <2>1. r \notin Counting
    BY DEF Counting
  <2>. QED BY <2>1 DEF FiguresAgree
<1>13. ASSUME "placements" \in Counted
       PROVE  \/ Figure("placements")' = Figure("placements")
              \/ stream'[Placed] > 0
  <2>1. CASE c = "placements"
    <3>1. Placed \in EventTypes /\ Placed \in Emits[c]
      BY <1>13, <2>1, PlacementIsAnnounced, CandidatesAreCounted
    <3>2. stream[Placed] \in Nat /\ stream'[Placed] = stream[Placed] + 1
      BY <1>1, <3>1, DashboardAssumption DEF TypeOK
    <3>. QED BY <3>2
  <2>2. CASE c # "placements"
    BY <1>3, <2>2
  <2>. QED BY <2>1, <2>2
<1>14. "placements" \in Counted /\ stream[Placed] > 0 => stream'[Placed] > 0
  <2>1. "placements" \in Counted => Placed \in EventTypes
    BY PlacementIsAnnounced, CandidatesAreCounted
  <2>2. \A e \in EventTypes : stream[e] \in Nat
    BY DashboardAssumption DEF TypeOK
  <2>. QED BY <1>1, <2>1, <2>2
<1>15. FreshInv'
  BY <1>1, <1>2, <1>13, <1>14 DEF FreshInv, Placed, count
<1>16. PlacementsAreFresh'
  BY <1>1, <1>13, <1>14 DEF PlacementsAreFresh, Placed, count
<1>. QED BY <1>8, <1>9, <1>10, <1>11, <1>12, <1>15, <1>16

LEMMA CreateKeeps ==
    ASSUME IInv, NEW c \in Changes, Create(c)
    PROVE  IInv'
<1>1. Write(c) /\ c # "verified"
  BY DEF Create
<1>2. /\ \A f \in Figures : rows[f] \in Nat /\ Figure(f) \in Nat
      /\ rows \in [Figures -> 0 .. MaxChanges]
      /\ during \in [Readers -> 0 .. MaxChanges] /\ MaxChanges \in Nat
  BY FiguresAreNumbers DEF IInv, TypeOK
<1>3. \A f \in Figures : rows'[f] = IF f = c THEN rows[f] + 1 ELSE rows[f]
  BY <1>2 DEF Create
<1>4. rows' \in [Figures -> Nat]
  <2>1. DOMAIN rows' = Figures /\ rows' = [f \in Figures |-> rows'[f]]
    BY <1>2 DEF Create
  <2>2. \A f \in Figures : rows'[f] \in Nat
    BY <1>2, <1>3
  <2>. QED BY <2>1, <2>2
<1>5. \A f \in Figures : Figure(f)' = IF f = c THEN Figure(f) + 1 ELSE Figure(f)
  BY <1>1, <1>2, <1>3, CandidatesAreCounted DEF Figure
<1>6. \A r \in Readers : /\ during[r] \in Nat
                         /\ during'[r] = IF c = "candidates" /\ r \in Counting
                                         THEN during[r] + 1 ELSE during[r]
  BY <1>2 DEF Create
<1>7. during' \in [Readers -> Nat]
  BY <1>6 DEF Create
<1>8. \A r \in Readers : /\ during[r] <= during'[r] /\ during'[r] <= during[r] + 1
                         /\ r \notin Counting => during'[r] = during[r]
  BY <1>6
<1>9. \A r \in Counting : Figure("candidates")' - Figure("candidates") <= during'[r] - during[r]
  BY <1>2, <1>5, <1>6, CandidatesAreCounted DEF Counting
<1>10. \A f \in Figures : Figure(f)' <= Figure(f) + 1
  BY <1>2, <1>5
<1>11. /\ rows["verified"] <= rows'["verified"]
       /\ c # "placements" => rows'["placements"] = rows["placements"]
  BY <1>1, <1>2, <1>3, CandidatesAreCounted
<1>. QED BY <1>1, <1>4, <1>7, <1>8, <1>9, <1>10, <1>11, WriteKeeps

LEMMA VerifyKeeps ==
    ASSUME IInv, Verify
    PROVE  IInv'
<1>1. /\ "verified" \in Changes /\ Write("verified") /\ during' = during
      /\ \/ rows["candidates"] > 0 /\ rows' = [rows EXCEPT !["candidates"] = @ - 1, !["verified"] = @ + 1]
         \/ rows' = rows
  BY DEF Verify
<1>2. /\ \A f \in Figures : rows[f] \in Nat /\ Figure(f) \in Nat
      /\ rows \in [Figures -> 0 .. MaxChanges]
      /\ during \in [Readers -> 0 .. MaxChanges] /\ MaxChanges \in Nat
  BY FiguresAreNumbers DEF IInv, TypeOK
<1>3. /\ \A f \in Figures \ {"candidates", "verified"} : rows'[f] = rows[f]
      /\ rows'["candidates"] \in Nat /\ rows'["verified"] \in Nat
      /\ rows'["candidates"] + rows'["verified"] = rows["candidates"] + rows["verified"]
      /\ rows["verified"] <= rows'["verified"] /\ rows'["verified"] <= rows["verified"] + 1
  BY <1>1, <1>2, CandidatesAreCounted
<1>4. rows' \in [Figures -> Nat]
  <2>1. DOMAIN rows' = Figures /\ rows' = [f \in Figures |-> rows'[f]]
    BY <1>1, <1>2
  <2>2. \A f \in Figures : rows'[f] \in Nat
    BY <1>2, <1>3
  <2>. QED BY <2>1, <2>2
<1>5. Figure("candidates")' = Figure("candidates")
  BY <1>3 DEF Figure
<1>6. \A f \in Figures : Figure(f)' <= Figure(f) + 1
  BY <1>2, <1>3, <1>5 DEF Figure
<1>7. during' \in [Readers -> Nat] /\ \A r \in Readers : during[r] \in Nat
  BY <1>1, <1>2
<1>8. \A r \in Readers : /\ during[r] <= during'[r] /\ during'[r] <= during[r] + 1
                         /\ r \notin Counting => during'[r] = during[r]
  BY <1>1, <1>7
<1>9. \A r \in Counting : Figure("candidates")' - Figure("candidates") <= during'[r] - during[r]
  BY <1>1, <1>2, <1>5, <1>7, CandidatesAreCounted DEF Counting
<1>10. rows'["placements"] = rows["placements"]
  BY <1>3, CandidatesAreCounted
<1>. QED BY <1>1, <1>3, <1>4, <1>6, <1>7, <1>8, <1>9, <1>10, WriteKeeps

LEMMA UpdateKeeps ==
    ASSUME IInv, NEW c \in Changes, Update(c)
    PROVE  IInv'
<1>1. /\ Write(c) /\ during' = during
      /\ c \notin {"candidates", "verified"}
      /\ c \in Figures => rows[c] > 0
      /\ rows' = rows \/ (c = "certificates" /\ rows' = [rows EXCEPT ![c] = @ - 1])
  BY DEF Update
<1>2. /\ \A f \in Figures : rows[f] \in Nat /\ Figure(f) \in Nat
      /\ rows \in [Figures -> 0 .. MaxChanges]
      /\ during \in [Readers -> 0 .. MaxChanges] /\ MaxChanges \in Nat
      /\ "certificates" \in Figures
  BY FiguresAreNumbers DEF IInv, TypeOK, Figures
<1>3. \A f \in Figures : /\ f # "certificates" => rows'[f] = rows[f]
                         /\ rows'[f] \in Nat /\ rows'[f] <= rows[f]
  BY <1>1, <1>2
<1>4. rows' \in [Figures -> Nat]
  <2>1. DOMAIN rows' = Figures /\ rows' = [f \in Figures |-> rows'[f]]
    BY <1>1, <1>2
  <2>. QED BY <1>3, <2>1
<1>5. Figure("candidates")' = Figure("candidates")
  BY <1>3, CandidatesAreCounted DEF Figure
<1>6. \A f \in Figures : Figure(f)' <= Figure(f) + 1
  BY <1>2, <1>3, <1>5 DEF Figure
<1>7. during' \in [Readers -> Nat] /\ \A r \in Readers : during[r] \in Nat
  BY <1>1, <1>2
<1>8. \A r \in Readers : /\ during[r] <= during'[r] /\ during'[r] <= during[r] + 1
                         /\ r \notin Counting => during'[r] = during[r]
  BY <1>1, <1>7
<1>9. \A r \in Counting : Figure("candidates")' - Figure("candidates") <= during'[r] - during[r]
  BY <1>1, <1>2, <1>5, <1>7, CandidatesAreCounted DEF Counting
<1>10. /\ rows["verified"] <= rows'["verified"]
       /\ rows'["placements"] = rows["placements"]
  BY <1>2, <1>3, CandidatesAreCounted
<1>. QED BY <1>1, <1>4, <1>6, <1>7, <1>8, <1>9, <1>10, WriteKeeps

\* An event heard or lost: the cache loses its entry or has it marked, and the
\* readers that count are late, if the event is one of those that clear.
LEMMA EventKeeps ==
    ASSUME IInv, NEW e \in EventTypes, Invalidate(e) \/ Lose(e)
    PROVE  IInv'
<1>. USE DEF IInv
<1>1. Take(e)
  BY DEF Invalidate, Lose
<1>2. /\ stream' \in [EventTypes -> 0 .. MaxChanges]
      /\ \A t \in EventTypes : stream'[t] <= stream[t] /\ (t # e => stream'[t] = stream[t])
  BY <1>1, EventTaken
<1>3. /\ UNCHANGED <<rows, pc, partial, changes, during>> /\ Counting' = Counting
      /\ late \subseteq late' /\ late' \subseteq late \union Counting
      /\ losses' \in 0 .. MaxLosses
  BY DashboardAssumption DEF Invalidate, Lose, Counting, TypeOK
<1>4. /\ e \in Clears => Counting \subseteq late'
      /\ cache' # None => /\ cache # None /\ cache' \in Entries
                          /\ cache'.value = cache.value /\ cache'.during = cache.during
                          /\ cache.late => cache'.late
                          /\ e \in Clears => cache'.late
  <2>1. cache # None => cache \in Entries
    BY DEF TypeOK
  <2>2. CASE Invalidate(e)
    BY <2>1, <2>2 DEF Invalidate
  <2>3. CASE Lose(e) /\ cache # None
    <3>1. cache' = [cache EXCEPT !.late = TRUE] /\ late' = late \union Counting
      BY <2>3 DEF Lose
    <3>2. cache' = [value |-> cache.value, ttl |-> cache.ttl, late |-> TRUE, during |-> cache.during]
      BY <2>1, <2>3, <3>1 DEF Entries
    <3>. QED BY <2>1, <2>3, <3>1, <3>2 DEF Entries
  <2>4. CASE Lose(e) /\ cache = None
    BY <2>4 DEF Lose
  <2>. QED BY <2>2, <2>3, <2>4
<1>5. TypeOK'
  BY <1>2, <1>3, <1>4 DEF TypeOK, Counting
<1>6. BoundInv'
  <2>1. \A t \in EventTypes : stream[t] \in Nat /\ stream'[t] \in Nat /\ changes \in Nat
    BY <1>2, DashboardAssumption DEF TypeOK
  <2>. QED BY <1>2, <1>3, <2>1 DEF BoundInv, Figure
<1>7. PartialInv' /\ FiguresAgree'
  BY <1>3 DEF PartialInv, FiguresAgree, Figure
<1>8. AgreeInv'
  BY <1>3, <1>4 DEF AgreeInv
<1>9. "placements" \in Counted => \/ e \in Clears
                                  \/ stream'[Placed] = stream[Placed]
  BY <1>2, PlacementIsAnnounced, CandidatesAreCounted
<1>10. FreshInv'
  BY <1>3, <1>4, <1>9 DEF FreshInv, Placed, Figure, count
<1>11. PlacementsAreFresh'
  BY <1>3, <1>4, <1>9 DEF PlacementsAreFresh, Placed, Figure, count
<1>. QED BY <1>5, <1>6, <1>7, <1>8, <1>10, <1>11

LEMMA ExpireKeeps ==
    ASSUME IInv, Expire
    PROVE  IInv'
<1>. USE DEF IInv
<1>1. /\ cache' = None /\ Counting' = Counting
      /\ UNCHANGED <<rows, stream, pc, partial, changes, losses, late, during>>
  BY DEF Expire, Counting
<1>2. TypeOK' /\ BoundInv'
  BY <1>1 DEF TypeOK, BoundInv, Figure
<1>3. PartialInv' /\ FiguresAgree' /\ FreshInv'
  BY <1>1 DEF PartialInv, FiguresAgree, FreshInv, Figure, count
<1>4. AgreeInv' /\ PlacementsAreFresh'
  BY <1>1 DEF AgreeInv, PlacementsAreFresh
<1>. QED BY <1>2, <1>3, <1>4

\* Steps of a reader leave the rows and the events alone.
LEMMA ReadersOnlyRead ==
    ASSUME IInv, UNCHANGED <<rows, stream, changes>>, PartialInv', FiguresAgree', TypeOK',
           \A r \in Counting' : during'[r] <= changes,
           cache' = cache \/ (cache' # None =>
               /\ "verified" \in Counted =>
                    cache'.value["verified"] <= cache'.value["candidates"] + cache'.during
               /\ "placements" \in Counted =>
                    \/ cache'.value["placements"] = Figure("placements")
                    \/ stream[Placed] > 0
                    \/ cache'.late),
           "placements" \in Counted =>
               \A r \in Counting' : "placements" \in DOMAIN partial'[r] =>
                  \/ partial'[r]["placements"] = Figure("placements")
                  \/ stream[Placed] > 0
                  \/ r \in late'
    PROVE  IInv'
<1>1. BoundInv'
  BY DEF IInv, BoundInv, Figure
<1>2. AgreeInv'
  BY DEF IInv, AgreeInv
<1>3. PlacementsAreFresh' /\ FreshInv'
  BY DEF IInv, PlacementsAreFresh, FreshInv, Placed, Figure, count
<1>. QED BY <1>1, <1>2, <1>3 DEF IInv

\* To begin, and to find no entry.
LEMMA StartKeeps ==
    ASSUME IInv, NEW r \in Readers, Begin(r) \/ Miss(r)
    PROVE  IInv'
<1>1. /\ UNCHANGED <<rows, stream, cache, partial, changes, losses, late, during>>
      /\ pc[r] \in {"idle", "get"}
      /\ pc' \in [Readers -> {"idle", "get", "count", "set", "done"}]
      /\ pc'[r] \in {"get", "count"}
      /\ \A q \in Readers : q # r => pc'[q] = pc[q]
  BY DEF IInv, TypeOK, Begin, Miss
<1>2. DOMAIN partial[r] = {} /\ during[r] = 0
  BY <1>1 DEF IInv, PartialInv
<1>3. TypeOK'
  BY <1>1 DEF IInv, TypeOK
<1>4. PartialInv'
  BY <1>1, <1>2 DEF IInv, PartialInv, Counting, Figure
<1>5. FiguresAgree'
  BY <1>1 DEF IInv, FiguresAgree
<1>6. "placements" \in Counted =>
        \A q \in Counting' : "placements" \in DOMAIN partial'[q] =>
           \/ partial'[q]["placements"] = Figure("placements")
           \/ stream[Placed] > 0
           \/ q \in late'
  BY <1>1, <1>2 DEF IInv, FreshInv, Counting, Placed, count
<1>7. \A q \in Counting' : during'[q] <= changes
  <2>1. changes \in Nat
    BY DashboardAssumption DEF IInv, TypeOK
  <2>. QED BY <1>1, <1>2, <2>1 DEF IInv, BoundInv, Counting
<1>. QED BY <1>1, <1>3, <1>4, <1>5, <1>6, <1>7, ReadersOnlyRead

LEMMA HitKeeps ==
    ASSUME IInv, NEW r \in Readers, Hit(r)
    PROVE  IInv'
<1>0. cache # None
  BY DEF Hit
<1>1. /\ UNCHANGED <<rows, stream, cache, changes, losses, late>>
      /\ cache \in Entries
      /\ during' \in [Readers -> 0 .. MaxChanges]
      /\ during'[r] = cache.during
      /\ pc' \in [Readers -> {"idle", "get", "count", "set", "done"}]
      /\ pc'[r] = "done" /\ partial'[r] = cache.value /\ DOMAIN partial' = Readers
      /\ \A q \in Readers : q # r => /\ pc'[q] = pc[q] /\ partial'[q] = partial[q]
                                     /\ during'[q] = during[q]
  BY <1>0 DEF IInv, TypeOK, Hit, Entries
<1>2. cache.value \in [Counted -> 0 .. MaxChanges]
  BY <1>1 DEF Entries, Values
<1>3. TypeOK'
  BY <1>1, <1>2 DEF IInv, TypeOK, Values
<1>4. PartialInv'
  BY <1>1, <1>2 DEF IInv, PartialInv, Counting, Figure
<1>5. FiguresAgree'
  <2>1. "verified" \in Counted =>
           partial'[r]["verified"] <= partial'[r]["candidates"] + during'[r]
    BY <1>1, <1>0 DEF IInv, AgreeInv
  <2>. QED BY <1>1, <2>1 DEF IInv, FiguresAgree
<1>6. "placements" \in Counted =>
        \A q \in Counting' : "placements" \in DOMAIN partial'[q] =>
           \/ partial'[q]["placements"] = Figure("placements")
           \/ stream[Placed] > 0
           \/ q \in late'
  BY <1>1 DEF IInv, FreshInv, Counting, Placed, count
<1>7. \A q \in Counting' : during'[q] <= changes
  BY <1>1 DEF IInv, BoundInv, Counting
<1>. QED BY <1>1, <1>3, <1>4, <1>5, <1>6, <1>7, ReadersOnlyRead

LEMMA CountKeeps ==
    ASSUME IInv, NEW r \in Readers, Count(r)
    PROVE  IInv'
<1>1. PICK f \in Counted \ DOMAIN partial[r] :
         /\ partial' = [partial EXCEPT ![r] =
               [g \in DOMAIN partial[r] \union {f} |-> IF g = f THEN count[f] ELSE partial[r][g]]]
         /\ pc' = [pc EXCEPT ![r] = IF AllCounted(DOMAIN partial[r] \union {f}) THEN "set" ELSE "count"]
  BY DEF Count
<1>2. UNCHANGED <<rows, stream, cache, changes, losses, late, during>> /\ pc[r] = "count"
  BY DEF Count
<1>0. \A g \in Counted : count[g] = Figure(g) /\ g \in Figures
  BY CandidatesAreCounted DEF count
<1>. DEFINE counted == DOMAIN partial[r] \union {f}
<1>3. /\ DOMAIN partial' = Readers /\ DOMAIN partial'[r] = counted /\ counted \subseteq Counted
      /\ \A g \in counted : partial'[r][g] = IF g = f THEN count[f] ELSE partial[r][g]
      /\ pc' \in [Readers -> {"idle", "get", "count", "set", "done"}]
      /\ pc'[r] \in {"count", "set"} /\ (pc'[r] = "set" => counted = Counted)
      /\ \A q \in Readers : q # r => pc'[q] = pc[q] /\ partial'[q] = partial[q]
  BY <1>1 DEF IInv, TypeOK, AllCounted
<1>4. partial'[r] = [g \in counted |-> partial'[r][g]]
  BY <1>1 DEF IInv, TypeOK
<1>5. \A g \in counted : partial'[r][g] \in 0 .. MaxChanges
  <2>1. \A g \in DOMAIN partial[r] : partial[r][g] \in 0 .. MaxChanges
    BY DEF IInv, PartialInv
  <2>2. count[f] \in 0 .. MaxChanges
    BY <1>0, FiguresAreNumbers DEF IInv
  <2>. QED BY <1>3, <2>1, <2>2
<1>6. pc'[r] = "set" => partial'[r] \in Values
  BY <1>3, <1>4, <1>5 DEF Values
<1>7. TypeOK'
  BY <1>2, <1>3, <1>6 DEF IInv, TypeOK
<1>8. Counting' = Counting /\ r \in Counting
  BY <1>2, <1>3 DEF Counting
<1>9. \A g \in counted : partial'[r][g] = IF g = f THEN Figure(f) ELSE partial[r][g]
  BY <1>0, <1>3
<1>10. PartialInv'
  <2>1. during[r] \in Nat /\ Figure("candidates") \in Nat /\ Figure("verified") \in Nat
    BY FiguresAreNumbers, CandidatesAreCounted DEF IInv, TypeOK
  <2>2. "candidates" \in counted => Figure("candidates") <= partial'[r]["candidates"] + during[r]
    BY <1>3, <1>8, <1>9, <2>1 DEF IInv, PartialInv
  <2>3. "verified" \in counted => partial'[r]["verified"] <= Figure("verified")
    BY <1>3, <1>8, <1>9, <2>1 DEF IInv, PartialInv
  <2>4. UNCHANGED <<Figure("candidates"), Figure("verified")>>
    BY <1>2 DEF Figure
  <2>. QED BY <1>2, <1>3, <1>5, <1>8, <2>2, <2>3, <2>4 DEF IInv, PartialInv
<1>11. FiguresAgree'
  BY <1>2, <1>3 DEF IInv, FiguresAgree
<1>12. "placements" \in Counted =>
        \A q \in Counting' : "placements" \in DOMAIN partial'[q] =>
           \/ partial'[q]["placements"] = Figure("placements")
           \/ stream[Placed] > 0
           \/ q \in late'
  <2>1. ASSUME "placements" \in counted, "placements" \in Counted
        PROVE  \/ partial'[r]["placements"] = Figure("placements")
               \/ stream[Placed] > 0
               \/ r \in late
    <3>1. CASE f = "placements"
      BY <1>9, <2>1, <3>1
    <3>2. CASE f # "placements"
      <4>1. /\ "placements" \in DOMAIN partial[r]
            /\ partial'[r]["placements"] = partial[r]["placements"]
        BY <1>3, <2>1, <3>2
      <4>. QED BY <1>8, <2>1, <4>1 DEF IInv, FreshInv, Placed, count
    <3>. QED BY <3>1, <3>2
  <2>2. ASSUME NEW q \in Counting, q # r, "placements" \in DOMAIN partial[q], "placements" \in Counted
        PROVE  \/ partial[q]["placements"] = Figure("placements")
               \/ stream[Placed] > 0
               \/ q \in late
    BY <2>2 DEF IInv, FreshInv, Placed, count
  <2>3. Counting \subseteq Readers
    BY DEF Counting
  <2>. QED BY <1>2, <1>3, <1>8, <2>1, <2>2, <2>3
<1>13. \A q \in Counting' : during'[q] <= changes
  BY <1>2, <1>8 DEF IInv, BoundInv
<1>. QED BY <1>2, <1>7, <1>10, <1>11, <1>12, <1>13, ReadersOnlyRead

LEMMA SetKeeps ==
    ASSUME IInv, NEW r \in Readers, Set(r)
    PROVE  IInv'
<1>1. /\ UNCHANGED <<rows, stream, partial, changes, losses, late, during>>
      /\ cache' \in {cache, Entry(r)} /\ pc[r] = "set"
      /\ pc' \in [Readers -> {"idle", "get", "count", "set", "done"}]
      /\ pc'[r] = "done"
      /\ \A q \in Readers : q # r => pc'[q] = pc[q]
  BY DEF IInv, TypeOK, Set
<1>2. partial[r] \in [Counted -> 0 .. MaxChanges] /\ r \in Counting
  BY <1>1 DEF IInv, TypeOK, Values, Counting
<1>3. Entry(r) \in Entries
  BY <1>2 DEF IInv, TypeOK, Entry, Entries, Values
<1>4. TypeOK'
  BY <1>1, <1>2, <1>3 DEF IInv, TypeOK, Values
<1>5. PartialInv'
  BY <1>1 DEF IInv, PartialInv, Counting, Figure
<1>6. "verified" \in Counted => partial[r]["verified"] <= partial[r]["candidates"] + during[r]
  <2>. SUFFICES ASSUME "verified" \in Counted
                PROVE  partial[r]["verified"] <= partial[r]["candidates"] + during[r]
    OBVIOUS
  <2>1. /\ partial[r]["verified"] <= Figure("verified")
        /\ Figure("candidates") <= partial[r]["candidates"] + during[r]
    BY <1>2, CandidatesAreCounted DEF IInv, PartialInv
  <2>2. /\ partial[r]["verified"] \in Nat /\ partial[r]["candidates"] \in Nat /\ during[r] \in Nat
        /\ Figure("verified") \in Nat /\ Figure("candidates") \in Nat
        /\ Figure("verified") <= Figure("candidates")
    BY <1>2, CandidatesAreCounted, FiguresAreNumbers DEF IInv, TypeOK
  <2>. QED BY <2>1, <2>2
<1>7. FiguresAgree'
  BY <1>1, <1>6 DEF IInv, FiguresAgree
<1>8. "placements" \in Counted =>
         \/ partial[r]["placements"] = Figure("placements")
         \/ stream[Placed] > 0
         \/ r \in late
  BY <1>2 DEF IInv, FreshInv, Placed, count
<1>9. /\ Entry(r).value = partial[r] /\ (Entry(r).late <=> r \in late)
      /\ Entry(r).during = during[r]
  BY DEF Entry
<1>10. "placements" \in Counted =>
        \A q \in Counting' : "placements" \in DOMAIN partial'[q] =>
           \/ partial'[q]["placements"] = Figure("placements")
           \/ stream[Placed] > 0
           \/ q \in late'
  BY <1>1 DEF IInv, FreshInv, Counting, Placed, count
<1>11. \A q \in Counting' : during'[q] <= changes
  BY <1>1 DEF IInv, BoundInv, Counting
<1>. QED BY <1>1, <1>4, <1>5, <1>6, <1>7, <1>8, <1>9, <1>10, <1>11, ReadersOnlyRead

LEMMA AnswerKeeps ==
    ASSUME IInv, NEW r \in Readers, Answer(r)
    PROVE  IInv'
<1>1. /\ UNCHANGED <<rows, stream, cache, changes, losses>>
      /\ late' = late \ {r} /\ during' \in [Readers -> 0 .. MaxChanges] /\ during'[r] = 0
      /\ pc' \in [Readers -> {"idle", "get", "count", "set", "done"}]
      /\ pc'[r] = "idle" /\ partial'[r] = <<>> /\ DOMAIN partial' = Readers
      /\ \A q \in Readers : q # r => /\ pc'[q] = pc[q] /\ partial'[q] = partial[q]
                                     /\ during'[q] = during[q]
  BY DashboardAssumption DEF IInv, TypeOK, Answer
<1>2. DOMAIN partial'[r] = {}
  BY <1>1
<1>3. TypeOK'
  BY <1>1, <1>2 DEF IInv, TypeOK
<1>4. PartialInv'
  BY <1>1, <1>2 DEF IInv, PartialInv, Counting, Figure
<1>5. FiguresAgree'
  BY <1>1 DEF IInv, FiguresAgree
<1>6. "placements" \in Counted =>
        \A q \in Counting' : "placements" \in DOMAIN partial'[q] =>
           \/ partial'[q]["placements"] = Figure("placements")
           \/ stream[Placed] > 0
           \/ q \in late'
  BY <1>1 DEF IInv, FreshInv, Counting, Placed, count
<1>7. \A q \in Counting' : during'[q] <= changes
  BY <1>1 DEF IInv, BoundInv, Counting
<1>. QED BY <1>1, <1>3, <1>4, <1>5, <1>6, <1>7, ReadersOnlyRead

-----------------------------------------------------------------------------
(* Dashboard: the theorems *)

LEMMA InitHolds == Init => IInv
<1>. SUFFICES ASSUME Init PROVE IInv
  OBVIOUS
<1>1. /\ MaxChanges \in Nat /\ MaxLosses \in Nat
      /\ \A f \in Figures : Figure(f) = 0
  BY DashboardAssumption, CandidatesAreCounted DEF Init, Figure
<1>2. TypeOK
  BY <1>1 DEF Init, TypeOK, Values
<1>3. BoundInv /\ PartialInv
  BY <1>1 DEF Init, BoundInv, PartialInv, Counting
<1>4. AgreeInv /\ FiguresAgree /\ FreshInv /\ PlacementsAreFresh
  BY <1>1 DEF Init, AgreeInv, FiguresAgree, FreshInv, PlacementsAreFresh, Counting, count
<1>. QED BY <1>2, <1>3, <1>4 DEF IInv

LEMMA NextKeeps == IInv /\ [Next]_vars => IInv'
<1>. SUFFICES ASSUME IInv, [Next]_vars PROVE IInv'
  OBVIOUS
<1>1. ASSUME NEW c \in Changes, Create(c) \/ Update(c) PROVE IInv'
  BY <1>1, CreateKeeps, UpdateKeeps
<1>6. CASE Verify
  BY <1>6, VerifyKeeps
<1>2. ASSUME NEW e \in EventTypes, Invalidate(e) \/ Lose(e) PROVE IInv'
  BY <1>2, EventKeeps
<1>3. CASE Expire
  BY <1>3, ExpireKeeps
<1>4. ASSUME NEW r \in Readers, Begin(r) \/ Serve(r) PROVE IInv'
  BY <1>4, StartKeeps, HitKeeps, CountKeeps, SetKeeps, AnswerKeeps DEF Serve
<1>5. CASE UNCHANGED vars
  BY <1>5 DEF vars, IInv, TypeOK, BoundInv, PartialInv, AgreeInv, FiguresAgree, FreshInv,
              PlacementsAreFresh, Counting, Figure, count
<1>. QED BY <1>1, <1>2, <1>3, <1>4, <1>5, <1>6 DEF Next

\* The inductive invariant holds in every state.
THEOREM Invariance == Spec => []IInv
<1>1. Init => IInv
  BY InitHolds
<1>2. IInv /\ [Next]_vars => IInv'
  BY NextKeeps
<1>. QED BY <1>1, <1>2, PTL DEF Spec

\* The variables stay in their types, the reader's partial figures too.
THEOREM TypeCorrect == Spec => []TypeOK
<1>1. IInv => TypeOK
  BY DEF IInv
<1>. QED BY <1>1, Invariance, PTL

\* Once the consumer group has handled the event of a placement, the cached
\* number of placements (DashboardService.get) includes it, but for a reader that
\* had counted before, and for an event that a dying consumer lost.
THEOREM PlacementsStayFresh == Spec => []PlacementsAreFresh
<1>1. IInv => PlacementsAreFresh
  BY DEF IInv
<1>. QED BY <1>1, Invariance, PTL

\* No answer of DashboardService.get counts more verified candidates than
\* candidates and those registered while it, or the entry it comes from, was counted.
THEOREM FiguresFitTogether == Spec => []FiguresAgree
<1>1. IInv => FiguresAgree
  BY DEF IInv
<1>. QED BY <1>1, Invariance, PTL

-----------------------------------------------------------------------------
(* Maintenance: the lists against the relations *)

\* The place of each table in the list of seed.ts.
Place ==
    [courseSubscription |-> 1, payout |-> 2, payment |-> 3, complaint |-> 4,
     serviceBooking |-> 5, serviceOpportunity |-> 6, serviceArea |-> 7, document |-> 8,
     evidenceFile |-> 9, evaluation |-> 10, practicalAssignment |-> 11,
     attendanceRecord |-> 12, timetable |-> 13, assessmentResult |-> 14, assessment |-> 15,
     interviewScorecard |-> 16, interview |-> 17, employmentOffer |-> 18,
     apprenticeship |-> 19, tradeRecommendation |-> 20, candidateTradeChoice |-> 21,
     counsellingSession |-> 22, refreshToken |-> 23, authSession |-> 24,
     passwordResetToken |-> 25, invitation |-> 26, auditEvent |-> 27, incomeRecord |-> 28,
     retentionFollowUp |-> 29, placement |-> 30, jobApplication |-> 31, vacancy |-> 32,
     employer |-> 33, certificate |-> 34, enrollment |-> 35, batch |-> 36,
     trainingCentre |-> 37, curriculumVersion |-> 38, course |-> 39, trade |-> 40,
     trainerProfile |-> 41, trainingPartner |-> 42, consent |-> 43, candidate |-> 44,
     user |-> 45, tenant |-> 46]

\* The turn of each table in the transaction of the cleanup.
Turn ==
    [payout |-> 1, payment |-> 2, complaint |-> 3, retentionFollowUp |-> 4,
     placement |-> 5, interviewScorecard |-> 6, employmentOffer |-> 7, interview |-> 8,
     jobApplication |-> 9, serviceBooking |-> 10, serviceOpportunity |-> 11,
     serviceArea |-> 12, assessmentResult |-> 13, evaluation |-> 14, evidenceFile |-> 15,
     attendanceRecord |-> 16, practicalAssignment |-> 17, enrollment |-> 18,
     timetable |-> 19, assessment |-> 20, certificate |-> 21, apprenticeship |-> 22,
     counsellingSession |-> 23, candidateTradeChoice |-> 24, tradeRecommendation |-> 25,
     incomeRecord |-> 26, document |-> 27, consent |-> 28, candidate |-> 29, batch |-> 30,
     trainingCentre |-> 31, trainingPartner |-> 32, trainerProfile |-> 33, vacancy |-> 34,
     employer |-> 35, courseSubscription |-> 36, curriculumVersion |-> 37, course |-> 38]

\* seed.ts empties every table, and each after all tables that refer to it.
THEOREM SeedOrder ==
    /\ DOMAIN Deletions = 1 .. 46 /\ Len(Deletions) = 46
    /\ \A i \in 1 .. 46 : Deletions[i] \in Tables
    /\ \A t \in Tables : \E i \in 1 .. 46 : Deletions[i] = t
    /\ \A i \in 1 .. 46, u \in Tables :
          Deletions[i] \in Requires[u] => \E j \in 1 .. i - 1 : Deletions[j] = u
<1>1. DOMAIN Deletions = 1 .. 46 /\ Len(Deletions) = 46
  BY DEF Deletions, Emptied
<1>2. \A i \in 1 .. 46 : Deletions[i] \in Tables /\ Place[Deletions[i]] = i
  BY DEF Deletions, Emptied, Place, Tables, Requires
<1>3. \A t \in Tables : Place[t] \in 1 .. 46 /\ Deletions[Place[t]] = t
  BY DEF Deletions, Emptied, Place, Tables, Requires
<1>4. \A u \in Tables : \A t \in Requires[u] : t \in Tables /\ Place[u] < Place[t]
  BY DEF Place, Tables, Requires
<1>5. ASSUME NEW i \in 1 .. 46, NEW u \in Tables, Deletions[i] \in Requires[u]
      PROVE  \E j \in 1 .. i - 1 : Deletions[j] = u
  <2>1. Place[u] \in 1 .. 46 /\ Place[u] < i /\ Deletions[Place[u]] = u
    BY <1>2, <1>3, <1>4, <1>5
  <2>2. Place[u] \in 1 .. i - 1
    BY <2>1
  <2>. QED BY <2>1, <2>2
<1>. QED BY <1>1, <1>2, <1>3, <1>5

\* seed.ts creates a row after those it refers to.
LEMMA CreationOrder ==
    /\ DOMAIN Creations = 1 .. 12 /\ Len(Creations) = 12
    /\ \A i \in 1 .. 12 : Creations[i] \in Tables
    /\ \A i \in 1 .. 12 : \A t \in Requires[Creations[i]] : \E j \in 1 .. i - 1 : Creations[j] = t
<1>. DEFINE step == [tenant |-> 1, user |-> 2, trade |-> 3, course |-> 4, curriculumVersion |-> 5,
                     trainingCentre |-> 6, batch |-> 7, candidate |-> 8, consent |-> 9,
                     enrollment |-> 10, employer |-> 11, vacancy |-> 12]
<1>1. DOMAIN Creations = 1 .. 12 /\ Len(Creations) = 12
  BY DEF Creations
<1>2. \A i \in 1 .. 12 : Creations[i] \in Tables /\ step[Creations[i]] = i
  BY DEF Creations, Tables, Requires
<1>3. \A t \in DOMAIN step : step[t] \in 1 .. 12 /\ Creations[step[t]] = t
  BY DEF Creations
<1>4. \A i \in 1 .. 12 : \A t \in Requires[Creations[i]] : t \in DOMAIN step /\ step[t] < i
  BY DEF Creations, Requires
<1>. HIDE DEF step
<1>5. ASSUME NEW i \in 1 .. 12, NEW t \in Requires[Creations[i]]
      PROVE  \E j \in 1 .. i - 1 : Creations[j] = t
  <2>1. step[t] \in 1 .. i - 1
    BY <1>3, <1>4
  <2>. QED BY <1>3, <1>4, <2>1
<1>. QED BY <1>1, <1>2, <1>5

\* The statements of the cleanup: one for a table, one for every table it reads,
\* and for a required reference that it follows, the referring table comes first and
\* its rows are selected through the reference or were read through it.
LEMMA CleanupOrder ==
    /\ Statements = Listed /\ DOMAIN Listed = 1 .. 38 /\ Len(Listed) = 38
    /\ \A i, j \in 1 .. 38 : Listed[i].table = Listed[j].table => i = j
    /\ \A t \in Markers \union DOMAIN Found : \E i \in 1 .. 38 : Listed[i].table = t
    /\ \A k \in 1 .. 38, u \in Tables :
          Listed[k].table \in Requires[u] /\ <<u, Listed[k].table>> \notin NotFollowed =>
              /\ Listed[k].by = {}
              /\ \E j \in 1 .. k - 1 :
                    /\ Listed[j].table = u
                    /\ \/ Listed[k].table \in Listed[j].by
                       \/ u \in DOMAIN Found /\ Listed[k].table \in Found[u] \intersect Markers
                       \/ Listed[k].table \in {"placement", "jobApplication"}
<1>1. Statements = Listed /\ DOMAIN Listed = 1 .. 38 /\ Len(Listed) = 38
  BY DEF Listed, Statements
<1>2. \A i \in 1 .. 38 : Turn[Listed[i].table] = i
  BY DEF Listed, Statement, Turn
<1>3. \A t \in DOMAIN Turn : Turn[t] \in 1 .. 38 /\ Listed[Turn[t]].table = t
  BY DEF Listed, Statement, Turn
<1>4. Markers \union DOMAIN Found \subseteq DOMAIN Turn
  BY DEF Markers, Found, Turn
<1>5. \A i \in 1 .. 38 : Listed[i].table \in DOMAIN Turn
  BY DEF Listed, Statement, Turn
<1>6. \A u \in Tables : \A t \in Requires[u] :
        t \in DOMAIN Turn /\ <<u, t>> \notin NotFollowed =>
           /\ Listed[Turn[t]].by = {}
           /\ u \in DOMAIN Turn /\ Turn[u] < Turn[t]
           /\ \/ t \in Listed[Turn[u]].by
              \/ u \in DOMAIN Found /\ t \in Found[u] \intersect Markers
              \/ t \in {"placement", "jobApplication"}
  <2>. DEFINE plain == {"placement", "interview", "jobApplication", "serviceOpportunity",
                        "serviceArea", "enrollment", "timetable", "candidate", "batch",
                        "trainingCentre", "trainingPartner", "trainerProfile", "vacancy",
                        "employer", "course"}
              following ==
                  [interviewScorecard |-> {"interview"},
                   employmentOffer |-> {"jobApplication", "candidate", "vacancy"},
                   assessmentResult |-> {"assessment", "candidate"},
                   evidenceFile |-> {"practicalAssignment", "candidate"},
                   practicalAssignment |-> {"batch", "candidate"}, assessment |-> {"batch"},
                   certificate |-> {"candidate"}, apprenticeship |-> {"candidate"},
                   counsellingSession |-> {"candidate"}, candidateTradeChoice |-> {"candidate"},
                   tradeRecommendation |-> {"candidate"}, incomeRecord |-> {"candidate"},
                   consent |-> {"candidate"}, serviceBooking |-> {"serviceOpportunity"},
                   courseSubscription |-> {"course"}, curriculumVersion |-> {"course"}]
  <2>1. \A t \in plain : t \in DOMAIN Turn /\ Listed[Turn[t]].by = {}
    BY DEF Turn, Listed, Statement
  <2>2. \A u \in Tables : \A t \in Requires[u] :
           t \in DOMAIN Turn /\ <<u, t>> \notin NotFollowed => t \in plain
    BY DEF Tables, Requires, NotFollowed, Turn
  <2>3. \A u \in Tables : \A t \in Requires[u] :
           t \in DOMAIN Turn /\ <<u, t>> \notin NotFollowed => 
           u \in DOMAIN Turn /\ Turn[u] < Turn[t]
    BY DEF Tables, Requires, NotFollowed, Turn
  <2>4. \A u \in DOMAIN following : following[u] \subseteq Listed[Turn[u]].by
    BY DEF Turn, Listed, Statement
  <2>5. \A u \in Tables : \A t \in Requires[u] :
           t \in DOMAIN Turn /\ <<u, t>> \notin NotFollowed => 
              \/ u \in DOMAIN following /\ t \in following[u]
              \/ u \in DOMAIN Found /\ t \in Found[u] \intersect Markers
              \/ t \in {"placement", "jobApplication"}
    BY DEF Tables, Requires, NotFollowed, Turn, Found, Markers
  <2>. HIDE DEF plain, following
  <2>. QED BY <2>1, <2>2, <2>3, <2>4, <2>5
<1>7. ASSUME NEW k \in 1 .. 38, NEW u \in Tables, Listed[k].table \in Requires[u],
             <<u, Listed[k].table>> \notin NotFollowed
      PROVE  /\ Listed[k].by = {}
             /\ \E j \in 1 .. k - 1 :
                    /\ Listed[j].table = u
                    /\ \/ Listed[k].table \in Listed[j].by
                       \/ u \in DOMAIN Found /\ Listed[k].table \in Found[u] \intersect Markers
                       \/ Listed[k].table \in {"placement", "jobApplication"}
  <2>1. /\ Turn[Listed[k].table] = k /\ Listed[k].table \in DOMAIN Turn
        /\ Turn[u] < k /\ Turn[u] \in 1 .. 38 /\ Listed[Turn[u]].table = u
    BY <1>2, <1>3, <1>5, <1>6, <1>7
  <2>2. Turn[u] \in 1 .. k - 1
    BY <2>1
  <2>. QED BY <1>6, <1>7, <2>1, <2>2
<1>8. \A i, j \in 1 .. 38 : Listed[i].table = Listed[j].table => i = j
  BY <1>2
<1>9. \A t \in Markers \union DOMAIN Found : \E i \in 1 .. 38 : Listed[i].table = t
  BY <1>3, <1>4
<1>. QED BY <1>1, <1>7, <1>8, <1>9

\* What one more row changes.
LEMMA WithShape ==
    ASSUME NEW r, NEW refs, db' = With(r, refs)
    PROVE  /\ DOMAIN db' = DOMAIN db \union {r} /\ \A x \in DOMAIN db : db'[x] = db[x]
           /\ r \notin DOMAIN db => db'[r] = refs
BY DEF With

\* A row with the references it needs keeps the foreign keys.
LEMMA MoreRows ==
    ASSUME NEW r \in Row, NEW refs, Consistent(db), db' = With(r, refs),
           refs \subseteq DOMAIN db, Requires[r[1]] \subseteq {to[1] : to \in refs}
    PROVE  Consistent(db)'
<1>1. /\ DOMAIN db' = DOMAIN db \union {r} /\ \A x \in DOMAIN db : db'[x] = db[x]
      /\ r \notin DOMAIN db => db'[r] = refs
  BY WithShape
<1>2. ASSUME NEW x \in DOMAIN db'
      PROVE  db'[x] \subseteq DOMAIN db' /\ Requires[x[1]] \subseteq {to[1] : to \in db'[x]}
  <2>1. CASE x \in DOMAIN db
    BY <1>1, <2>1 DEF Consistent
  <2>2. CASE x \notin DOMAIN db
    BY <1>1, <1>2, <2>2
  <2>. QED BY <2>1, <2>2
<1>. QED BY <1>1, <1>2 DEF Consistent

\* So does deleting rows nothing else requires.
LEMMA FewerRows ==
    ASSUME NEW D, Consistent(db), Blockers(db, D) = {}, db' = Without(db, D)
    PROVE  Consistent(db)'
<1>1. DOMAIN db' = DOMAIN db \ D /\ \A r \in DOMAIN db \ D : db'[r] = db[r] \ D
  BY DEF Without
<1>2. ASSUME NEW r \in DOMAIN db \ D, NEW t \in Requires[r[1]]
      PROVE  \E to \in db[r] \ D : to[1] = t
  <2>1. PICK to \in db[r] : to[1] = t
    BY <1>2 DEF Consistent
  <2>2. to \in D => <<r, to>> \in Blockers(db, D)
    BY <1>2, <2>1 DEF Blockers
  <2>. QED BY <2>1, <2>2
<1>. QED BY <1>1, <1>2 DEF Consistent

-----------------------------------------------------------------------------
(* Maintenance: the steps of the application *)

\* A row written meanwhile is recent, so it is no excuse for the scripts to miss others.
LEMMA WriteRowKeeps ==
    ASSUME MInv, NEW r \in Row, WriteRow(r)
    PROVE  MInv'
<1>1. /\ r \notin DOMAIN db /\ recent' = recent \union {r} /\ events' \subseteq events \union {r}
      /\ UNCHANGED <<handled, objects, video, uploads, abandoned, undone, script, read, excess>>
  BY DEF WriteRow, store
<1>2. PICK refs \in SUBSET {to \in DOMAIN db : to[1] \in Requires[r[1]] \union Optional[r[1]]} :
         Requires[r[1]] \subseteq {to[1] : to \in refs} /\ db' = With(r, refs)
  BY DEF WriteRow
<1>3. Consistent(db)'
  BY <1>2, MoreRows DEF MInv, WellFormed, MTypeOK
<1>4. DOMAIN db' = DOMAIN db \union {r} /\ \A x \in DOMAIN db : db'[x] = db[x]
  BY <1>2, WithShape
<1>5. MTypeOK' /\ LessonsNumbered' /\ LessonsExplained'
  BY <1>1, <1>3, <1>4 DEF MInv, WellFormed, MTypeOK, LessonsNumbered, LessonsExplained
<1>6. SeedInTurn'
  BY <1>1, <1>4 DEF MInv, WellFormed, SeedInTurn
<1>7. SeedIsSound'
  BY <1>1, <1>4 DEF MInv, WellFormed, SeedIsSound, SeedFailsOverEventsOnly, SeedLeavesPilotOnly
<1>8. CleanupReadsAll'
  <2>1. Marked \subseteq Marked'
    BY <1>4 DEF Marked
  <2>. QED BY <1>1, <1>4, <2>1 DEF MInv, WellFormed, CleanupReadsAll
<1>9. CleanupIsSound'
  BY <1>1 DEF MInv, WellFormed, CleanupIsSound, CleanupRefusedForReasons,
              CleanupSparesTheRest, RowsForIds
<1>. QED BY <1>5, <1>6, <1>7, <1>8, <1>9 DEF MInv, WellFormed

\* The lesson the course names, and the ones read and stored, are among those uploaded.
LEMMA LessonsCounted ==
    ASSUME MInv
    PROVE  /\ video \in Lessons /\ 0 \in Lessons /\ 0 \in 0 .. uploads
           /\ {video} \ {0} \subseteq Lessons \ {0}
<1>1. /\ uploads \in 0 .. MaxUploads /\ video \in 0 .. uploads /\ MaxUploads \in Nat
  BY MaintenanceAssumption DEF MInv, WellFormed, LessonsNumbered
<1>. QED BY <1>1 DEF Lessons

\* A ProcessedEvent concerns nothing but the deletion of the tenants.
LEMMA HandleKeeps ==
    ASSUME MInv, NEW r \in Row, Handle(r)
    PROVE  MInv'
<1>1. /\ handled' = handled \union {r}
      /\ UNCHANGED <<db, events, objects, video, uploads, abandoned, undone, script, read, recent,
                     excess>>
  BY DEF Handle, store, history
<1>2. MTypeOK' /\ LessonsNumbered' /\ LessonsExplained'
  BY <1>1 DEF MInv, WellFormed, MTypeOK, LessonsNumbered, LessonsExplained
<1>3. SeedInTurn' /\ SeedIsSound'
  BY <1>1 DEF MInv, WellFormed, SeedInTurn, SeedIsSound, SeedFailsOverEventsOnly,
              SeedLeavesPilotOnly
<1>4. CleanupReadsAll' /\ CleanupIsSound'
  BY <1>1 DEF MInv, WellFormed, CleanupReadsAll, CleanupIsSound, CleanupRefusedForReasons,
              CleanupSparesTheRest, RowsForIds, Marked
<1>. QED BY <1>2, <1>3, <1>4 DEF MInv, WellFormed

\* The lessons stay numbered; the new one is the course's, or it is abandoned, and
\* the one before it is deleted or abandoned.
LEMMA UploadKeeps ==
    ASSUME MInv, Upload
    PROVE  MInv'
<1>. DEFINE n == uploads + 1
<1>1. /\ uploads < MaxUploads /\ MarkedCourse \in DOMAIN db /\ uploads' = n
      /\ UNCHANGED <<db, handled, script, read, recent, excess>>
      /\ Replace(n) \/ ReplaceHalfway(n) \/ LeaveBehind(n)
  BY DEF Upload
<1>2. /\ uploads \in Nat /\ MaxUploads \in Nat /\ n \in 1 .. MaxUploads /\ n \in Lessons \ {0}
      /\ uploads' \in 0 .. MaxUploads /\ n \in 0 .. n /\ n \in 1 .. n
      /\ \A o \in 0 .. uploads : o \in 0 .. n /\ o # n
      /\ \A o \in 1 .. uploads : o \in 1 .. n
      /\ \A o \in 0 .. uploads : o \in Lessons
  BY <1>1, MaintenanceAssumption DEF MInv, WellFormed, LessonsNumbered, Lessons
<1>. HIDE DEF n
<1>3. /\ objects \subseteq 1 .. uploads /\ video \in 0 .. uploads /\ read.video \in 0 .. uploads
      /\ abandoned \subseteq Lessons \ {0} /\ objects \subseteq Lessons \ {0}
      /\ events \subseteq Row /\ DOMAIN db \subseteq Row
  BY DEF MInv, WellFormed, MTypeOK, LessonsNumbered, Consistent
<1>4. /\ objects' \subseteq objects \union {n}
      /\ abandoned' \subseteq abandoned \union {n} \union ({video} \ {0})
      /\ video' \in {video, n} /\ events' \subseteq events \union {MarkedCourse}
  BY <1>1 DEF Replace, ReplaceHalfway, LeaveBehind
<1>5. MTypeOK'
  <2>1. events' \subseteq Row
    BY <1>1, <1>3, <1>4
  <2>2. objects' \subseteq Lessons \ {0} /\ abandoned' \subseteq Lessons \ {0}
    BY <1>2, <1>3, <1>4
  <2>3. Consistent(db)' /\ handled' \subseteq Row /\ read'.rows \subseteq Row /\ read'.video \in Lessons
    BY <1>1 DEF MInv, WellFormed, MTypeOK
  <2>. QED BY <1>1, <2>1, <2>2, <2>3 DEF MInv, WellFormed, MTypeOK
<1>6. LessonsNumbered'
  <2>1. objects' \subseteq 1 .. n /\ video' \in 0 .. n /\ read.video \in 0 .. n
    BY <1>2, <1>3, <1>4
  <2>2. script.at = "objects" /\ read.video # 0 => video' # read.video
    BY <1>2, <1>3, <1>4 DEF MInv, WellFormed, LessonsNumbered
  <2>. QED BY <1>1, <1>2, <2>1, <2>2 DEF MInv, WellFormed, LessonsNumbered
<1>7. LessonsExplained'
  <2>1. /\ \A o \in objects : o \in {video} \union abandoned \/ (script.at = "objects" /\ o = read.video)
        /\ video \in objects \union undone \union {0}
        /\ \A o \in objects : o # 0
    BY <1>3 DEF MInv, WellFormed, LessonsExplained
  <2>2. CASE Replace(n)
    BY <1>1, <2>1, <2>2 DEF Replace, LessonsExplained
  <2>3. CASE ReplaceHalfway(n)
    BY <1>1, <2>1, <2>3 DEF ReplaceHalfway, LessonsExplained
  <2>4. CASE LeaveBehind(n)
    BY <1>1, <2>1, <2>4 DEF LeaveBehind, LessonsExplained
  <2>. QED BY <1>1, <2>2, <2>3, <2>4
<1>8. SeedInTurn' /\ SeedIsSound'
  BY <1>1 DEF MInv, WellFormed, SeedInTurn, SeedIsSound, SeedFailsOverEventsOnly,
              SeedLeavesPilotOnly
<1>9. CleanupReadsAll' /\ CleanupIsSound'
  BY <1>1 DEF MInv, WellFormed, CleanupReadsAll, CleanupIsSound, CleanupRefusedForReasons,
              CleanupSparesTheRest, RowsForIds, Marked
<1>. QED BY <1>5, <1>6, <1>7, <1>8, <1>9 DEF MInv, WellFormed

-----------------------------------------------------------------------------
(* Maintenance: the steps of the seed *)

\* Nothing has been emptied yet.
LEMMA StartSeedKeeps ==
    ASSUME MInv, StartSeed
    PROVE  MInv'
<1>1. /\ script' = [at |-> "delete", i |-> 1] /\ recent' = {}
      /\ UNCHANGED <<db, events, handled, objects, video, uploads, abandoned, undone, read, excess>>
      /\ script = Idle
  BY DEF StartSeed, store
<1>2. MTypeOK' /\ LessonsNumbered' /\ LessonsExplained'
  BY <1>1 DEF MInv, WellFormed, MTypeOK, LessonsNumbered, LessonsExplained, Idle
<1>3. SeedInTurn'
  BY <1>1, SeedOrder DEF SeedInTurn
<1>4. SeedIsSound' /\ CleanupReadsAll' /\ CleanupIsSound'
  BY <1>1 DEF MInv, WellFormed, SeedIsSound, SeedFailsOverEventsOnly, SeedLeavesPilotOnly,
              CleanupReadsAll, CleanupIsSound, CleanupRefusedForReasons, CleanupSparesTheRest
<1>. QED BY <1>2, <1>3, <1>4 DEF MInv, WellFormed

\* What refers to the rows of the next table was written since the seed began.
LEMMA OlderRowsAreGone ==
    ASSUME MInv, script.at = "delete", NEW link \in Blockers(db, Of(db, Deletions[script.i]))
    PROVE  link[1] \in recent
<1>1. /\ link[1] \in DOMAIN db /\ link[2][1] \in Requires[link[1][1]]
      /\ link[2] \in Of(db, Deletions[script.i])
  BY DEF Blockers
<1>2. /\ script.i \in 1 .. 46 /\ link[1][1] \in Tables
      /\ \A r \in DOMAIN db, j \in 1 .. script.i - 1 : r[1] = Deletions[j] => r \in recent
  BY <1>1, SeedOrder DEF MInv, WellFormed, MTypeOK, Consistent, SeedInTurn, Row
<1>3. Deletions[script.i] \in Requires[link[1][1]]
  BY <1>1 DEF Of
<1>4. PICK j \in 1 .. script.i - 1 : Deletions[j] = link[1][1]
  BY <1>2, <1>3, SeedOrder
<1>. QED BY <1>1, <1>2, <1>4

\* The two outcomes of a statement of the seed.
LEMMA TableByTable ==
    ASSUME MInv, DeleteTable
    PROVE  LET t == Deletions[script.i]
               links == Blockers(db, Of(db, t)) \union EventRows(t)
           IN /\ script.at = "delete" /\ script.i \in 1 .. 46
              /\ UNCHANGED <<events, handled, objects, uploads, undone, read, excess>>
              /\ \/ /\ links = {} /\ Delete(Of(db, t))
                    /\ abandoned' = IF t = "course" THEN abandoned \union ({video} \ {0})
                                  ELSE abandoned
                    /\ script' = IF script.i < 46 THEN [at |-> "delete", i |-> script.i + 1]
                                ELSE [at |-> "create", i |-> 1]
                 \/ /\ script' = [at |-> "seed failed", links |-> links]
                    /\ UNCHANGED <<db, video, recent, abandoned>>
<1>1. /\ script.at = "delete" /\ script = [at |-> "delete", i |-> script.i]
      /\ script.i \in 1 .. 46 /\ Len(Deletions) = 46
  BY SeedOrder DEF DeleteTable, MInv, WellFormed, SeedInTurn
<1>2. Following(Deletions, [at |-> "create", i |-> 1]) =
         IF script.i < 46 THEN [at |-> "delete", i |-> script.i + 1]
         ELSE [at |-> "create", i |-> 1]
  <2>1. [script EXCEPT !.i = @ + 1] = [at |-> "delete", i |-> script.i + 1]
    BY <1>1
  <2>. QED BY <1>1, <2>1 DEF Following
<1>. QED BY <1>1, <1>2 DEF DeleteTable

\* A statement that fails leaves everything as it is, but for how the script ended.
LEMMA DeleteTableFails ==
    ASSUME MInv, script.at = "delete", NEW links,
           script' = [at |-> "seed failed", links |-> links],
           \A link \in links : \/ link[1] \in recent
                               \/ link[1][1] \in {"outboxEvent", "processedEvent"},
           UNCHANGED <<db, events, handled, objects, video, uploads, abandoned, undone, read,
                       recent, excess>>
    PROVE  MInv'
<1>1. MTypeOK' /\ LessonsNumbered' /\ LessonsExplained'
  BY DEF MInv, WellFormed, MTypeOK, LessonsNumbered, LessonsExplained
<1>2. SeedInTurn' /\ SeedIsSound' /\ CleanupReadsAll' /\ CleanupIsSound'
  BY DEF MInv, WellFormed, SeedInTurn, SeedIsSound, SeedFailsOverEventsOnly, SeedLeavesPilotOnly,
         CleanupReadsAll, CleanupIsSound, CleanupRefusedForReasons, CleanupSparesTheRest
<1>. QED BY <1>1, <1>2 DEF MInv, WellFormed

\* A statement that succeeds empties its table and leaves no reference to it.
LEMMA DeleteTableKeeps ==
    ASSUME MInv, DeleteTable
    PROVE  MInv'
<1>. DEFINE t == Deletions[script.i]
            D == Of(db, t)
<1>1. /\ script.at = "delete" /\ script.i \in 1 .. 46 /\ t \in Tables
      /\ UNCHANGED <<events, handled, objects, uploads, undone, read, excess>>
  BY TableByTable, SeedOrder
<1>2. CASE UNCHANGED <<db, video, recent, abandoned>> /\
           script' = [at |-> "seed failed", links |-> Blockers(db, D) \union EventRows(t)]
  <2>1. \A link \in Blockers(db, D) : link[1] \in recent
    BY <1>1, OlderRowsAreGone
  <2>2. \A link \in EventRows(t) : link[1][1] \in {"outboxEvent", "processedEvent"}
    BY DEF EventRows
  <2>3. PICK links : /\ links = Blockers(db, D) \union EventRows(t)
                     /\ script' = [at |-> "seed failed", links |-> links]
    BY <1>2
  <2>4. \A link \in links : link[1] \in recent \/ link[1][1] \in {"outboxEvent", "processedEvent"}
    BY <2>1, <2>2, <2>3
  <2>5. script' = [at |-> "seed failed", links |-> links]
    BY <2>3
  <2>6. UNCHANGED <<db, events, handled, objects, video, uploads, abandoned, undone, read, recent,
                    excess>>
    BY <1>1, <1>2
  <2>. QED BY <1>1, <2>4, <2>5, <2>6, DeleteTableFails
<1>3. CASE /\ Blockers(db, D) = {} /\ Delete(D)
           /\ abandoned' = IF t = "course" THEN abandoned \union ({video} \ {0}) ELSE abandoned
           /\ script' = IF script.i < 46 THEN [at |-> "delete", i |-> script.i + 1]
                        ELSE [at |-> "create", i |-> 1]
  <2>1. /\ db' = Without(db, D) /\ recent' = recent \ D
        /\ DOMAIN db' = DOMAIN db \ D
        /\ video' = IF MarkedCourse \in D THEN 0 ELSE video
    BY <1>3 DEF Delete, Without
  <2>2. Consistent(db)'
    BY <1>3, <2>1, FewerRows DEF MInv, WellFormed, MTypeOK
  <2>3. /\ script'.at \in {"delete", "create"}
        /\ MarkedCourse \in DOMAIN db => (MarkedCourse \in D <=> t = "course")
    BY <1>3 DEF MarkedCourse, Of
  <2>4. LessonsNumbered'
    <3>1. 0 \in 0 .. uploads
      BY DEF MInv, WellFormed, LessonsNumbered
    <3>. QED BY <1>1, <2>1, <2>3, <3>1 DEF MInv, WellFormed, LessonsNumbered
  <2>5. MTypeOK'
    <3>1. abandoned' \subseteq Lessons \ {0}
      BY <1>3, LessonsCounted DEF MInv, WellFormed, MTypeOK
    <3>2. video' # 0 => MarkedCourse \in DOMAIN db'
      BY <2>1 DEF MInv, WellFormed, MTypeOK
    <3>. QED BY <1>1, <2>2, <2>3, <3>1, <3>2 DEF MInv, WellFormed, MTypeOK
  <2>6. LessonsExplained'
    <3>1. /\ script'.at # "objects" /\ 0 \notin objects
          /\ \A o \in objects : o \in {video} \union abandoned
          /\ video \in objects \union undone \union {0}
      BY <1>1, <2>3 DEF MInv, WellFormed, MTypeOK, LessonsExplained
    <3>2. video' = video \/ (video' = 0 /\ abandoned' = abandoned \union ({video} \ {0}))
      BY <1>3, <2>1, <2>3 DEF MInv, WellFormed, MTypeOK
    <3>3. abandoned \subseteq abandoned'
      BY <1>3
    <3>. QED BY <1>1, <3>1, <3>2, <3>3 DEF LessonsExplained
  <2>7. ASSUME NEW r \in DOMAIN db', NEW j \in 1 .. script.i, r[1] = Deletions[j]
        PROVE  r \in recent'
    <3>1. r \notin D /\ j # script.i
      BY <2>1, <2>7 DEF Of
    <3>2. j \in 1 .. script.i - 1
      BY <1>1, <3>1
    <3>. QED BY <1>1, <2>1, <2>7, <3>1, <3>2 DEF MInv, WellFormed, SeedInTurn
  <2>8. SeedInTurn'
    <3>1. CASE script.i < 46
      <4>1. script' = [at |-> "delete", i |-> script.i + 1]
        BY <1>3, <3>1
      <4>2. script'.i = script.i + 1 /\ script'.i \in 1 .. 46
        BY <1>1, <3>1, <4>1
      <4>3. ASSUME NEW j \in 1 .. script'.i - 1
            PROVE  j \in 1 .. script.i
        BY <1>1, <4>2
      <4>. QED BY <2>7, <4>1, <4>2, <4>3, SeedOrder DEF SeedInTurn
    <3>2. CASE ~ (script.i < 46)
      <4>1. script' = [at |-> "create", i |-> 1] /\ script.i = 46
        BY <1>1, <1>3, <3>2
      <4>2. \A r \in DOMAIN db' : r[1] \in Tables
        BY <2>2 DEF Consistent, Row
      <4>3. DOMAIN db' \subseteq recent'
        BY <2>7, <4>1, <4>2, SeedOrder
      <4>4. Created(1) = {}
        BY DEF Created
      <4>. QED BY <4>1, <4>3, <4>4, CreationOrder DEF SeedInTurn
    <3>. QED BY <3>1, <3>2
  <2>9. SeedIsSound' /\ CleanupReadsAll' /\ CleanupIsSound'
    BY <1>1, <2>3 DEF MInv, WellFormed, SeedIsSound, SeedFailsOverEventsOnly,
                      SeedLeavesPilotOnly, CleanupReadsAll, CleanupIsSound,
                      CleanupRefusedForReasons, CleanupSparesTheRest
  <2>. QED BY <2>4, <2>5, <2>6, <2>8, <2>9 DEF MInv, WellFormed
<1>. QED BY <1>2, <1>3, TableByTable

\* The references of a pilot row lead to one row of each table it requires.
LEMMA PilotRefsCover == \A t : Requires[t] \subseteq {to[1] : to \in PilotRefs(t)}
<1>1. ASSUME NEW t, NEW p \in Requires[t]
      PROVE  p \in {to[1] : to \in PilotRefs(t)}
  <2>1. <<p, "pilot">> \in PilotRefs(t)
    BY DEF PilotRefs
  <2>. QED BY <2>1
<1>. QED BY <1>1

\* A pilot row finds the rows it refers to.
LEMMA CreateRowKeeps ==
    ASSUME MInv, CreateRow
    PROVE  MInv'
<1>. DEFINE t == Creations[script.i]
            r == <<t, "pilot">>
<1>1. /\ script.at = "create" /\ script = [at |-> "create", i |-> script.i]
      /\ script.i \in 1 .. 12 /\ t \in Tables
      /\ db' = With(r, PilotRefs(t))
      /\ UNCHANGED <<events, handled, objects, video, uploads, abandoned, undone, read, recent, excess>>
  BY CreationOrder DEF CreateRow, MInv, WellFormed, SeedInTurn, store, history
<1>2. script' = IF script.i < 12 THEN [at |-> "create", i |-> script.i + 1] ELSE [at |-> "seeded"]
  <2>1. [script EXCEPT !.i = @ + 1] = [at |-> "create", i |-> script.i + 1]
    BY <1>1
  <2>. QED BY <1>1, <2>1, CreationOrder DEF CreateRow, Following
<1>3. DOMAIN db' = DOMAIN db \union {r}
  BY <1>1, WithShape
<1>4. Consistent(db)'
  <2>1. r \in Row
    BY <1>1 DEF Row
  <2>2. PilotRefs(t) \subseteq Created(script.i) /\ Created(script.i) \subseteq DOMAIN db
    BY <1>1, CreationOrder DEF PilotRefs, Created, MInv, WellFormed, SeedInTurn
  <2>3. r[1] = t
    OBVIOUS
  <2>. HIDE DEF r
  <2>. QED BY <1>1, <2>1, <2>2, <2>3, MoreRows, PilotRefsCover DEF MInv, WellFormed, MTypeOK
<1>5. Created(script.i + 1) = Created(script.i) \union {r}
  <2>1. \A j : j \in 1 .. (script.i + 1) - 1 <=> j \in 1 .. script.i - 1 \/ j = script.i
    BY <1>1
  <2>. QED BY <2>1 DEF Created
<1>6. /\ DOMAIN db' \ recent' \subseteq Created(script.i + 1)
      /\ Created(script.i + 1) \subseteq DOMAIN db'
  BY <1>1, <1>3, <1>5 DEF MInv, WellFormed, SeedInTurn
<1>. HIDE DEF r, t
<1>7. MTypeOK' /\ LessonsNumbered' /\ LessonsExplained'
  BY <1>1, <1>2, <1>3, <1>4 DEF MInv, WellFormed, MTypeOK, LessonsNumbered, LessonsExplained
<1>8. SeedInTurn' /\ SeedIsSound'
  <2>1. CASE script.i < 12
    <3>1. script' = [at |-> "create", i |-> script.i + 1] /\ script.i + 1 \in 1 .. 12
      BY <1>1, <1>2, <2>1
    <3>. QED BY <1>6, <3>1, CreationOrder
           DEF SeedInTurn, SeedIsSound, SeedFailsOverEventsOnly, SeedLeavesPilotOnly
  <2>2. CASE ~ (script.i < 12)
    <3>1. script' = [at |-> "seeded"] /\ script.i + 1 = 13
      BY <1>1, <1>2, <2>2
    <3>2. Created(13) = DOMAIN Pilot
      BY CreationOrder DEF Created, Pilot, Range
    <3>. QED BY <1>6, <3>1, <3>2
           DEF SeedInTurn, SeedIsSound, SeedFailsOverEventsOnly, SeedLeavesPilotOnly
  <2>. QED BY <2>1, <2>2
<1>9. CleanupReadsAll' /\ CleanupIsSound'
  BY <1>1, <1>2 DEF MInv, WellFormed, CleanupReadsAll, CleanupIsSound, CleanupRefusedForReasons,
              CleanupSparesTheRest
<1>. QED BY <1>7, <1>8, <1>9 DEF MInv, WellFormed

-----------------------------------------------------------------------------
(* Maintenance: the steps of the cleanup *)

\* The reads find the rows that refer to marked ones, but for those they came too
\* early for.
LEMMA ReadWhatIsMarked ==
    ASSUME MInv, NEW marked \in SUBSET Marked, NEW unseen, NEW R, R = RowsToRead(marked, unseen)
    PROVE  /\ R \subseteq DOMAIN db
           /\ marked \subseteq R
           /\ \A r \in R :
                 /\ r[1] \in Markers \union DOMAIN Found
                 /\ \/ r \in Marked \/ db[r] \intersect R \intersect Marked # {}
                    \/ \E to \in db[r] \intersect R : to[1] = "jobApplication"
           /\ \A r \in DOMAIN db \ unseen : r[1] \in DOMAIN Found =>
                 \A to \in db[r] \intersect R :
                     to[1] \in Found[r[1]] \intersect Markers => r \in R
<1>. DEFINE all == UNION {Referring(t, Found[t], marked) : t \in DOMAIN Found}
            found == all \ unseen
            further == Referring("interview", {"jobApplication"},
                                 Of(db, "jobApplication") \intersect found) \ unseen
<1>1. R = found \union marked \union further
  BY DEF RowsToRead
<1>2. \A r : r \in found <=> /\ r \in DOMAIN db \ unseen /\ r[1] \in DOMAIN Found
                            /\ \E to \in db[r] \intersect marked : to[1] \in Found[r[1]]
  <2>1. \A r : r \in found <=> r \notin unseen /\ \E t \in DOMAIN Found : r \in Referring(t, Found[t], marked)
    <3>1. \A r : r \in all <=> \E t \in DOMAIN Found : r \in Referring(t, Found[t], marked)
      OBVIOUS
    <3>. HIDE DEF all
    <3>. QED BY <3>1
  <2>2. \A t, r : r \in Referring(t, Found[t], marked) <=>
                   /\ r \in DOMAIN db /\ r[1] = t
                   /\ \E to \in db[r] \intersect marked : to[1] \in Found[t]
    BY DEF Referring, Of
  <2>. HIDE DEF found
  <2>. QED BY <2>1, <2>2
<1>3. \A r : r \in further => /\ r \in DOMAIN db /\ r[1] = "interview"
                             /\ \E to \in db[r] \intersect found : to[1] = "jobApplication"
  <2>. HIDE DEF found
  <2>. QED BY DEF Referring, Of
<1>4. "interview" \in DOMAIN Found /\ Markers \intersect DOMAIN Found = {}
  BY DEF Found, Markers
<1>5. marked \subseteq Marked /\ Marked \subseteq DOMAIN db /\ \A r \in Marked : r[1] \in Markers
  BY DEF Marked
<1>. HIDE DEF all, found, further
<1>6. \A r \in R : r \in DOMAIN db /\ r[1] \in Markers \union DOMAIN Found
  BY <1>1, <1>2, <1>3, <1>4, <1>5
<1>7. \A r \in R : r[1] \in Markers => r \in marked
  BY <1>1, <1>2, <1>3, <1>4
<1>8. \A r \in R : \/ r \in Marked \/ db[r] \intersect R \intersect Marked # {}
                   \/ \E to \in db[r] \intersect R : to[1] = "jobApplication"
  BY <1>1, <1>2, <1>3, <1>5
<1>9. ASSUME NEW r \in DOMAIN db \ unseen, r[1] \in DOMAIN Found, NEW to \in db[r] \intersect R,
             to[1] \in Found[r[1]] \intersect Markers
      PROVE  r \in R
  BY <1>1, <1>2, <1>7, <1>9
<1>. QED BY <1>1, <1>6, <1>8, <1>9

\* The first read begins a cleanup.
LEMMA StartCleanupKeeps ==
    ASSUME MInv, StartCleanup
    PROVE  MInv'
<1>1. /\ script = Idle /\ script' = [at |-> "read"] /\ recent' = {}
      /\ read' = [rows |-> Of(db, "course") \intersect Marked,
                  video |-> IF MarkedCourse \in DOMAIN db THEN video ELSE 0]
      /\ UNCHANGED <<db, events, handled, objects, video, uploads, abandoned, undone, excess>>
  BY DEF StartCleanup, store
<1>2. /\ read'.rows \subseteq DOMAIN db /\ read'.video \in {0, video}
      /\ \A r \in read'.rows : r \in Marked /\ r[1] = "course"
      /\ (read'.video # 0 => MarkedCourse \in DOMAIN db)
      /\ MarkedCourse \in DOMAIN db => MarkedCourse \in read'.rows
  <2>1. MarkedCourse \in DOMAIN db => MarkedCourse \in Of(db, "course") \intersect Marked
    BY MaintenanceAssumption DEF Marked, MarkedCourse, Markers, Of
  <2>. QED BY <1>1, <2>1 DEF Of
<1>3. MTypeOK'
  <2>1. DOMAIN db \subseteq Row /\ video \in Lessons /\ 0 \in Lessons
    BY LessonsCounted DEF MInv, WellFormed, MTypeOK, Consistent
  <2>. QED BY <1>1, <1>2, <2>1 DEF MInv, WellFormed, MTypeOK
<1>4. LessonsNumbered'
  <2>1. 0 \in 0 .. uploads
    BY DEF MInv, WellFormed, LessonsNumbered
  <2>. QED BY <1>1, <1>2, <2>1 DEF MInv, WellFormed, LessonsNumbered
<1>5. LessonsExplained' /\ SeedInTurn' /\ SeedIsSound' /\ CleanupIsSound'
  BY <1>1 DEF MInv, WellFormed, LessonsExplained, SeedInTurn, SeedIsSound,
              SeedFailsOverEventsOnly, SeedLeavesPilotOnly, CleanupIsSound,
              CleanupRefusedForReasons, CleanupSparesTheRest, Idle
<1>6. CleanupReadsAll'
  <2>1. Marked' = Marked
    BY <1>1 DEF Marked
  <2>. QED BY <1>1, <1>2, <2>1 DEF CleanupReadsAll
<1>. QED BY <1>3, <1>4, <1>5, <1>6 DEF MInv, WellFormed

\* The other reads: whatever was there at the first is found.
LEMMA ReadRestKeeps ==
    ASSUME MInv, ReadRest
    PROVE  MInv'
<1>1. /\ script.at = "read" /\ script' = [at |-> "clean"]
      /\ UNCHANGED <<db, events, handled, objects, video, uploads, abandoned, undone, recent, excess>>
  BY DEF ReadRest, store, history
<1>2. PICK unseen \in SUBSET recent :
         read' = [rows |-> RowsToRead(read.rows \union {r \in Marked \ unseen : r[1] # "course"},
                                      unseen),
                  video |-> read.video]
  BY DEF ReadRest
<1>. DEFINE marked == read.rows \union {r \in Marked \ unseen : r[1] # "course"}
            R == RowsToRead(marked, unseen)
<1>3. marked \in SUBSET Marked /\ read.rows \subseteq marked
  BY <1>1 DEF MInv, WellFormed, CleanupReadsAll
<1>4. read'.video = read.video /\ read'.rows = R
  BY <1>2
<1>. HIDE DEF marked
<1>5. /\ R \subseteq DOMAIN db /\ read.rows \subseteq R
      /\ \A r \in R :
            /\ r[1] \in Markers \union DOMAIN Found
            /\ \/ r \in Marked \/ db[r] \intersect R \intersect Marked # {}
               \/ \E to \in db[r] \intersect R : to[1] = "jobApplication"
      /\ \A r \in DOMAIN db \ unseen : r[1] \in DOMAIN Found =>
            \A to \in db[r] \intersect R :
                to[1] \in Found[r[1]] \intersect Markers => r \in R
  BY <1>3, ReadWhatIsMarked
<1>. HIDE DEF R
<1>6. MTypeOK'
  BY <1>1, <1>4, <1>5 DEF MInv, WellFormed, MTypeOK, Consistent
<1>7. LessonsNumbered' /\ LessonsExplained'
  BY <1>1, <1>4, <1>5 DEF MInv, WellFormed, LessonsNumbered, LessonsExplained
<1>8. SeedInTurn' /\ SeedIsSound' /\ CleanupIsSound'
  BY <1>1 DEF MInv, WellFormed, SeedInTurn, SeedIsSound, SeedFailsOverEventsOnly,
              SeedLeavesPilotOnly, CleanupIsSound, CleanupRefusedForReasons,
              CleanupSparesTheRest
<1>9. CleanupReadsAll'
  <2>1. Marked' = Marked
    BY <1>1 DEF Marked
  <2>2. DOMAIN db \ recent \subseteq DOMAIN db \ unseen
    OBVIOUS
  <2>. QED BY <1>1, <1>4, <1>5, <2>1, <2>2 DEF CleanupReadsAll
<1>. QED BY <1>6, <1>7, <1>8, <1>9 DEF MInv, WellFormed

\* What stands in the way of a statement, when the lists hold no rows for
\* identifiers, was written since the cleanup read or is not followed.
LEMMA LinksAreExplained ==
    ASSUME MInv, script.at = "clean", RowsForIds = {}, NEW k \in DOMAIN Statements,
           NEW link \in LinksAt(k)
    PROVE  link[1] \in recent \/ <<link[1][1], link[2][1]>> \in NotFollowed
<1>. DEFINE a == link[1]
            b == link[2]
            t == Listed[k].table
<1>1. k \in 1 .. 38 /\ Statements = Listed
  BY CleanupOrder
<1>2. /\ a \in DOMAIN db /\ a \notin Earlier(k) /\ a \notin Selects(Listed[k])
      /\ b \in Selects(Listed[k]) /\ b \in db[a] /\ b[1] \in Requires[a[1]]
  BY <1>1 DEF LinksAt, Blockers, Without
<1>3. \A s, r : r \in Selects(s) <=>
         /\ r \in DOMAIN db /\ r[1] = s.table
         /\ r \in read.rows \/ \E to \in db[r] \intersect read.rows : to[1] \in s.by
  BY DEF Selects, Referring, Of
<1>4. b[1] = t /\ a[1] \in Tables /\ a # b
  <2>1. a[1] \in Tables
    BY <1>2 DEF MInv, WellFormed, MTypeOK, Consistent, Row
  <2>. QED BY <1>2, <1>3, <2>1
<1>5. SUFFICES ASSUME a \notin recent, <<a[1], t>> \notin NotFollowed
               PROVE  FALSE
  BY <1>4
<1>. HIDE DEF a, b, t
<1>6. /\ Listed[k].by = {}
      /\ \E j \in 1 .. k - 1 :
            /\ Listed[j].table = a[1]
            /\ \/ t \in Listed[j].by
               \/ a[1] \in DOMAIN Found /\ t \in Found[a[1]] \intersect Markers
               \/ t \in {"placement", "jobApplication"}
  <2>1. t \in Requires[a[1]]
    BY <1>2, <1>4
  <2>2. \A u \in Tables :
           Listed[k].table \in Requires[u] /\ <<u, Listed[k].table>> \notin NotFollowed =>
              /\ Listed[k].by = {}
              /\ \E j \in 1 .. k - 1 :
                    /\ Listed[j].table = u
                    /\ \/ Listed[k].table \in Listed[j].by
                       \/ u \in DOMAIN Found /\ Listed[k].table \in Found[u] \intersect Markers
                       \/ Listed[k].table \in {"placement", "jobApplication"}
    BY <1>1, CleanupOrder
  <2>3. t = Listed[k].table
    BY DEF t
  <2>. QED BY <1>4, <1>5, <2>1, <2>2, <2>3
<1>7. b \in read.rows
  BY <1>2, <1>3, <1>6
<1>8. t \notin {"placement", "jobApplication"}
  BY <1>4, <1>7 DEF RowsForIds
<1>9. PICK j \in 1 .. k - 1 :
         /\ Listed[j].table = a[1]
         /\ t \in Listed[j].by \/ (a[1] \in DOMAIN Found /\ t \in Found[a[1]] \intersect Markers)
  BY <1>6, <1>8
<1>10. a \in Selects(Listed[j])
  <2>1. CASE t \in Listed[j].by
    BY <1>2, <1>3, <1>4, <1>7, <1>9, <2>1
  <2>2. CASE a[1] \in DOMAIN Found /\ t \in Found[a[1]] \intersect Markers
    <3>1. a \in read.rows
      BY <1>2, <1>4, <1>5, <1>7, <2>2 DEF MInv, WellFormed, CleanupReadsAll
    <3>. QED BY <1>2, <1>3, <1>9, <3>1
  <2>. QED BY <1>9, <2>1, <2>2
<1>11. a \in Earlier(k)
  BY <1>1, <1>9, <1>10 DEF Earlier
<1>. QED BY <1>2, <1>11

\* A transaction that is rolled back has its reasons.
LEMMA RefuseKeeps ==
    ASSUME MInv, Refuse
    PROVE  MInv'
<1>1. /\ script.at = "clean"
      /\ UNCHANGED <<db, events, handled, objects, video, uploads, abandoned, undone, read, recent,
                     excess>>
  BY DEF Refuse, store, history
<1>2. PICK links : /\ script' = [at |-> "cleanup failed", links |-> links]
                   /\ \/ RowsForIds # {}
                      \/ \A link \in links : \/ link[1] \in recent
                                              \/ <<link[1][1], link[2][1]>> \in NotFollowed
  <2>1. CASE RowsForIds # {}
    BY <2>1 DEF Refuse
  <2>2. CASE RowsForIds = {}
    <3>1. PICK k \in Failing : script' = [at |-> "cleanup failed", links |-> LinksAt(k)]
      BY <2>2 DEF Refuse
    <3>2. k \in DOMAIN Statements
      BY DEF Failing
    <3>3. \A link \in LinksAt(k) : \/ link[1] \in recent
                                   \/ <<link[1][1], link[2][1]>> \in NotFollowed
      BY <1>1, <2>2, <3>2, LinksAreExplained
    <3>. QED BY <3>1, <3>3
  <2>. QED BY <2>1, <2>2
<1>3. MTypeOK' /\ LessonsNumbered' /\ LessonsExplained'
  BY <1>1, <1>2 DEF MInv, WellFormed, MTypeOK, LessonsNumbered, LessonsExplained
<1>4. RowsForIds' = RowsForIds
  BY <1>1 DEF RowsForIds
<1>5. SeedInTurn' /\ SeedIsSound' /\ CleanupReadsAll' /\ CleanupIsSound'
  BY <1>1, <1>2, <1>4 DEF MInv, WellFormed, SeedInTurn, SeedIsSound, SeedFailsOverEventsOnly,
     SeedLeavesPilotOnly, CleanupReadsAll, CleanupIsSound, CleanupRefusedForReasons,
     CleanupSparesTheRest
<1>. QED BY <1>3, <1>5 DEF MInv, WellFormed

\* What the transaction deletes.
LEMMA TransactionRows ==
    /\ \A r : r \in Transaction <=> \E k \in 1 .. 38 : r \in Selects(Listed[k])
    /\ \A k, r : r \in Selects(Listed[k]) <=>
          /\ r \in DOMAIN db /\ r[1] = Listed[k].table
          /\ r \in read.rows \/ \E to \in db[r] \intersect read.rows : to[1] \in Listed[k].by
<1>1. \A r : r \in Transaction <=> \E k \in 1 .. 38 : r \in Selects(Listed[k])
  <2>1. Statements = Listed /\ DOMAIN Listed = 1 .. 38
    BY CleanupOrder
  <2>2. Transaction = UNION {Selects(Listed[k]) : k \in 1 .. 38}
    BY <2>1 DEF Transaction
  <2>. QED BY <2>2
<1>2. \A k, r : r \in Selects(Listed[k]) <=>
          /\ r \in DOMAIN db /\ r[1] = Listed[k].table
          /\ r \in read.rows \/ \E to \in db[r] \intersect read.rows : to[1] \in Listed[k].by
  BY DEF Selects, Referring, Of
<1>. QED BY <1>1, <1>2

\* Statements none of which fails leave no reference to a row they delete: each
\* table has one statement, so its rows are all there when their turn comes.
LEMMA NothingIsLeftHanging ==
    ASSUME Failing = {}
    PROVE  Blockers(db, Transaction) = {}
<1>1. SUFFICES ASSUME NEW link \in Blockers(db, Transaction)
               PROVE  FALSE
  OBVIOUS
<1>. DEFINE a == link[1]
            b == link[2]
<1>0. /\ Statements = Listed /\ DOMAIN Listed = 1 .. 38
      /\ \A i, j \in 1 .. 38 : Listed[i].table = Listed[j].table => i = j
  BY CleanupOrder
<1>2. /\ link \in (DOMAIN db \ Transaction) \X Transaction
      /\ a \in DOMAIN db /\ a \notin Transaction /\ b \in Transaction
      /\ b \in db[a] /\ b[1] \in Requires[a[1]]
  BY <1>1 DEF Blockers
<1>3. PICK k \in 1 .. 38 : b \in Selects(Listed[k])
  BY <1>2, TransactionRows
<1>4. a \notin Selects(Listed[k]) /\ a \notin Earlier(k)
  <2>1. \A j \in 1 .. 38 : a \notin Selects(Listed[j])
    BY <1>2, TransactionRows
  <2>2. \A j \in 1 .. k - 1 : j \in 1 .. 38
    OBVIOUS
  <2>. QED BY <1>0, <2>1, <2>2 DEF Earlier
<1>5. b \notin Earlier(k)
  <2>1. \A j \in 1 .. k - 1 : j \in 1 .. 38 /\ j # k
    OBVIOUS
  <2>2. \A j \in 1 .. k - 1 : b \notin Selects(Listed[j])
    <3>1. \A j \in 1 .. 38 : b \in Selects(Listed[j]) => b[1] = Listed[j].table
      BY TransactionRows
    <3>. QED BY <1>0, <1>3, <2>1, <3>1
  <2>. QED BY <1>0, <2>2 DEF Earlier
<1>6. link \in LinksAt(k)
  <2>1. a \in DOMAIN Without(db, Earlier(k)) /\ b \in Without(db, Earlier(k))[a]
    BY <1>2, <1>4, <1>5 DEF Without
  <2>2. link \in (DOMAIN Without(db, Earlier(k)) \ Selects(Listed[k])) \X Selects(Listed[k])
    BY <1>2, <1>3, <1>4, <2>1
  <2>. QED BY <1>0, <1>2, <2>1, <2>2 DEF LinksAt, Blockers
<1>. QED BY <1>0, <1>6 DEF Failing

\* Every row of the transaction is marked, or refers to one that is, or to one
\* that refers to one that is.
LEMMA OnlyWhatHangs ==
    ASSUME MInv, script.at = "clean", RowsForIds = {}
    PROVE  Transaction \subseteq Hanging(Transaction) /\ read.rows \subseteq Transaction
<1>. DEFINE D == Transaction
            Reach(R) == R \union {r \in D : db[r] \intersect R # {}}
            near == Reach(D \intersect Marked)
<1>1. /\ \A r \in read.rows : r \in DOMAIN db /\ r[1] \in Markers \union DOMAIN Found
      /\ \A r \in read.rows : r \in Marked \/ db[r] \intersect read.rows \intersect Marked # {}
  <2>1. \A r \in read.rows : \A to \in db[r] \intersect read.rows : to[1] # "jobApplication"
    BY DEF RowsForIds
  <2>. QED BY <2>1 DEF MInv, WellFormed, CleanupReadsAll
<1>2. read.rows \subseteq D
  <2>1. \A t \in Markers \union DOMAIN Found : \E i \in 1 .. 38 : Listed[i].table = t
    BY CleanupOrder
  <2>2. ASSUME NEW r \in read.rows
        PROVE  r \in D
    <3>1. r \in DOMAIN db /\ r[1] \in Markers \union DOMAIN Found
      BY <1>1
    <3>2. PICK i \in 1 .. 38 : Listed[i].table = r[1]
      BY <2>1, <3>1
    <3>3. r \in Selects(Listed[i])
      BY <3>1, <3>2, TransactionRows
    <3>. QED BY <3>3, TransactionRows
  <2>. QED BY <2>2
<1>3. read.rows \subseteq near
  BY <1>1, <1>2
<1>4. D \subseteq Reach(near)
  <2>. HIDE DEF near
  <2>1. \A r \in D : r \in read.rows \/ db[r] \intersect read.rows # {}
    BY TransactionRows
  <2>. QED BY <1>3, <2>1
<1>5. \A R : R \subseteq Reach(R)
  OBVIOUS
<1>6. Hanging(D) = Reach(Reach(Reach(near)))
  BY DEF Hanging
<1>. HIDE DEF Reach, near, D
<1>7. D \subseteq Hanging(D)
  BY <1>4, <1>5, <1>6
<1>. QED BY <1>2, <1>7 DEF D

\* The commit takes what hangs on marked rows, and no reference to it stays.
LEMMA CommitKeeps ==
    ASSUME MInv, Commit
    PROVE  MInv'
<1>. DEFINE D == Transaction
<1>1. /\ script.at = "clean" /\ RowsForIds = {} /\ Failing = {}
      /\ script' = [at |-> "objects"] /\ db' = Without(db, D) /\ DOMAIN db' = DOMAIN db \ D
      /\ video' = IF MarkedCourse \in D THEN 0 ELSE video
      /\ events' = events \ read.rows
      /\ excess' = excess \union (D \ Hanging(D))
      /\ abandoned' = abandoned \union
            (IF MarkedCourse \in D THEN {video} \ {0, read.video} ELSE {})
      /\ UNCHANGED <<handled, objects, uploads, undone, read>>
  BY DEF Commit, Delete, Without
<1>2. Blockers(db, D) = {} /\ D \subseteq Hanging(D) /\ read.rows \subseteq D
  BY <1>1, NothingIsLeftHanging, OnlyWhatHangs
<1>. HIDE DEF D
<1>3. Consistent(db)'
  BY <1>1, <1>2, FewerRows DEF MInv, WellFormed, MTypeOK
<1>4. MTypeOK'
  <2>1. abandoned' \subseteq Lessons \ {0}
    BY <1>1, LessonsCounted DEF MInv, WellFormed, MTypeOK
  <2>2. video' # 0 => MarkedCourse \in DOMAIN db'
    BY <1>1 DEF MInv, WellFormed, MTypeOK
  <2>3. events' \subseteq Row /\ handled' \subseteq Row
    BY <1>1 DEF MInv, WellFormed, MTypeOK
  <2>. QED BY <1>1, <1>3, <2>1, <2>2, <2>3 DEF MInv, WellFormed, MTypeOK
<1>5. LessonsNumbered'
  <2>1. 0 \in 0 .. uploads
    BY DEF MInv, WellFormed, LessonsNumbered
  <2>2. read.video # 0 => video' = 0
    BY <1>1, <1>2 DEF MInv, WellFormed, LessonsNumbered
  <2>. QED BY <1>1, <2>1, <2>2 DEF MInv, WellFormed, LessonsNumbered
<1>6. LessonsExplained'
  BY <1>1 DEF MInv, WellFormed, MTypeOK, LessonsExplained
<1>7. SeedInTurn' /\ SeedIsSound' /\ CleanupReadsAll' /\ CleanupIsSound'
  BY <1>1, <1>2 DEF MInv, WellFormed, SeedInTurn, SeedIsSound, SeedFailsOverEventsOnly,
                    SeedLeavesPilotOnly, CleanupReadsAll, CleanupIsSound,
                    CleanupRefusedForReasons, CleanupSparesTheRest
<1>. QED BY <1>4, <1>5, <1>6, <1>7 DEF MInv, WellFormed

\* The lesson read is not the one the course names by now.
LEMMA DeleteLessonKeeps ==
    ASSUME MInv, DeleteLesson
    PROVE  MInv'
<1>1. /\ script.at = "objects" /\ script' = [at |-> "cleaned"]
      /\ objects' = objects \ ({read.video} \ {0})
      /\ UNCHANGED <<db, events, handled, video, uploads, abandoned, undone, read, recent, excess>>
  BY DEF DeleteLesson, LessonRead, history
<1>2. MTypeOK'
  BY <1>1 DEF MInv, WellFormed, MTypeOK, LessonsNumbered
<1>3. LessonsNumbered' /\ LessonsExplained'
  BY <1>1 DEF MInv, WellFormed, MTypeOK, LessonsNumbered, LessonsExplained
<1>4. SeedInTurn' /\ SeedIsSound' /\ CleanupReadsAll' /\ CleanupIsSound'
  BY <1>1 DEF MInv, WellFormed, SeedInTurn, SeedIsSound, SeedFailsOverEventsOnly,
              SeedLeavesPilotOnly, CleanupReadsAll, CleanupIsSound, CleanupRefusedForReasons,
              CleanupSparesTheRest
<1>. QED BY <1>2, <1>3, <1>4 DEF MInv, WellFormed

-----------------------------------------------------------------------------
(* Maintenance: the ends of a script, and the theorems *)

\* A script that died or was dismissed leaves a lesson behind only in abandoned.
LEMMA EndKeeps ==
    ASSUME MInv, Crash \/ Dismiss
    PROVE  MInv'
<1>1. /\ script' = Idle /\ read' = NothingRead
      /\ UNCHANGED <<db, events, handled, objects, video, uploads, undone, recent, excess>>
      /\ abandoned' = IF script.at = "objects" THEN abandoned \union ({read.video} \ {0})
                      ELSE abandoned
  BY DEF Crash, Dismiss, store, history
<1>2. script'.at = "idle" /\ read'.rows = {} /\ read'.video = 0
  BY <1>1 DEF Idle, NothingRead
<1>3. 0 \in Lessons /\ 0 \in 0 .. uploads
  BY MaintenanceAssumption DEF MInv, WellFormed, LessonsNumbered, Lessons
<1>4. abandoned' \subseteq Lessons \ {0}
  BY <1>1 DEF MInv, WellFormed, MTypeOK
<1>5. MTypeOK' /\ LessonsNumbered'
  BY <1>1, <1>2, <1>3, <1>4 DEF MInv, WellFormed, MTypeOK, LessonsNumbered
<1>6. LessonsExplained'
  BY <1>1, <1>2 DEF MInv, WellFormed, MTypeOK, LessonsExplained
<1>7. SeedInTurn' /\ SeedIsSound' /\ CleanupReadsAll' /\ CleanupIsSound'
  BY <1>1, <1>2 DEF MInv, WellFormed, SeedInTurn, SeedIsSound, SeedFailsOverEventsOnly,
                    SeedLeavesPilotOnly, CleanupReadsAll, CleanupIsSound,
                    CleanupRefusedForReasons, CleanupSparesTheRest
<1>. QED BY <1>5, <1>6, <1>7 DEF MInv, WellFormed

\* The databases to start from.
LEMMA MInvInit == MInit => MInv
<1>1. SUFFICES ASSUME MInit
               PROVE  MInv
  OBVIOUS
<1>3. Consistent(db)
  BY <1>1, MaintenanceAssumption DEF MInit
<1>4. /\ events = {} /\ handled = {} /\ objects = {} /\ video = 0 /\ uploads = 0 /\ abandoned = {} /\ undone = {}
      /\ script.at = "idle" /\ read.rows = {} /\ read.video = 0 /\ recent = {} /\ excess = {}
  BY <1>1 DEF MInit, Idle, NothingRead
<1>5. 0 \in Lessons /\ uploads \in 0 .. MaxUploads /\ 0 \in 0 .. uploads
  BY <1>4, MaintenanceAssumption DEF Lessons
<1>6. MTypeOK /\ LessonsNumbered /\ LessonsExplained
  BY <1>3, <1>4, <1>5 DEF MTypeOK, LessonsNumbered, LessonsExplained
<1>7. SeedInTurn /\ SeedIsSound /\ CleanupReadsAll /\ CleanupIsSound
  BY <1>4 DEF SeedInTurn, SeedIsSound, SeedFailsOverEventsOnly, SeedLeavesPilotOnly,
     CleanupReadsAll, CleanupIsSound, CleanupRefusedForReasons, CleanupSparesTheRest
<1>. QED BY <1>6, <1>7 DEF MInv, WellFormed

\* Every step keeps the invariant.
LEMMA MInvStep == MInv /\ [MNext]_mvars => MInv'
<1>1. SUFFICES ASSUME MInv, [MNext]_mvars
               PROVE  MInv'
  OBVIOUS
<1>2. ASSUME NEW r \in Row, WriteRow(r) \/ Handle(r)
      PROVE  MInv'
  BY <1>1, <1>2, WriteRowKeeps, HandleKeeps
<1>3. CASE Upload
  BY <1>1, <1>3, UploadKeeps
<1>4. CASE StartSeed \/ DeleteTable \/ CreateRow
  BY <1>1, <1>4, StartSeedKeeps, DeleteTableKeeps, CreateRowKeeps
<1>5. CASE StartCleanup \/ ReadRest \/ Refuse \/ Commit \/ DeleteLesson
  BY <1>1, <1>5, StartCleanupKeeps, ReadRestKeeps, RefuseKeeps, CommitKeeps, DeleteLessonKeeps
<1>6. CASE Crash \/ Dismiss
  BY <1>1, <1>6, EndKeeps
<1>7. CASE UNCHANGED mvars
  <2>1. UNCHANGED <<db, events, handled, objects, video, uploads, abandoned, undone, script, read,
                    recent, excess>>
    BY <1>7 DEF mvars, store, history
  <2>2. MTypeOK' /\ LessonsNumbered' /\ LessonsExplained'
    BY <1>1, <2>1 DEF MInv, WellFormed, MTypeOK, LessonsNumbered, LessonsExplained
  <2>3. SeedInTurn' /\ SeedIsSound'
    BY <1>1, <2>1 DEF MInv, WellFormed, SeedInTurn, SeedIsSound, SeedFailsOverEventsOnly,
                      SeedLeavesPilotOnly
  <2>4. CleanupReadsAll' /\ CleanupIsSound'
    BY <1>1, <2>1 DEF MInv, WellFormed, CleanupReadsAll, CleanupIsSound,
                      CleanupRefusedForReasons, CleanupSparesTheRest, RowsForIds, Marked
  <2>. QED BY <2>2, <2>3, <2>4 DEF MInv, WellFormed
<1>. QED BY <1>1, <1>2, <1>3, <1>4, <1>5, <1>6, <1>7 DEF MNext

\* In every state each variable has its type, the scripts are where their lists say,
\* and neither fails without a cause nor takes what it should leave (seed.ts,
\* cleanup-generated-test-data.mjs).
THEOREM MaintenanceInvariance == MSpec => []MInv
BY MInvInit, MInvStep, PTL DEF MSpec

\* Whatever the scripts delete, in whatever order, and wherever they die: no row refers
\* to one that is gone, and each has the rows it requires.
THEOREM ForeignKeysHold == MSpec => []Consistent(db)
<1>1. MInv => Consistent(db)
  BY DEF MInv, WellFormed, MTypeOK
<1>. QED BY <1>1, MaintenanceInvariance, PTL

\* Wherever the scripts stop and whatever uploads meet, no script takes the lesson a
\* course still names: it is in the object store unless its own upload deleted it.
THEOREM NamedLessonIsStored ==
    MSpec => [](video # 0 => MarkedCourse \in DOMAIN db /\ video \in objects \union undone)
<1>1. MInv => (video # 0 => MarkedCourse \in DOMAIN db /\ video \in objects \union undone)
  BY DEF MInv, WellFormed, MTypeOK, LessonsExplained
<1>. QED BY <1>1, MaintenanceInvariance, PTL

\* Types, foreign keys and lessons: every lesson in the store is the course's, about
\* to be deleted, or left by a script for a known reason.
THEOREM MaintenanceWellFormed == MSpec => []WellFormed
<1>1. MInv => WellFormed
  BY DEF MInv
<1>. QED BY <1>1, MaintenanceInvariance, PTL

\* seed.ts fails only over rows written since it began or over the events it never
\* deletes; when it is done there are its rows and none older.
THEOREM SeedFailsForCause == MSpec => []SeedIsSound
<1>1. MInv => SeedIsSound
  BY DEF MInv
<1>. QED BY <1>1, MaintenanceInvariance, PTL

\* The cleanup is refused only over rows written since it read, references it does not
\* follow, or its two lists of rows; it deletes no row that hangs on no marked one.
THEOREM CleanupFailsForCause == MSpec => []CleanupIsSound
<1>1. MInv => CleanupIsSound
  BY DEF MInv
<1>. QED BY <1>1, MaintenanceInvariance, PTL
=============================================================================
