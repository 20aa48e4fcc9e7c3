------------------------ MODULE EventConsumerProofs ------------------------
(***************************************************************************)
(* TLAPS proofs of the safety properties of EventConsumer, for any events, *)
(* any instances and any bounds.                                           *)
(***************************************************************************)
EXTENDS EventConsumer, TLAPS

\* The steps of one instance (stream.adapters.ts, event-consumer.service.ts).
Step(i) == Assign(i) \/ CommitOffset(i) \/ Process(i) \/ Crash(i) \/ Restart(i)

-----------------------------------------------------------------------------
(* Frame facts: what a step leaves as it was. *)

\* A message in hand is a message of the log, so it carries an event.
LEMMA CurrentEvent ==
  ASSUME TypeOK, BusyInv, NEW i \in Instances, Busy(i)
  PROVE  Current(i) \in Events
BY DEF TypeOK, BusyInv, Current

\* The log only grows.
LEMMA LogGrows ==
  ASSUME TypeOK, [Next]_vars
  PROVE  /\ log' \in Seq(Events) /\ Len(log') \in Nat /\ Len(log) <= Len(log')
         /\ \A p \in 1 .. Len(log) : log'[p] = log[p]
<1> USE DEF streamVars
<1>1. log \in Seq(Events)
  BY DEF TypeOK
<1>2. ASSUME NEW e \in Events, log' = Append(log, e)
      PROVE  /\ log' \in Seq(Events) /\ Len(log') \in Nat /\ Len(log) <= Len(log')
             /\ \A p \in 1 .. Len(log) : log'[p] = log[p]
  BY <1>1, <1>2
<1>3. (\E e \in Events : log' = Append(log, e)) \/ log' = log
  BY DEF Next, vars, Publish, Subscribe, Assign, CommitOffset, Process, Receive, InsertReceipt,
         SkipDuplicate, InsertFails, Handle, HandleFails, DeleteReceipt, DeleteFails, Crash,
         Restart
<1> QED BY <1>1, <1>2, <1>3

\* A message in hand stays the same message.
LEMMA CurrentKept ==
  ASSUME TypeOK, BusyInv, [Next]_vars, NEW i \in Instances, Busy(i), pos'[i] = pos[i]
  PROVE  Current(i)' = Current(i)
<1>1. pos[i] \in 1 .. Len(log)
  BY DEF TypeOK, BusyInv
<1> QED BY <1>1, LogGrows DEF Current

\* An instance's step leaves the other instances where they are.
LEMMA OthersKept ==
  ASSUME TypeOK, NEW i \in Instances, Step(i), NEW j \in Instances, j # i
  PROVE  pc'[j] = pc[j] /\ pos'[j] = pos[j]
<1> USE DEF TypeOK, localVars, Goto, Throw
<1>1. CASE Assign(i) \/ CommitOffset(i) \/ Crash(i) \/ Restart(i)
  BY <1>1 DEF Assign, CommitOffset, Crash, Restart
<1>2. CASE Receive(i) \/ InsertReceipt(i) \/ SkipDuplicate(i) \/ Handle(i) \/ HandleFails(i)
  BY <1>2 DEF Receive, InsertReceipt, SkipDuplicate, Handle, HandleFails
<1>3. CASE InsertFails(i) \/ DeleteReceipt(i) \/ DeleteFails(i)
  BY <1>3 DEF InsertFails, DeleteReceipt, DeleteFails
<1> QED BY <1>1, <1>2, <1>3 DEF Step, Process

\* A throw sends its instance back to idle, one message earlier.
LEMMA ThrowFacts ==
  ASSUME TypeOK, BusyInv, NEW i \in Instances, Busy(i), Throw(i)
  PROVE  /\ pc' \in [Instances -> Steps] /\ pc'[i] = "idle"
         /\ pos' \in [Instances -> 0 .. Len(log)] /\ pos'[i] = pos[i] - 1
BY DEF TypeOK, BusyInv, Throw, Goto, Steps

-----------------------------------------------------------------------------
(* Type correctness. *)

\* Counting up keeps a family of counters.
LEMMA CounterType ==
  ASSUME NEW f \in [Events -> Nat], NEW e \in Events, NEW g, g = [f EXCEPT ![e] = @ + 1] \/ g = f
  PROVE  g \in [Events -> Nat]
OBVIOUS

\* Types are kept: offsets and positions stay on the log.
LEMMA TypeStep ==
  ASSUME TypeOK, BusyInv, [Next]_vars
  PROVE  TypeOK' /\ BusyInv'
<1> USE DEF streamVars, localVars, dbVars, historyVars
<1>1. ASSUME NEW e \in Events, Publish(e) PROVE TypeOK' /\ BusyInv'
  <2>1. log' \in Seq(Events) /\ Len(log') = Len(log) + 1
    BY <1>1 DEF Publish, TypeOK
  <2> QED BY <1>1, <2>1 DEF Publish, TypeOK, BusyInv, Busy
<1>2. CASE Subscribe
  BY <1>2 DEF Subscribe, TypeOK, BusyInv, Busy
<1>3. ASSUME NEW i \in Instances, Step(i) PROVE TypeOK' /\ BusyInv'
  <2>1. Busy(i) => Current(i) \in Events
    BY CurrentEvent
  <2> USE DEF Busy, Steps
  <2>2. CASE Assign(i)
    <3>1. \A j \in Instances : j \in {k \in Instances : Busy(k)} => Current(j) \in Events
      BY CurrentEvent
    <3>2. interrupted' \subseteq Events
      BY <2>2, <3>1 DEF Assign, TypeOK
    <3> QED BY <2>2, <3>2 DEF Assign, TypeOK, BusyInv
  <2>3. CASE CommitOffset(i)
    BY <2>3 DEF CommitOffset, TypeOK, BusyInv
  <2>4. CASE Receive(i)
    BY <2>4 DEF Receive, Goto, TypeOK, BusyInv
  <2>5. CASE InsertReceipt(i)
    BY <2>1, <2>5 DEF InsertReceipt, Goto, TypeOK, BusyInv
  <2>6. CASE SkipDuplicate(i)
    BY <2>6 DEF SkipDuplicate, Goto, TypeOK, BusyInv
  <2>7. CASE InsertFails(i)
    <3>1. /\ receipts' \subseteq Events /\ interrupted' \subseteq Events
          /\ failures' \in [Events -> Nat]
      BY <2>1, <2>7 DEF InsertFails, Failed, TypeOK
    <3>2. Throw(i)
      BY <2>7 DEF InsertFails
    <3> QED BY <2>7, <3>1, <3>2, ThrowFacts, OthersKept DEF InsertFails, TypeOK, BusyInv, Step, Process
  <2>8. CASE Handle(i)
    <3>1. effects' \in [Events -> Nat]
      BY <2>1, <2>8 DEF Handle, TypeOK
    <3> QED BY <2>8, <3>1 DEF Handle, Goto, TypeOK, BusyInv
  <2>9. CASE HandleFails(i)
    <3>1. PICK e \in Events : e = Current(i)
      BY <2>1, <2>9 DEF HandleFails
    <3>2. /\ failures' = [failures EXCEPT ![e] = @ + 1]
          /\ effects' = [effects EXCEPT ![e] = @ + 1] \/ effects' = effects
          /\ failedEffects' = [failedEffects EXCEPT ![e] = @ + 1] \/ failedEffects' = failedEffects
      BY <2>9, <3>1 DEF HandleFails, Failed
    <3>3. effects' \in [Events -> Nat]
      BY <3>1, <3>2, CounterType DEF TypeOK
    <3>4. failedEffects' \in [Events -> Nat]
      BY <3>1, <3>2, CounterType DEF TypeOK
    <3>5. failures' \in [Events -> Nat]
      BY <3>1, <3>2, CounterType DEF TypeOK
    <3> QED BY <2>9, <3>3, <3>4, <3>5 DEF HandleFails, Goto, TypeOK, BusyInv
  <2>10. CASE DeleteReceipt(i)
    <3>1. receipts' \subseteq Events /\ Throw(i)
      BY <2>10 DEF DeleteReceipt, TypeOK
    <3> QED BY <2>10, <3>1, ThrowFacts, OthersKept DEF DeleteReceipt, TypeOK, BusyInv, Step, Process
  <2>11. CASE DeleteFails(i)
    <3>1. receipts' \subseteq Events /\ interrupted' \subseteq Events /\ Throw(i)
      BY <2>1, <2>11 DEF DeleteFails, TypeOK
    <3> QED BY <2>11, <3>1, ThrowFacts, OthersKept DEF DeleteFails, TypeOK, BusyInv, Step, Process
  <2>12. CASE Crash(i)
    BY <2>1, <2>12 DEF Crash, Goto, TypeOK, BusyInv
  <2>13. CASE Restart(i)
    BY <2>13 DEF Restart, Goto, TypeOK, BusyInv
  <2> QED BY <1>3, <2>2, <2>3, <2>4, <2>5, <2>6, <2>7, <2>8, <2>9, <2>10, <2>11, <2>12, <2>13
          DEF Step, Process
<1>4. CASE UNCHANGED vars
  BY <1>4 DEF vars, TypeOK, BusyInv, Busy
<1> QED BY <1>1, <1>2, <1>3, <1>4 DEF Next, Step

-----------------------------------------------------------------------------
(* The receipt as a lock, and what it says of the effects. *)

LockInv == HolderInv /\ OneHandlerAtATime /\ EffectInv /\ RepeatsAccounted

\* Steps that touch neither receipts nor effects, and bring nobody into a
\* handler, keep the lock.
LEMMA LockQuiet ==
  ASSUME IInv,
         receipts' = receipts, effects' = effects, failedEffects' = failedEffects,
         \A i \in Instances : Holds(i)' => Holds(i) /\ Current(i)' = Current(i)
  PROVE  LockInv'
BY DEF IInv, LockInv, HolderInv, OneHandlerAtATime, EffectInv, RepeatsAccounted

\* The other instances hold what they held.
LEMMA HoldersKept ==
  ASSUME IInv, [Next]_vars, NEW i \in Instances, Step(i), NEW j \in Instances, j # i
  PROVE  /\ Holds(j)' <=> Holds(j)
         /\ Holds(j) => Current(j)' = Current(j)
<1>1. pc'[j] = pc[j] /\ pos'[j] = pos[j]
  BY OthersKept DEF IInv
<1> QED BY <1>1, CurrentKept DEF IInv, Holds, Busy

\* An instance that stays at its message keeps its event.
LEMMA MineKept ==
  ASSUME IInv, [Next]_vars, NEW i \in Instances, Busy(i), UNCHANGED pos
  PROVE  Current(i)' = Current(i) /\ Current(i) \in Events
BY CurrentKept, CurrentEvent DEF IInv

\* Each step keeps the lock.
LEMMA LockStep ==
  ASSUME IInv, [Next]_vars
  PROVE  LockInv'
<1> USE DEF streamVars, localVars, dbVars, historyVars
<1>1. ASSUME UNCHANGED <<pc, pos, receipts, effects, failedEffects>> PROVE LockInv'
  <2>1. \A i \in Instances : Holds(i)' => Holds(i) /\ Current(i)' = Current(i)
    BY <1>1, CurrentKept DEF IInv, Holds, Busy
  <2> QED BY <1>1, <2>1, LockQuiet
<1>2. ASSUME NEW i \in Instances, Step(i) PROVE LockInv'
  <2>1. \A j \in Instances : j # i =>
           (Holds(j)' <=> Holds(j)) /\ (Holds(j) => Current(j)' = Current(j))
    BY <1>2, HoldersKept
  <2> USE <2>1 DEF IInv
  <2>2. CASE Assign(i) \/ CommitOffset(i) \/ Receive(i) \/ SkipDuplicate(i) \/ Crash(i) \/ Restart(i)
    <3>1. UNCHANGED <<receipts, effects, failedEffects>>
      BY <2>2 DEF Assign, CommitOffset, Receive, SkipDuplicate, Crash, Restart
    <3>2. ~Holds(i)'
      BY <2>2 DEF Assign, CommitOffset, Receive, SkipDuplicate, Crash, Restart, Goto, Holds, TypeOK
    <3> QED BY <3>1, <3>2, LockQuiet
  <2>3. CASE InsertReceipt(i)
    <3>1. PICK e \in Events : e = Current(i) /\ e = Current(i)'
      BY <2>3, MineKept DEF InsertReceipt, Busy
    <3>2. /\ e \notin receipts /\ receipts' = receipts \union {e} /\ Holds(i)'
          /\ effects' = effects /\ failedEffects' = failedEffects
      BY <2>3, <3>1 DEF InsertReceipt, Goto, Holds, TypeOK
    <3>3. HolderInv' /\ OneHandlerAtATime'
      BY <3>1, <3>2 DEF HolderInv, OneHandlerAtATime
    <3>4. EffectInv' /\ RepeatsAccounted'
      BY <3>1, <3>2 DEF EffectInv, RepeatsAccounted
    <3> QED BY <3>3, <3>4 DEF LockInv
  <2>4. CASE InsertFails(i)
    <3>1. /\ receipts \subseteq receipts' /\ ~Holds(i)'
          /\ effects' = effects /\ failedEffects' = failedEffects
      BY <2>4 DEF InsertFails, Throw, Goto, Holds, TypeOK
    <3> QED BY <3>1 DEF LockInv, HolderInv, OneHandlerAtATime, EffectInv, RepeatsAccounted
  <2>5. CASE Handle(i)
    <3>1. PICK e \in Events : e = Current(i)
      BY <2>5, MineKept DEF Handle, Busy
    <3>2. /\ receipts' = receipts /\ Holds(i) /\ ~Holds(i)'
          /\ effects' = [effects EXCEPT ![e] = @ + 1] /\ failedEffects' = failedEffects
      BY <2>5, <3>1 DEF Handle, Goto, Holds, TypeOK
    <3>3. HolderInv' /\ OneHandlerAtATime'
      BY <3>2 DEF HolderInv, OneHandlerAtATime
    <3>4. e \in receipts /\ \A j \in Instances : Holds(j)' => Current(j)' # e
      BY <3>1, <3>2 DEF HolderInv, OneHandlerAtATime
    <3>5. effects[e] <= failedEffects[e]
      BY <3>1, <3>2 DEF EffectInv
    <3>6. EffectInv'
      BY <3>2, <3>4 DEF EffectInv, TypeOK
    <3>7. RepeatsAccounted'
      BY <3>2, <3>5 DEF RepeatsAccounted, TypeOK
    <3> QED BY <3>3, <3>6, <3>7 DEF LockInv
  <2>6. CASE HandleFails(i)
    <3>1. PICK e \in Events : e = Current(i) /\ e = Current(i)'
      BY <2>6, MineKept DEF HandleFails, Busy
    <3>2. /\ receipts' = receipts /\ Holds(i) /\ Holds(i)'
          /\ \/ /\ effects' = [effects EXCEPT ![e] = @ + 1]
                /\ failedEffects' = [failedEffects EXCEPT ![e] = @ + 1]
             \/ effects' = effects /\ failedEffects' = failedEffects
      BY <2>6, <3>1 DEF HandleFails, Goto, Holds, TypeOK
    <3>3. HolderInv' /\ OneHandlerAtATime'
      BY <3>1, <3>2 DEF HolderInv, OneHandlerAtATime
    <3>4. CASE effects' = effects /\ failedEffects' = failedEffects
      <4>1. EffectInv' /\ RepeatsAccounted'
        BY <3>1, <3>2, <3>4 DEF EffectInv, RepeatsAccounted
      <4> QED BY <3>3, <4>1 DEF LockInv
    <3>5. CASE /\ effects' = [effects EXCEPT ![e] = @ + 1]
               /\ failedEffects' = [failedEffects EXCEPT ![e] = @ + 1]
      <4>1. \A f \in Events : f # e => effects'[f] = effects[f] /\ failedEffects'[f] = failedEffects[f]
        BY <3>5 DEF TypeOK
      <4>2. effects'[e] = effects[e] + 1 /\ failedEffects'[e] = failedEffects[e] + 1
        BY <3>1, <3>5 DEF TypeOK
      <4>3. effects[e] \in Nat /\ failedEffects[e] \in Nat /\ effects[e] <= failedEffects[e]
        BY <3>1, <3>2 DEF EffectInv, TypeOK
      <4>4. \A f \in Events : f # e =>
              (Holds(i) => Current(i) # f) <=> (Holds(i)' => Current(i)' # f)
        BY <3>1, <3>2
      <4>5. EffectInv'
        BY <3>2, <4>1, <4>2, <4>3, <4>4 DEF EffectInv
      <4>6. RepeatsAccounted'
        BY <4>1, <4>2, <4>3 DEF RepeatsAccounted
      <4> QED BY <3>3, <4>5, <4>6 DEF LockInv
    <3> QED BY <3>2, <3>4, <3>5
  <2>7. CASE DeleteReceipt(i) \/ DeleteFails(i)
    <3>1. PICK e \in Events : e = Current(i)
      BY <2>7, CurrentEvent DEF DeleteReceipt, DeleteFails, Busy
    <3>2. /\ receipts' = receipts \/ receipts' = receipts \ {e}
          /\ Holds(i) /\ ~Holds(i)'
          /\ effects' = effects /\ failedEffects' = failedEffects
      BY <2>7, <3>1 DEF DeleteReceipt, DeleteFails, Throw, Goto, Holds, TypeOK
    <3>3. HolderInv' /\ OneHandlerAtATime'
      BY <3>1, <3>2 DEF HolderInv, OneHandlerAtATime
    <3>4. effects[e] <= failedEffects[e]
      BY <3>1, <3>2 DEF EffectInv
    <3>5. EffectInv' /\ RepeatsAccounted'
      BY <3>1, <3>2, <3>4 DEF EffectInv, RepeatsAccounted
    <3> QED BY <3>3, <3>5 DEF LockInv
  <2> QED BY <1>2, <2>2, <2>3, <2>4, <2>5, <2>6, <2>7 DEF Step, Process
<1>3. CASE Subscribe \/ UNCHANGED vars \/ \E e \in Events : Publish(e)
  BY <1>1, <1>3 DEF Subscribe, vars, Publish
<1> QED BY <1>2, <1>3 DEF Next, Step

-----------------------------------------------------------------------------
(* What is lost, and why. *)

\* An event that is safe stays safe: effects are not undone.
LEMMA SafeKept ==
  ASSUME IInv, [Next]_vars, NEW e \in Events, Safe(e)
  PROVE  Safe(e)'
<1> USE DEF dbVars, historyVars
<1>1. effects' = effects => effects'[e] = effects[e]
  OBVIOUS
<1>2. ASSUME NEW f \in Events, effects' = [effects EXCEPT ![f] = @ + 1]
      PROVE  effects[e] > 0 => effects'[e] > 0
  BY <1>2 DEF IInv, TypeOK
<1>3. effects' = effects \/ \E f \in Events : effects' = [effects EXCEPT ![f] = @ + 1]
  <2>1. ASSUME NEW i \in Instances, Handle(i) \/ HandleFails(i)
        PROVE  effects' = effects \/ \E f \in Events : effects' = [effects EXCEPT ![f] = @ + 1]
    <3>1. Current(i) \in Events
      BY <2>1, CurrentEvent DEF Handle, HandleFails, Busy, IInv
    <3> QED BY <2>1, <3>1 DEF Handle, HandleFails
  <2> QED BY <2>1 DEF Next, vars, Publish, Subscribe, Assign, CommitOffset, Process, Receive,
              InsertReceipt, SkipDuplicate, InsertFails, DeleteReceipt, DeleteFails, Crash, Restart
<1>4. interrupted \subseteq interrupted'
  BY DEF Next, vars, Publish, Subscribe, Assign, CommitOffset, Process, Receive,
         InsertReceipt, SkipDuplicate, InsertFails, Handle, HandleFails, DeleteReceipt,
         DeleteFails, Crash, Restart
<1> QED BY <1>1, <1>2, <1>3, <1>4 DEF Safe

LossInv == NonOwnerInv /\ ReceiptInv /\ ResolvedInv /\ LossesAccounted

\* A message on the log is still there after a step, and as safe as it was.
LEMMA LogSafe ==
  ASSUME IInv, [Next]_vars, NEW p \in 1 .. Len(log), Safe(log[p])
  PROVE  Safe(log[p])'
<1>1. TypeOK
  BY DEF IInv
<1>2. log[p] \in Events
  BY <1>1 DEF TypeOK
<1>3. log'[p] = log[p]
  BY <1>1, LogGrows
<1>4. PICK e \in Events : e = log[p] /\ e = log'[p]
  BY <1>2, <1>3
<1>5. Safe(e)'
  BY <1>4, SafeKept
<1> QED BY <1>4, <1>5 DEF Safe

\* Busy instances keep their event; a move of the partition away from one is
\* reported.
LEMMA NonOwnerStep ==
  ASSUME IInv, [Next]_vars
  PROVE  NonOwnerInv'
<1> USE DEF streamVars, localVars, dbVars, historyVars
<1>1. ASSUME UNCHANGED <<pc, pos, owner>>, interrupted \subseteq interrupted' PROVE NonOwnerInv'
  BY <1>1, CurrentKept DEF IInv, NonOwnerInv, Busy
<1>2. ASSUME NEW i \in Instances, Step(i) PROVE NonOwnerInv'
  <2>1. \A j \in Instances : j # i =>
           (Busy(j)' <=> Busy(j)) /\ (Busy(j) => Current(j)' = Current(j))
    BY <1>2, OthersKept, CurrentKept DEF IInv, Busy
  <2> USE <2>1 DEF IInv
  <2>2. CASE Assign(i)
    <3>1. ~Busy(i)' /\ owner' = i /\ interrupted \subseteq interrupted'
      BY <2>2 DEF Assign, Busy
    <3>2. \A j \in Instances : Busy(j) /\ owner = j => Current(j) \in interrupted'
      BY <2>2 DEF Assign
    <3> QED BY <3>1, <3>2 DEF NonOwnerInv
  <2>3. CASE Restart(i)
    <3>1. /\ ~Busy(i)' /\ interrupted' = interrupted
          /\ \A j \in Instances : j # i => (owner' = j <=> owner = j)
      BY <2>3, NoneAssumption DEF Restart, Goto, Busy, TypeOK
    <3> QED BY <3>1 DEF NonOwnerInv
  <2>4. CASE Receive(i)
    <3>1. owner' = i /\ owner = i /\ interrupted' = interrupted
      BY <2>4 DEF Receive
    <3> QED BY <3>1 DEF NonOwnerInv
  <2>5. CASE CommitOffset(i)
    BY <1>1, <2>5 DEF CommitOffset
  <2>6. CASE InsertReceipt(i) \/ HandleFails(i)
    <3>1. owner' = owner /\ interrupted' = interrupted /\ Busy(i) /\ UNCHANGED pos
      BY <2>6 DEF InsertReceipt, HandleFails, Busy
    <3>2. Current(i)' = Current(i)
      BY <3>1, MineKept
    <3> QED BY <3>1, <3>2 DEF NonOwnerInv
  <2>7. CASE SkipDuplicate(i) \/ InsertFails(i) \/ Handle(i) \/ DeleteReceipt(i) \/ DeleteFails(i) \/ Crash(i)
    <3>1. owner' = owner /\ interrupted \subseteq interrupted'
      BY <2>7 DEF SkipDuplicate, InsertFails, Handle, DeleteReceipt, DeleteFails, Crash
    <3>2. ~Busy(i)'
      BY <2>7 DEF SkipDuplicate, InsertFails, Handle, DeleteReceipt, DeleteFails, Crash,
                  Throw, Goto, Busy, TypeOK
    <3> QED BY <3>1, <3>2 DEF NonOwnerInv
  <2> QED BY <1>2, <2>2, <2>3, <2>4, <2>5, <2>6, <2>7 DEF Step, Process
<1>3. CASE Subscribe \/ UNCHANGED vars \/ \E e \in Events : Publish(e)
  BY <1>1, <1>3 DEF Subscribe, vars, Publish
<1> QED BY <1>2, <1>3 DEF Next, Step

\* A receipt left behind by its holder is the receipt of a safe event.
LEMMA ReceiptStep ==
  ASSUME IInv, [Next]_vars
  PROVE  ReceiptInv'
<1> USE DEF streamVars, localVars, dbVars, historyVars
<1>1. receipts \subseteq Events
  BY DEF IInv, TypeOK
<1>2. ASSUME receipts' \subseteq receipts,
             \A i \in Instances : Holds(i) => Holds(i)' /\ Current(i)' = Current(i)
      PROVE  ReceiptInv'
  BY <1>1, <1>2, SafeKept DEF IInv, ReceiptInv
<1>3. ASSUME NEW i \in Instances, Step(i) PROVE ReceiptInv'
  <2>1. \A j \in Instances : j # i =>
           (Holds(j)' <=> Holds(j)) /\ (Holds(j) => Current(j)' = Current(j))
    BY <1>3, HoldersKept
  <2> USE <2>1 DEF IInv
  <2>2. CASE Assign(i) \/ CommitOffset(i) \/ Receive(i) \/ SkipDuplicate(i) \/ Restart(i)
    <3>1. receipts' = receipts /\ ~Holds(i)
      BY <2>2 DEF Assign, CommitOffset, Receive, SkipDuplicate, Restart, Holds
    <3> QED BY <1>2, <3>1
  <2>3. CASE InsertReceipt(i)
    <3>1. PICK e \in Events : e = Current(i) /\ e = Current(i)'
      BY <2>3, MineKept DEF InsertReceipt, Busy
    <3>2. receipts' = receipts \union {e} /\ ~Holds(i) /\ Holds(i)'
      BY <2>3, <3>1 DEF InsertReceipt, Goto, Holds, TypeOK
    <3> QED BY <1>1, <3>1, <3>2, SafeKept DEF ReceiptInv
  <2>4. CASE InsertFails(i)
    <3>1. PICK e \in Events : e = Current(i)
      BY <2>4, CurrentEvent DEF InsertFails, Busy
    <3>2. ~Holds(i) /\ (receipts' = receipts \/ (receipts' = receipts \union {e} /\ e \in interrupted'))
      BY <2>4, <3>1 DEF InsertFails, Holds
    <3>3. e \in interrupted' => Safe(e)'
      BY DEF Safe
    <3> QED BY <1>1, <1>2, <3>2, <3>3, SafeKept DEF ReceiptInv
  <2>5. CASE Handle(i)
    <3>1. PICK e \in Events : e = Current(i)
      BY <2>5, CurrentEvent DEF Handle, Busy
    <3>2. receipts' = receipts /\ effects'[e] > 0
      BY <2>5, <3>1 DEF Handle, TypeOK
    <3>3. Safe(e)'
      BY <3>2 DEF Safe
    <3> QED BY <1>1, <3>1, <3>2, <3>3, SafeKept DEF ReceiptInv
  <2>6. CASE HandleFails(i)
    <3>1. receipts' = receipts /\ Holds(i)' /\ Current(i)' = Current(i)
      BY <2>6, MineKept DEF HandleFails, Goto, Holds, Busy, TypeOK
    <3> QED BY <1>2, <3>1
  <2>7. CASE DeleteReceipt(i) \/ DeleteFails(i) \/ Crash(i)
    <3>1. CASE Holds(i)
      <4>1. PICK e \in Events : e = Current(i)
        BY <3>1, CurrentEvent DEF Holds, Busy
      <4>2. receipts' \subseteq receipts /\ (e \notin receipts' \/ e \in interrupted')
        BY <2>7, <3>1, <4>1 DEF DeleteReceipt, DeleteFails, Crash, Holds, Busy
      <4>3. e \in interrupted' => Safe(e)'
        BY DEF Safe
      <4> QED BY <1>1, <4>1, <4>2, <4>3, SafeKept DEF ReceiptInv
    <3>2. CASE ~Holds(i)
      <4>1. receipts' = receipts
        BY <2>7, <3>2 DEF DeleteReceipt, DeleteFails, Crash, Holds
      <4> QED BY <1>2, <3>2, <4>1
    <3> QED BY <3>1, <3>2
  <2> QED BY <1>3, <2>2, <2>3, <2>4, <2>5, <2>6, <2>7 DEF Step, Process
<1>4. CASE Subscribe \/ UNCHANGED vars \/ \E e \in Events : Publish(e)
  <2>1. UNCHANGED <<pc, pos, receipts>>
    BY <1>4 DEF Subscribe, vars, Publish
  <2>2. \A i \in Instances : Holds(i) => Holds(i)' /\ Current(i)' = Current(i)
    BY <2>1, CurrentKept DEF IInv, Holds, Busy
  <2> QED BY <1>2, <2>1, <2>2
<1> QED BY <1>3, <1>4 DEF Next, Step

\* What an owner resolves is safe: it ran the handler itself, or it found the
\* receipt of a safe event, since a holder elsewhere has been reported.
LEMMA ResolvedStep ==
  ASSUME IInv, [Next]_vars
  PROVE  ResolvedInv'
<1> USE DEF streamVars, localVars, dbVars, historyVars
<1>1. \A i \in Instances : pos[i] \in 0 .. Len(log) /\ start \in Nat
  BY DEF IInv, TypeOK
<1>2. ASSUME start' = start,
             \A i \in Instances : owner' = i =>
                /\ owner = i /\ pos'[i] \in Nat /\ pos'[i] <= pos[i]
                /\ \/ Busy(i)' /\ pos'[i] = pos[i]
                   \/ pos'[i] < pos[i]
                   \/ Safe(log[pos[i]])' /\ pos[i] > 0
                   \/ ~Busy(i)
      PROVE  ResolvedInv'
  <2>1. SUFFICES ASSUME NEW i \in Instances, owner' = i, NEW p \in start + 1 .. pos'[i]
                 PROVE  Safe(log[p])' \/ (p = pos'[i] /\ Busy(i)')
    BY <1>2 DEF ResolvedInv
  <2>2. p \in 1 .. Len(log) /\ p \in start + 1 .. pos[i]
    BY <1>1, <1>2, <2>1
  <2>3. Safe(log[p]) \/ (p = pos[i] /\ Busy(i))
    BY <1>2, <2>1, <2>2 DEF IInv, ResolvedInv
  <2>4. CASE Safe(log[p])
    BY <2>2, <2>4, LogSafe
  <2>5. CASE p = pos[i] /\ Busy(i)
    BY <1>1, <1>2, <2>1, <2>2, <2>5
  <2> QED BY <2>3, <2>4, <2>5
<1>3. ASSUME NEW i \in Instances, Step(i) PROVE ResolvedInv'
  <2>1. \A j \in Instances : j # i =>
           pos'[j] = pos[j] /\ (Busy(j)' <=> Busy(j))
    BY <1>3, OthersKept DEF IInv, Busy
  <2> USE <2>1 DEF IInv
  <2>2. CASE Assign(i)
    <3>1. owner' = i /\ pos'[i] = offset /\ start' = start /\ offset \in start .. Len(log)
      BY <2>2 DEF Assign, TypeOK
    <3>2. ASSUME NEW p \in start + 1 .. offset PROVE Safe(log[p])'
      <4>1. p \in 1 .. Len(log)
        BY <1>1, <3>1, <3>2
      <4>2. Safe(log[p])
        BY <3>2 DEF LossesAccounted, Delivered, Safe
      <4> QED BY <4>1, <4>2, LogSafe
    <3> QED BY <3>1, <3>2 DEF ResolvedInv
  <2>3. CASE CommitOffset(i) \/ HandleFails(i) \/ InsertReceipt(i)
    <3>1. start' = start /\ owner' = owner /\ pos' = pos /\ (Busy(i)' <=> Busy(i))
      BY <2>3 DEF CommitOffset, HandleFails, InsertReceipt, Goto, Busy, TypeOK
    <3> QED BY <1>1, <1>2, <3>1
  <2>4. CASE Receive(i)
    <3>1. /\ start' = start /\ owner' = i /\ owner = i /\ Busy(i)' /\ ~Busy(i)
          /\ pos'[i] = pos[i] + 1
      BY <2>4 DEF Receive, Goto, Busy, TypeOK
    <3>2. ASSUME NEW p \in start + 1 .. pos[i] PROVE Safe(log[p])'
      <4>1. p \in 1 .. Len(log)
        BY <1>1, <3>2
      <4>2. Safe(log[p])
        BY <3>1, <3>2 DEF ResolvedInv
      <4> QED BY <4>1, <4>2, LogSafe
    <3> QED BY <1>1, <3>1, <3>2 DEF ResolvedInv
  <2>5. CASE SkipDuplicate(i)
    <3>1. PICK e \in Events : e = Current(i) /\ e = Current(i)'
      BY <2>5, MineKept DEF SkipDuplicate, Busy
    <3>2. /\ start' = start /\ owner' = owner /\ pos' = pos /\ pos[i] > 0
          /\ e \in receipts /\ ~Holds(i)
      BY <2>5, <3>1 DEF SkipDuplicate, BusyInv, Busy, Holds
    <3>3. owner = i => Safe(e)
      BY <3>2 DEF ReceiptInv, NonOwnerInv, Safe, Holds, Busy
    <3>4. owner = i => Safe(e)'
      BY <3>3, SafeKept
    <3>5. owner = i => Safe(log[pos[i]])'
      BY <3>1, <3>2, <3>4 DEF Current, Safe
    <3> QED BY <1>1, <1>2, <3>2, <3>5
  <2>6. CASE Handle(i)
    <3>1. PICK e \in Events : e = Current(i) /\ e = Current(i)'
      BY <2>6, MineKept DEF Handle, Busy
    <3>2. /\ start' = start /\ owner' = owner /\ pos' = pos /\ pos[i] > 0
          /\ effects'[e] > 0
      BY <2>6, <3>1 DEF Handle, BusyInv, Busy, TypeOK
    <3>3. Safe(log[pos[i]])'
      BY <3>1, <3>2 DEF Current, Safe
    <3> QED BY <1>1, <1>2, <3>2, <3>3
  <2>7. CASE InsertFails(i) \/ DeleteReceipt(i) \/ DeleteFails(i)
    <3>1. start' = start /\ owner' = owner /\ Throw(i) /\ Busy(i)
      BY <2>7 DEF InsertFails, DeleteReceipt, DeleteFails, Busy
    <3>2. pos'[i] = pos[i] - 1 /\ pos[i] > 0
      BY <3>1, ThrowFacts DEF BusyInv
    <3> QED BY <1>1, <1>2, <3>1, <3>2
  <2>8. CASE Crash(i)
    <3>1. start' = start /\ owner' = owner /\ pos'[i] = 0
      BY <2>8 DEF Crash, TypeOK
    <3>2. \A j \in Instances : owner' = j => \A p \in start + 1 .. pos'[j] :
             Safe(log[p])' \/ (p = pos'[j] /\ Busy(j)')
      <4>1. ASSUME NEW j \in Instances, j # i, owner = j, NEW p \in start + 1 .. pos[j]
            PROVE  Safe(log[p])' \/ (p = pos'[j] /\ Busy(j)')
        <5>1. p \in 1 .. Len(log)
          BY <1>1, <4>1
        <5>2. Safe(log[p]) \/ (p = pos[j] /\ Busy(j))
          BY <4>1 DEF ResolvedInv
        <5> QED BY <4>1, <5>1, <5>2, LogSafe
      <4> QED BY <1>1, <3>1, <4>1
    <3> QED BY <3>1, <3>2 DEF ResolvedInv
  <2>9. CASE Restart(i)
    <3>1. /\ start' = start /\ pos' = pos
          /\ \A j \in Instances : owner' = j => owner = j /\ j # i
      BY <2>9, NoneAssumption DEF Restart, TypeOK
    <3> QED BY <1>1, <1>2, <3>1
  <2> QED BY <1>3, <2>2, <2>3, <2>4, <2>5, <2>6, <2>7, <2>8, <2>9 DEF Step, Process
<1>4. CASE UNCHANGED vars \/ \E e \in Events : Publish(e)
  <2>1. UNCHANGED <<pc, pos, owner, start>>
    BY <1>4 DEF vars, Publish
  <2>2. \A i \in Instances : Busy(i)' <=> Busy(i)
    BY <2>1 DEF Busy
  <2> QED BY <1>1, <1>2, <2>1, <2>2
<1>5. CASE Subscribe
  <2>1. \A i \in Instances : pos'[i] <= start'
    BY <1>1, <1>5 DEF Subscribe
  <2>2. start' \in Nat /\ \A i \in Instances : pos'[i] \in Nat
    BY <1>5 DEF Subscribe, IInv, TypeOK
  <2>3. ASSUME NEW a \in Nat, NEW b \in Nat, b <= a PROVE a + 1 .. b = {}
    BY <2>3
  <2>4. \A i \in Instances : start' + 1 .. pos'[i] = {}
    BY <2>1, <2>2, <2>3
  <2> QED BY <2>4 DEF ResolvedInv
<1> QED BY <1>3, <1>4, <1>5 DEF Next, Step

\* Only the owner commits, and what it has resolved is safe.
LEMMA LossesStep ==
  ASSUME IInv, [Next]_vars
  PROVE  LossesAccounted'
<1> USE DEF streamVars, localVars, dbVars, historyVars
<1>1. start \in Nat /\ offset \in start .. Len(log)
  BY DEF IInv, TypeOK
<1>2. ASSUME start' = start, offset' \in start .. Len(log),
             \A p \in start + 1 .. offset' : Safe(log[p])
      PROVE  LossesAccounted'
  <2>1. SUFFICES ASSUME NEW p \in start + 1 .. offset'
                 PROVE  Safe(log[p])'
    BY <1>2 DEF LossesAccounted, Delivered, Safe
  <2>2. p \in 1 .. Len(log)
    BY <1>1, <1>2, <2>1
  <2> QED BY <1>2, <2>1, <2>2, LogSafe
<1>3. \A p \in start + 1 .. offset : Safe(log[p])
  BY DEF IInv, LossesAccounted, Delivered, Safe
<1>4. ASSUME start' = start, offset' = offset PROVE LossesAccounted'
  BY <1>1, <1>2, <1>3, <1>4
<1>5. CASE Subscribe
  <2>1. start' = offset' /\ start' \in Nat
    BY <1>5 DEF Subscribe, IInv, TypeOK
  <2> QED BY <2>1 DEF LossesAccounted, Delivered
<1>6. ASSUME NEW i \in Instances, CommitOffset(i) PROVE LossesAccounted'
  <2>1. start' = start /\ offset' = pos[i] /\ owner = i /\ ~Busy(i) /\ pos[i] > offset
    BY <1>6 DEF CommitOffset, Busy
  <2>2. pos[i] \in 0 .. Len(log)
    BY DEF IInv, TypeOK
  <2>3. \A p \in start + 1 .. pos[i] : Safe(log[p])
    BY <2>1 DEF IInv, ResolvedInv
  <2> QED BY <1>1, <1>2, <2>1, <2>2, <2>3
<1>7. CASE \/ UNCHANGED vars
           \/ \E e \in Events : Publish(e)
           \/ \E i \in Instances : Assign(i) \/ Process(i) \/ Crash(i) \/ Restart(i)
  BY <1>4, <1>7 DEF vars, Publish, Assign, Process, Receive, InsertReceipt, SkipDuplicate,
         InsertFails, Handle, HandleFails, DeleteReceipt, DeleteFails, Crash, Restart
<1> QED BY <1>5, <1>6, <1>7 DEF Next

-----------------------------------------------------------------------------
(* The theorems. *)

\* The inductive invariant holds of an empty log.
LEMMA IInvInit == Init => IInv
<1> SUFFICES ASSUME Init PROVE IInv
  OBVIOUS
<1>1. log \in Seq(Events) /\ Len(log) = 0
  BY DEF Init
<1>2. /\ start \in 0 .. Len(log) /\ offset \in start .. Len(log)
      /\ pos \in [Instances -> 0 .. Len(log)]
  BY <1>1 DEF Init
<1>3. TypeOK /\ BusyInv
  BY <1>1, <1>2 DEF Init, TypeOK, BusyInv, Busy, Steps
<1>4. HolderInv /\ OneHandlerAtATime /\ EffectInv /\ RepeatsAccounted
  BY DEF Init, HolderInv, OneHandlerAtATime, EffectInv, RepeatsAccounted, Holds
<1>5. NonOwnerInv /\ ReceiptInv /\ ResolvedInv /\ LossesAccounted
  BY DEF Init, NonOwnerInv, ReceiptInv, ResolvedInv, LossesAccounted, Delivered, Busy
<1> QED BY <1>3, <1>4, <1>5 DEF IInv

\* The inductive invariant is an invariant of the group.
THEOREM Invariance == Spec => []IInv
<1>1. IInv /\ [Next]_vars => IInv'
  BY TypeStep, LockStep, NonOwnerStep, ReceiptStep, ResolvedStep, LossesStep DEF IInv, LockInv
<1> QED BY IInvInit, <1>1, PTL DEF Spec

\* Every variable keeps its type: in particular positions and offsets stay on
\* the log.
THEOREM TypeCorrect == Spec => []TypeOK
<1>1. IInv => TypeOK
  BY DEF IInv
<1> QED BY <1>1, Invariance, PTL

\* The ProcessedEvent row is a lock on (event, consumer): one instance at a time
\* runs the handler, through rebalances, crashes and duplicate messages.
THEOREM HandlersExclude == Spec => []OneHandlerAtATime
<1>1. IInv => OneHandlerAtATime
  BY DEF IInv
<1> QED BY <1>1, Invariance, PTL

\* An event's effect is repeated at most as often as its handler threw after it.
THEOREM RepeatsArePaidFor == Spec => []RepeatsAccounted
<1>1. IInv => RepeatsAccounted
  BY DEF IInv
<1> QED BY <1>1, Invariance, PTL

\* A committed message without an effect was interrupted: by a crash, a lost
\* database answer or a rebalance while its event was being processed.
THEOREM LossesAreExplained == Spec => []LossesAccounted
<1>1. IInv => LossesAccounted
  BY DEF IInv
<1> QED BY <1>1, Invariance, PTL

\* A finished run's receipt stays, and its effect is never repeated.
THEOREM FinishedIsFinal == Spec => FinishedStaysFinished
<1> DEFINE Stays == \A e \in Events : (e \in receipts /\ effects[e] > failedEffects[e]) =>
                        e \in receipts' /\ effects'[e] = effects[e]
<1>1. IInv /\ [Next]_vars => [Stays]_vars
  <2> SUFFICES ASSUME IInv, Next PROVE Stays
    OBVIOUS
  <2> USE DEF streamVars, localVars, dbVars, historyVars, IInv
  <2>1. ASSUME receipts \subseteq receipts', effects' = effects PROVE Stays
    BY <2>1
  <2>2. ASSUME NEW i \in Instances,
               DeleteReceipt(i) \/ DeleteFails(i) \/ Handle(i) \/ HandleFails(i)
        PROVE  Stays
    <3>1. Holds(i)
      BY <2>2 DEF DeleteReceipt, DeleteFails, Handle, HandleFails, Holds
    <3>2. PICK e \in Events : e = Current(i)
      BY <3>1, CurrentEvent DEF Holds, Busy
    <3>3. effects[e] <= failedEffects[e]
      BY <3>1, <3>2 DEF EffectInv
    <3>4. \A f \in Events : f # e => effects'[f] = effects[f]
      BY <2>2, <3>2 DEF DeleteReceipt, DeleteFails, Handle, HandleFails, TypeOK
    <3>5. \A f \in receipts : f # e => f \in receipts'
      BY <2>2, <3>2 DEF DeleteReceipt, DeleteFails, Handle, HandleFails
    <3>6. effects[e] \in Nat /\ failedEffects[e] \in Nat
      BY DEF TypeOK
    <3> QED BY <3>3, <3>4, <3>5, <3>6
  <2>3. ASSUME NEW i \in Instances,
               \/ Assign(i) \/ CommitOffset(i) \/ Receive(i) \/ InsertReceipt(i)
               \/ SkipDuplicate(i) \/ InsertFails(i) \/ Crash(i) \/ Restart(i)
        PROVE  receipts \subseteq receipts' /\ effects' = effects
    BY <2>3 DEF Assign, CommitOffset, Receive, InsertReceipt, SkipDuplicate, InsertFails,
                Crash, Restart
  <2>4. ASSUME Subscribe \/ \E e \in Events : Publish(e) PROVE Stays
    BY <2>1, <2>4 DEF Subscribe, Publish
  <2> QED BY <2>1, <2>2, <2>3, <2>4 DEF Next, Process
<1> QED BY <1>1, Invariance, PTL DEF Spec, FinishedStaysFinished
=============================================================================
