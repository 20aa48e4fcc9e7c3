------------------------------ MODULE MCOutbox ------------------------------
(* Instances of Outbox for TLC. *)
EXTENDS OutboxProperties

CONSTANTS e1, e2, w1, w2

MCEvents == {e1, e2}
MCIntegration == {e1}
MCTwoWorkers == {w1, w2}

\* Failures of one event, or two events: nothing fails once the second is written,
\* which is written only where nothing has failed.  Publishers crash and claims
\* expire either way; and what may fail may also succeed, so that no publisher has
\* a step due that it may not take.
Failing == \E e \in Events, w \in Workers : failures[e] > 0 \/ pc[w] = "fail"
OneTrouble == Failing => txn[e2] = "none"

MCSpec == Init /\ [][Next /\ OneTrouble']_vars /\ Fairness
=============================================================================
