-------------------------- MODULE MCEventConsumer --------------------------
(* Instances of EventConsumer for TLC. *)
EXTENDS EventConsumer, TLC

CONSTANTS e1, e2, i1, i2

MCEvents == {e1, e2}
MCInstances == {i1, i2}
ConsumerSymmetry == Permutations(MCEvents) \union Permutations(MCInstances)
=============================================================================
