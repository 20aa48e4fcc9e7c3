---------------------------- MODULE MCDashboard ----------------------------
(* Instances of Dashboard for TLC. *)
EXTENDS Dashboard

CONSTANTS r1, r2

MCReaders == {r1, r2}

\* Two figures of one row, and one that is announced.
MCChanges == {"candidates", "verified", "placements"}

\* An event with a topic and one without.
MCTopicChanges == {"candidates", "counselling"}
=============================================================================
