---------------------------- MODULE MCListPage ----------------------------
(* Instances of ListPage for TLC. *)
EXTENDS ListPage, TLC

CONSTANTS c1, c2

MCCourses == {c1, c2}

MCSymmetry == Permutations(MCCourses)
=============================================================================
