---------------------------- MODULE MCSessions ----------------------------
(* Instances of Sessions for TLC. *)
EXTENDS Sessions, TLC

CONSTANTS r1, r2, r3, s0, b1, b2

MCRequests == {r1, r2, r3}
MCBrowsers == {b1, b2}
RequestSymmetry == Permutations(Requests)

\* Everything but a write of the pages in the browser that is signed in (a logout has
\* to have the csrf_token as any write has); another one signs in and reads.
MCAsks == [op : Operations \ {"post"}, browser : {b1}] \union
          [op : {"login", "get"}, browser : {b2}]
=============================================================================
