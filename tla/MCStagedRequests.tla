-------------------------- MODULE MCStagedRequests --------------------------
(* Instances of StagedRequests for TLC. *)
EXTENDS StagedRequests, TLC

CONSTANTS r1, r2, r3, k0, u1, u2, typed, t1, t2

MCRequests == {r1, r2, r3}
MCUrls     == {u1, u2}
MCTrades   == {t1, t2}
RequestSymmetry == Permutations(Requests)

\* PATCHes of each column, and of two at once that update treats as a pair.
MCPatches ==
    {[url |-> u] : u \in Urls \union {Blank, None}}
    \union {[key |-> k] : k \in Keys \union {None}}
    \union {[gated |-> FALSE], [lesson |-> Typed]}
    \union {[url |-> u1, lesson |-> Typed], [url |-> None, key |-> Old]}

\* Every other kind of request.
MCAsks == {a \in Shapes : a.kind # "patch"} \union [kind : {"patch"}, set : MCPatches]
=============================================================================
