------------------------ MODULE MCCertificateWorker ------------------------
(* Instances of CertificateWorker for TLC. *)
EXTENDS CertificateWorker, TLC

CONSTANTS m1, m2, w1, w2, i1, i2, r1, r2, a1

MCWorkers  == {w1, w2}
OneWorker  == {w1}
MCMessages == {m1, m2}
MCIds      == {i1, i2}
MCResults  == {r1, r2}
MCAwards   == {a1}

\* One job whose message was sent twice.
SameIdOf == [m \in MCMessages |-> i1]

\* Two jobs.
EachIdOf == (m1 :> i1) @@ (m2 :> i2)

\* The two jobs are of two results, of one candidate and course.
EachResultOf == (i1 :> r1) @@ (i2 :> r2)

MCAwardOf == [r \in MCResults |-> a1]

WorkerSymmetry == Permutations(MCWorkers)
=============================================================================
