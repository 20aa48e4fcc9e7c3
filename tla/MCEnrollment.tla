---------------------------- MODULE MCEnrollment ----------------------------
(* Instances of Enrollment for TLC. *)
EXTENDS Enrollment, TLC

CONSTANTS r1, r2, r3, k1, k2, k3, k4, b1, b2, n1, n2, n3, n4, n5

MCRequests == {r1, r2, r3}
MCKnown    == {k1, k2, k3, k4}
MCBatches  == {b1, b2}
MCMobiles  == {n1, n2, n3, n4, n5}

\* Dates of birth around the eighteenth birthday, and an adult's.
MCToday  == [year |-> 2026, day |-> 200]
Grown    == [year |-> 1990, day |-> 1]
Turned18 == [year |-> 2008, day |-> 100]
Turns18  == [year |-> 2008, day |-> 300]
Turns17  == [year |-> 2009, day |-> 1]
MCDates  == {Grown, Turned18, Turns18, Turns17}

\* Three verified candidates and one who is not; b1 has one seat and b2 two.
MCRegistered ==
    (k1 :> [mobile |-> n1, birth |-> Grown, status |-> "VERIFIED"]) @@
    (k2 :> [mobile |-> n2, birth |-> Grown, status |-> "VERIFIED"]) @@
    (k3 :> [mobile |-> n3, birth |-> Grown, status |-> "VERIFIED"]) @@
    (k4 :> [mobile |-> n4, birth |-> Grown, status |-> "SUBMITTED"])
MCCapacity == (b1 :> 1) @@ (b2 :> 2)

Register(n, d)  == [kind |-> "register", mobile |-> n, birth |-> d]
Verify(c)       == [kind |-> "verify", candidate |-> c]
Enrol(c, b)     == [kind |-> "enrol", candidate |-> c, batch |-> b]
Move(x, c, b)   == [kind |-> "move", row |-> x, candidate |-> c, batch |-> b]
Resize(b, size) == [kind |-> "resize", batch |-> b, capacity |-> size]

\* Enrolments that compete for b1, a verification and updates beside them.
EnrolmentAsks ==
    {Enrol(c, b1) : c \in MCKnown} \union {Enrol(k1, b2), Verify(k4),
     Move(r1, None, b1), Move(r1, k4, None), Resize(b1, 0)}

\* A registration, twice, with its number or somebody's; verified and enrolled.
RegistrationAsks ==
    {Register(n1, Grown), Register(n5, Turns18), Register(n5, Turns17),
     Verify(r1), Enrol(r1, b1)}

MCAsks == EnrolmentAsks \union RegistrationAsks
=============================================================================
