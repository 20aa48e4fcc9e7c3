--------------------------- MODULE MCMaintenance ---------------------------
(* Instances of Maintenance for TLC. *)
EXTENDS Maintenance

\* What the browser tests write, with references the cleanup follows and some it
\* does not, and what a sign-in writes.
MCWritten ==
    {"candidate", "consent", "employer", "vacancy", "placement", "course", "batch",
     "serviceBooking", "authSession", "payment"}

MCTests == {"test"}
MCOthers == {"other"}

\* Nothing, what the seed leaves, and a row in every table.
MCUsed == [r \in Tables \X {"pilot"} |-> PilotRefs(r[1])]
MCStarts == {<<>>, Pilot, MCUsed}
=============================================================================
