-------------------------- MODULE MCCanonicalJobs --------------------------
(***************************************************************************)
(* Small instances of CanonicalJobs.                                       *)
(***************************************************************************)
EXTENDS CanonicalJobs, TLC

CONSTANTS i1, i2, c1

\* The producers run in the first process; the second only works.
CallsAtFirst == [c \in Calls |-> i1]

\* The producers are background scans: the children of a job come before them.
BackgroundScans == [t \in Roots |-> 40]
=============================================================================
