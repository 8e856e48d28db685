----------------------------- MODULE MCJobLocks -----------------------------
(* All jobs with the same, short timeout.                                    *)
EXTENDS JobLocks

CONSTANT ShortTimeout
SameTimeout == [j \in Jobs |-> ShortTimeout]
=============================================================================
