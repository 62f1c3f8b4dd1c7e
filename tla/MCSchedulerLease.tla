-------------------------- MODULE MCSchedulerLease --------------------------
(* Two replicas; the symmetry of the replicas is used by the safety run.   *)
EXTENDS SchedulerLease, TLC

CONSTANTS n1, n2

TwoNodes == {n1, n2}
NodeSymmetry == Permutations(TwoNodes)
=============================================================================
