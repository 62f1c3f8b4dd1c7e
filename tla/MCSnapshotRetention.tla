------------------------ MODULE MCSnapshotRetention ------------------------
(***************************************************************************)
(* A customer's project with two workloads, or the instance's own project, *)
(* which the self-configuration runs from and which admits no service      *)
(* account: `own' says which and never changes.                            *)
(***************************************************************************)
EXTENDS SnapshotRetention

CONSTANTS e1, w1, w2

VARIABLE own

OneEnv == {e1}
TwoWorkloads == {w1, w2}
NoEnvs == {}

Bounded(a, l) == [unlimited |-> FALSE, age |-> a, last |-> l]
TwoPolicies == {Bounded(1, 1), Bounded(2, 2)}

OwnProject == INSTANCE SnapshotRetention WITH SelfConfigured <- Envs

MCVars == <<retentionVars, own>>

MCInit == own \in BOOLEAN /\ RetentionInit

CustomerNext == ~own /\ RetentionNext /\ UNCHANGED own
OwnNext == own /\ OwnProject!RetentionNext /\ UNCHANGED <<pins, own>>

MCNext == CustomerNext \/ OwnNext

MCSpec == MCInit /\ [][MCNext]_MCVars /\ WF_MCVars(SweepChunk(now) /\ UNCHANGED own)
=============================================================================
