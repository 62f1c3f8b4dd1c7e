---------------------------- MODULE MCReencryption ----------------------------
(***************************************************************************)
(* Two HA nodes with the keys of a project, or with those of the instance: *)
(* `scope' says which and never changes, so the two state spaces add up.   *)
(***************************************************************************)
EXTENDS Reencryption

CONSTANTS n1, n2

VARIABLE scope

TwoNodes == {n1, n2}
OneNode  == {n1}
Other    == {n2}

InstanceScope == INSTANCE Reencryption WITH Instance <- TRUE

MCVars == <<vars, scope>>

MCInit ==
  \/ scope = "project" /\ Init
  \/ scope = "instance" /\ InstanceScope!Init

\* Bound: one instance row and one instance rotation.
InstanceBound == vstate'[3] = "none" /\ row'[2] = 0

ProjectNext  == scope = "project" /\ Next /\ UNCHANGED scope
InstanceNext == scope = "instance" /\ InstanceScope!Next /\ InstanceBound /\ UNCHANGED scope

MCNext == ProjectNext \/ InstanceNext

\* The fairness of FairSpec, for the scope chosen.
MCSpec ==
  /\ MCInit /\ [][MCNext]_MCVars
  /\ \A n \in Nodes :
       /\ WF_MCVars(scope = "project" /\ RotateAdopt(n) /\ UNCHANGED scope)
       /\ WF_MCVars(scope = "instance" /\ InstanceScope!RotateAdopt(n) /\ UNCHANGED scope)
       /\ WF_MCVars(scope = "instance" /\ InstanceScope!ReloadRead(n) /\ UNCHANGED scope)
       /\ WF_MCVars(scope = "instance" /\ InstanceScope!ReloadStore(n) /\ UNCHANGED scope)

StaleHere(n) == IF scope = "instance" THEN InstanceScope!StaleFetch(n) ELSE StaleFetch(n)

(* FenceClears in either scope: no HA node goes on refusing its own writes *)
(* for ever after a rotation, because a project hit is revalidated and the *)
(* heartbeat reloads the held instance set.                                *)
FenceClearsHere == \A n \in Nodes : StaleHere(n) ~> ~StaleHere(n)
=============================================================================
