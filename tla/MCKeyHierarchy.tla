---------------------------- MODULE MCKeyHierarchy ----------------------------
(* Two processes and three tier-3 keys. *)
EXTENDS KeyHierarchy

CONSTANTS n1, n2, k1, k2, k3

TwoNodes == {n1, n2}
ThreeKeys == {k1, k2, k3}

=============================================================================
