------------------------- MODULE MCAdapterRuntime -------------------------
(***************************************************************************)
(* Two nodes and a name that both revisions write, or one process and a    *)
(* second revision that adds a name somebody else may add as well.         *)
(***************************************************************************)
EXTENDS AdapterRuntime, TLC

CONSTANTS w1, w2, a, b

TwoWorkers == {w1, w2}
TwoNames == {a, b}
NoNames == {}
SameTwice == <<{a}, {a}>>
SecondAdded == <<{a}, {a, b}>>

Occupied == INSTANCE AdapterRuntime WITH Desired <- SecondAdded, ForeignNames <- {b}

MCInit == (RuntimeInit /\ ~solo) \/ (Occupied!RuntimeInit /\ solo)

\* Bounds: where attempts overlap the target stays, and in the one process the
\* last thing that happens to it is a teardown.
Stays == target'.state = "active"
TornDownLast == target'.gen = MaxGeneration => target'.state = "tombstoned"

RaceNext == ~solo /\ RuntimeNext /\ Stays
SoloNext == solo /\ Occupied!RuntimeNext /\ TornDownLast

MCNext == RaceNext \/ SoloNext

MCSpec == MCInit /\ [][MCNext]_runtimeVars

WorkerSymmetry == Permutations(TwoWorkers)
=============================================================================
