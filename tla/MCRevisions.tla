----------------------------- MODULE MCRevisions -----------------------------
(***************************************************************************)
(* Two situations, chosen at the start: `writes', two principals' drafts,  *)
(* restores and direct writes under schema changes; `parameters', the same *)
(* with fewer of them and with parameters declared and deleted underneath. *)
(***************************************************************************)
EXTENDS Revisions, TLC

CONSTANTS p1, p2, e1, e2, k1, k2, g1, v1, q1, q2

VARIABLE situation

TwoPrincipals == {p1, p2}
TwoEnvs == {e1, e2}
OneEnv == {e1}
TwoKeys == {k1, k2}
OneKey == {k1}
OneGroup == {g1}
OneValue == {v1}
AnyValues == SUBSET Values

\* The one value refers to one of two parameters.
TwoParams == {q1, q2}
ToOneParam == [v \in Values |-> {q1}]

Writes == INSTANCE Revisions WITH Params <- {}
Parametrized == INSTANCE Revisions WITH MaxOps <- 2

MCVars == <<rvars, situation>>

MCInit == situation \in {"writes", "parameters"} /\ Init

\* Bound: without parameters a key's class makes no difference.
SameClasses == catalogue'.config = catalogue.config

WritesNext == situation = "writes" /\ Writes!Next /\ SameClasses /\ UNCHANGED situation
ParametersNext == situation = "parameters" /\ Parametrized!Next /\ UNCHANGED situation

MCNext == WritesNext \/ ParametersNext

MCSpec == MCInit /\ [][MCNext]_MCVars

Symmetries == Permutations(TwoPrincipals)
=============================================================================
