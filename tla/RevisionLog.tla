----------------------------- MODULE RevisionLog -----------------------------
(***************************************************************************)
(* What the revision history of a project promises its readers: every     *)
(* environment has its own log of immutable revisions, numbered without   *)
(* gaps from 1; one commit adds one revision to each environment it       *)
(* touches; and the log of a deleted environment never starts again.      *)
(***************************************************************************)
EXTENDS Naturals, Sequences

CONSTANT Envs

VARIABLES
  history,  \* the revisions of each environment, oldest first
  dropped   \* the environments that were deleted

Init ==
  /\ dropped = {}
  /\ \A e \in Envs : Len(history[e]) <= 1

\* One transaction publishes one new revision in each environment of es.
Commit(es) ==
  /\ es # {}
  /\ es \cap dropped = {}
  /\ \A e \in es :
       /\ Len(history'[e]) = Len(history[e]) + 1
       /\ \A i \in 1..Len(history[e]) : history'[e][i] = history[e][i]
  /\ \A e \in Envs \ es : history'[e] = history[e]
  /\ UNCHANGED dropped

Drop(e) ==
  /\ e \notin dropped
  /\ history' = [history EXCEPT ![e] = << >>]
  /\ dropped' = dropped \cup {e}

Next == (\E es \in SUBSET Envs : Commit(es)) \/ (\E e \in Envs : Drop(e))

Spec == Init /\ [][Next]_<<history, dropped>>

=============================================================================
