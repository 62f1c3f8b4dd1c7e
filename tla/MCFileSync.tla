----------------------------- MODULE MCFileSync -----------------------------
(***************************************************************************)
(* Three situations, chosen at the start: `faults', a directory claimed    *)
(* for the first time with crashes and power losses; `user', a directory   *)
(* in which a user keeps files of their own; `settles', one fault under    *)
(* the policy prune, after which the client must catch up.                 *)
(***************************************************************************)
EXTENDS FileSync

CONSTANTS a, b

VARIABLE situation

TwoNames == {a, b}

\* The third revision renders to the same bytes as the first.
Values == <<1, 2, 1>>

FirstClaim == INSTANCE FileSync WITH FirstUse <- TRUE, UserEdits <- FALSE
Undisturbed == INSTANCE FileSync WITH UserEdits <- FALSE

MCVars == <<vars, situation>>

MCInit ==
  \/ situation = "faults" /\ FirstClaim!Init /\ config.files = TwoNames
  \/ situation = "user" /\ Init /\ config.files = TwoNames
  \/ situation = "settles" /\ Init /\ config.onRemoved = "prune"

FaultsNext ==
  /\ situation = "faults" /\ FirstClaim!Next
  /\ nextGen' <= 4 /\ config'.onRemoved = config.onRemoved
  /\ UNCHANGED situation

UserNext ==
  /\ situation = "user" /\ Next
  /\ nextGen' <= 3 /\ faults' <= 1 /\ reader' = reader
  /\ UNCHANGED situation

SettlesNext ==
  /\ situation = "settles" /\ Undisturbed!Next
  /\ config'.onRemoved = "prune" /\ faults' <= 1
  /\ UNCHANGED situation

MCNext == FaultsNext \/ UserNext \/ SettlesNext

\* The fairness of FairSpec.
MCSpec ==
  /\ MCInit /\ [][MCNext]_MCVars
  /\ WF_MCVars(situation = "settles" /\ PassStep /\ UNCHANGED situation)
  /\ SF_MCVars(situation = "settles" /\ StartPass(TRUE) /\ UNCHANGED situation)

(* CatchesUp, where every situation a pass can be in admits it: once       *)
(* faults, edits and revisions cease, the client catches up.               *)
SettlesCatchUp == situation = "settles" => CatchesUp
=============================================================================
