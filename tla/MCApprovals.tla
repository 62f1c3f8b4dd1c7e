----------------------------- MODULE MCApprovals -----------------------------
(***************************************************************************)
(* Four situations, chosen at the start: `edits', drafts edited and        *)
(* published beside a request by two principals; `drift', a request whose  *)
(* environment, schema and clock move on; `scopes', one principal with two *)
(* environments under their own, project-wide or disabled policies;        *)
(* `imports', the same policies before imports and copies of two keys.     *)
(***************************************************************************)
EXTENDS Approvals

CONSTANTS p1, p2, e1, e2, k1, k2, v1

VARIABLE situation

TwoPrincipals == {p1, p2}
TwoEnvs == {e1, e2}
OneEnv == {e1}
OneKey == {k1}
TwoKeys == {k1, k2}
OneValue == {v1}
NoGroups == {}

AlwaysFree == {"free"}
AllValues == {OneValue}

\* Parameters matter to what a publish accepts, not to the gate before it.
NoParams == {}
NoRefs == [v \in Values |-> {}]

\* A policy one other person must approve, and one that both must approve and
\* either may bypass.
TwoPolicies ==
  { [enabled |-> TRUE, approvers |-> {p1, p2}, min |-> 1, self |-> FALSE, bypassers |-> {}],
    [enabled |-> TRUE, approvers |-> {p1, p2}, min |-> 2, self |-> TRUE, bypassers |-> {p1, p2}] }

\* One person who may approve their own changes.
SoloPolicies ==
  {[enabled |-> b, approvers |-> {p1}, min |-> 1, self |-> TRUE, bypassers |-> {}] : b \in BOOLEAN}
EveryPolicy == TwoPolicies \cup SoloPolicies

Edits == INSTANCE Approvals WITH
  PolicyInputs <- TwoPolicies, InitialEnvs <- OneEnv, InitialKeys <- OneKey,
  MaxOps <- 2, MaxRevision <- 2, MaxSchema <- 1, MaxPolicies <- 1, MaxVersion <- 2, MaxNow <- 1
Drift == INSTANCE Approvals WITH
  PolicyInputs <- TwoPolicies, InitialEnvs <- OneEnv, InitialKeys <- OneKey,
  MaxOps <- 1, MaxRevision <- 3, MaxSchema <- 2, MaxPolicies <- 1, MaxVersion <- 2, MaxNow <- 3
TwoScopes == INSTANCE Approvals WITH
  PolicyInputs <- SoloPolicies, InitialKeys <- OneKey, MaxOps <- 2, MaxRevision <- 3,
  MaxSchema <- 1, MaxPolicies <- 2, MaxVersion <- 1, MaxNow <- 0
Imports == INSTANCE Approvals WITH
  PolicyInputs <- SoloPolicies, MaxOps <- 2, MaxRevision <- 3,
  MaxSchema <- 1, MaxPolicies <- 2, MaxVersion <- 2, MaxNow <- 0

MCVars == <<vars, situation>>

MCInit ==
  \/ situation = "edits" /\ Edits!ApprovalInit
  \/ situation = "drift" /\ Drift!ApprovalInit
  \/ situation = "scopes" /\ TwoScopes!ApprovalInit
  \/ situation = "imports" /\ Imports!ApprovalInit

\* Bounds: the one environment and the one key, the same classes, since without
\* parameters they make no difference, the one principal, no drafts.
OnlyOneEnv == live' \subseteq OneEnv /\ catalogue'.declared \subseteq OneKey
SameClasses == catalogue'.config = catalogue.config
OnlyOneOwner == p2 \in publishers' /\ \A d \in drafts' : d.owner = p1
NoDrafts == drafts' = {} /\ publishers' = TwoPrincipals

EditsNext == situation = "edits" /\ Edits!ApprovalNext /\ OnlyOneEnv /\ UNCHANGED situation
DriftNext ==
  situation = "drift" /\ Drift!ApprovalNext /\ OnlyOneEnv /\ SameClasses /\ UNCHANGED situation
ScopesNext == situation = "scopes" /\ TwoScopes!ApprovalNext /\ OnlyOneOwner /\ UNCHANGED situation
ImportsNext == situation = "imports" /\ Imports!ApprovalNext /\ NoDrafts /\ UNCHANGED situation

MCNext == EditsNext \/ DriftNext \/ ScopesNext \/ ImportsNext

\* The fairness of FairSpec.
MCSpec ==
  /\ MCInit /\ [][MCNext]_MCVars
  /\ WF_MCVars(situation = "drift" /\ Drift!Tick /\ UNCHANGED situation)
  /\ WF_MCVars(situation = "drift" /\ Drift!ExpireDue(now) /\ UNCHANGED situation)

(* RequestsExpire, where the clock goes far enough: a request that         *)
(* outlives its expiry is resolved in the end, an approved one too.        *)
RequestsExpireInTime == situation = "drift" => RequestsExpire
=============================================================================
