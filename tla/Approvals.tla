------------------------------ MODULE Approvals ------------------------------
(***************************************************************************)
(* Secret-change approvals (internal/service/approvals.go) on top of the  *)
(* publish pipeline: where a policy covers an environment, a publish only *)
(* creates a request that pins its selection; approvers vote on it; and   *)
(* the requester's merge, or a named bypasser's, publishes exactly that   *)
(* selection or invalidates the request.                                  *)
(*                                                                         *)
(* Each handler is one serializable transaction.  A handler that finds    *)
(* its request stale commits the invalidation and then refuses; any other *)
(* refusal leaves the state unchanged and is not a step.                  *)
(***************************************************************************)
EXTENDS Revisions

CONSTANTS
  AllEnvs,       \* the scope of a project-wide policy
  NoPolicy,
  PolicyInputs,  \* the contents a policy may be given
  TTL,           \* request_ttl_seconds of every policy
  MaxPolicies,   \* bound on policies ever created
  MaxVersion,    \* bound on the version of a policy
  MaxRequests,   \* bound on requests
  MaxNow         \* bound on the clock

ASSUME PolicyInputsAssumption ==
  PolicyInputs \subseteq
    [enabled : BOOLEAN, approvers : SUBSET Principals, min : Nat \ {0},
     self : BOOLEAN, bypassers : SUBSET Principals]
ASSUME ApprovalBoundsAssumption ==
  /\ TTL \in Nat \ {0} /\ MaxPolicies \in Nat /\ MaxVersion \in Nat
  /\ MaxRequests \in Nat /\ MaxNow \in Nat
ASSUME ScopeAssumption == AllEnvs \notin Envs

VARIABLES
  policies,    \* approval_policies: at most one per scope
  minted,      \* how many policies were ever created
  publishers,  \* the principals that hold publish now
  requests,    \* approval_requests, in order of creation
  votes,       \* approval_votes
  now

avars == <<policies, minted, publishers, requests, votes, now>>
vars == <<rvars, avars>>

Scopes == Envs \cup {AllEnvs}
Policies == [id : Nat, version : Nat, rule : PolicyInputs]
States ==
  {"open", "approved", "merged", "bypassed", "rejected", "expired", "invalidated", "deleted"}
Causes == {"", "policy_changed", "draft_edited", "env_advanced", "approver_removed"}
Requests ==
  [env : Envs, requester : Principals, sel : SUBSET Drafts, digest : Tokens,
   policy : Nat, version : Nat, expires : Nat, state : States, cause : Causes]
Votes == [request : Nat, voter : Principals, approve : BOOLEAN]

ApprovalTypeOK ==
  /\ policies \in [Scopes -> Policies \cup {NoPolicy}]
  /\ minted \in Nat
  /\ publishers \subseteq Principals
  /\ requests \in Seq(Requests)
  /\ votes \subseteq Votes
  /\ now \in Nat

ApprovalInit ==
  /\ Init
  /\ policies = [s \in Scopes |-> NoPolicy]
  /\ minted = 0
  /\ publishers = Principals
  /\ requests = << >>
  /\ votes = {}
  /\ now = 0

-----------------------------------------------------------------------------
(* Policies.                                                               *)

CreatePolicy(s, rule) ==
  /\ minted < MaxPolicies
  /\ s \in live \cup {AllEnvs}
  /\ policies[s] = NoPolicy
  /\ policies' = [policies EXCEPT ![s] = [id |-> minted + 1, version |-> 1, rule |-> rule]]
  /\ minted' = minted + 1
  /\ UNCHANGED <<rvars, publishers, requests, votes, now>>

\* The version moves; the requests pinned to the old one are left as they are.
UpdatePolicy(s, rule) ==
  /\ policies[s] # NoPolicy /\ policies[s].version < MaxVersion
  /\ policies' = [policies EXCEPT ![s].version = @ + 1, ![s].rule = rule]
  /\ UNCHANGED <<rvars, minted, publishers, requests, votes, now>>

DeletePolicy(s) ==
  /\ policies[s] # NoPolicy
  /\ policies' = [policies EXCEPT ![s] = NoPolicy]
  /\ UNCHANGED <<rvars, minted, publishers, requests, votes, now>>

\* Mutant: the project-wide policy is not consulted.
CoveringOwn(e) ==
  IF policies[e] # NoPolicy /\ policies[e].rule.enabled THEN policies[e] ELSE NoPolicy

\* CoveringPolicy: the environment's own enabled policy, then the project's.
Covering(e) ==
  LET on(s) == policies[s] # NoPolicy /\ policies[s].rule.enabled
  IN  IF on(e) THEN policies[e] ELSE IF on(AllEnvs) THEN policies[AllEnvs] ELSE NoPolicy

Covered(e) == Covering(e) # NoPolicy

-----------------------------------------------------------------------------
(* Requests.                                                               *)

\* Mutant: an expired request is still open to its requester.
ActiveUnlessRejected(r) == r.state \in {"open", "approved", "expired"}

\* isActiveRequest.
Active(r) == r.state \in {"open", "approved"}

\* The policy a request was created under, in the version it had then.
Pinned(r, pol) == pol # NoPolicy /\ pol.id = r.policy /\ pol.version = r.version

\* The pinned versions are still live, and the selection they close to.
Resolves(r) == r.sel \subseteq Own(drafts, r.requester)
Rebuilt(r) == Closure(drafts, r.requester, r.sel)

\* Mutant: the digest covers the changes only.
SameChanges(r) == Rebuilt(r) = r.digest.changes

\* The preview digest, recomputed over the current state, is the reviewed one.
SameDigest(r) == Token(Rebuilt(r)) = r.digest

\* Mutant: a cause the table's CHECK does not know.
DriftCauseSchema(r) ==
  IF Len(snaps[r.env]) # r.digest.base[r.env] THEN "env_advanced"
  ELSE IF catalogue.revision # r.digest.schema THEN "schema_changed" ELSE "draft_edited"

\* driftCause.
DriftCause(r) ==
  IF Len(snaps[r.env]) # r.digest.base[r.env] THEN "env_advanced" ELSE "draft_edited"

\* Mutant: a vote counts for good.
ApprovalsEver(i, pol, vs) == {v \in vs : v.request = i /\ v.approve}

\* countEligibleApprovals: the approvals of principals who are approvers and
\* hold publish now, the requester's only where self-approval is allowed.
EligibleApprovals(i, pol, vs) ==
  {v \in vs : /\ v.request = i /\ v.approve
              /\ v.voter \in pol.rule.approvers \cap publishers
              /\ v.voter = requests[i].requester => pol.rule.self}

Quorum(i, pol, vs) == Cardinality(EligibleApprovals(i, pol, vs)) >= pol.rule.min

Resolve(i, state, cause) ==
  requests' = [requests EXCEPT ![i].state = state, ![i].cause = cause]

\* commitInvalidation, with the refusal that follows it.
Invalidate(i, cause) ==
  /\ Resolve(i, "invalidated", cause)
  /\ UNCHANGED <<rvars, policies, minted, publishers, votes, now>>

-----------------------------------------------------------------------------
(* PublishPlanned with the approval gate.                                  *)

\* No environment of the selection is covered: the publish proceeds.
PublishUncovered(p, sel) ==
  /\ p \in publishers
  /\ \A e \in EnvsOf(sel) : ~Covered(e)
  /\ Publish(p, sel)
  /\ UNCHANGED avars

\* approvalCreateGate: a covered selection, of one environment, is pinned.
\* Freshness is not checked here.
RequestApproval(p, e, sel) ==
  /\ Len(requests) < MaxRequests
  /\ p \in publishers
  /\ sel # {} /\ sel \subseteq Own(drafts, p)
  /\ OneOwner(drafts, p, sel)
  /\ Previewed(Closure(drafts, p, sel))
  /\ EnvsOf(sel) = {e} /\ Covered(e)
  /\ requests' = Append(requests,
       [env |-> e, requester |-> p, sel |-> sel,
        digest |-> Token(Closure(drafts, p, sel)), policy |-> Covering(e).id,
        version |-> Covering(e).version, expires |-> now + TTL,
        state |-> "open", cause |-> ""])
  /\ UNCHANGED <<rvars, policies, minted, publishers, votes, now>>

\* A publish that names request i and whose caller p does not own every pinned
\* version: superseded, published, discarded, or somebody else's.
MergeUnresolved(p, i) ==
  /\ p \in publishers /\ Active(requests[i])
  /\ ~(requests[i].sel \subseteq Own(drafts, p))
  /\ Invalidate(i, "draft_edited")

\* A publish of request i whose versions resolve: the caller is the requester.
Named(i) ==
  LET r == requests[i] IN
    /\ r.requester \in publishers
    /\ r.sel # {} /\ Resolves(r) /\ OneOwner(drafts, r.requester, r.sel)

\* No policy covers the environment any more.
MergeUncovered(i) ==
  /\ Named(i) /\ Active(requests[i]) /\ ~Covered(requests[i].env)
  /\ Invalidate(i, "policy_changed")

\* A resolved request, where no policy covers the environment, is no more than
\* a name for its selection.
PublishResolved(i) ==
  /\ Named(i) /\ ~Active(requests[i]) /\ requests[i].state # "deleted"
  /\ ~Covered(requests[i].env)
  /\ CommitSelection(Rebuilt(requests[i]))
  /\ UNCHANGED avars

\* The checks approvalMergeGate and approvalBypassGate share.
Gate(i) ==
  LET r == requests[i] IN
    Named(i) /\ Active(r) /\ Covered(r.env) /\ now < r.expires

MergeStalePolicy(i) ==
  /\ Gate(i) /\ ~Pinned(requests[i], Covering(requests[i].env))
  /\ Invalidate(i, "policy_changed")

Reviewable(i) == Gate(i) /\ Pinned(requests[i], Covering(requests[i].env))

MergeDrifted(i) ==
  /\ Reviewable(i) /\ ~SameDigest(requests[i])
  /\ Invalidate(i, DriftCause(requests[i]))

MergeQuorumLost(i) ==
  /\ Reviewable(i) /\ SameDigest(requests[i])
  /\ requests[i].state = "approved"
  /\ ~Quorum(i, Covering(requests[i].env), votes)
  /\ Invalidate(i, "approver_removed")

\* The reviewed selection is published and the request resolved.
CommitRequest(i, state) ==
  /\ CommitSelection(Rebuilt(requests[i]))
  /\ Resolve(i, state, "")
  /\ UNCHANGED <<policies, minted, publishers, votes, now>>

Merge(i) ==
  /\ Reviewable(i) /\ SameDigest(requests[i])
  /\ Quorum(i, Covering(requests[i].env), votes)
  /\ CommitRequest(i, "merged")

Bypass(i) ==
  /\ Reviewable(i) /\ SameDigest(requests[i])
  /\ requests[i].requester \in Covering(requests[i].env).rule.bypassers
  /\ CommitRequest(i, "bypassed")

-----------------------------------------------------------------------------
(* Approvals.Vote and ExpireDue.  Both read the clock before their         *)
(* transaction: at is that reading.                                        *)

PolicyById(id) ==
  IF \E s \in Scopes : policies[s] # NoPolicy /\ policies[s].id = id
  THEN policies[CHOOSE s \in Scopes : policies[s] # NoPolicy /\ policies[s].id = id]
  ELSE NoPolicy

Votable(v, i, at) ==
  v \in publishers /\ Active(requests[i]) /\ at <= now /\ at < requests[i].expires

VoteStalePolicy(v, i, at) ==
  /\ Votable(v, i, at)
  /\ ~Pinned(requests[i], PolicyById(requests[i].policy))
  /\ Invalidate(i, "policy_changed")

MayVote(v, i, approve, at) ==
  LET r == requests[i]
      pol == PolicyById(r.policy) IN
    /\ Votable(v, i, at) /\ Pinned(r, pol)
    /\ v \in pol.rule.approvers
    /\ approve /\ v = r.requester => pol.rule.self

\* requestPreviewDigest: the selection no longer resolves or is another one.
VoteDrifted(v, i, approve, at) ==
  LET r == requests[i] IN
    /\ MayVote(v, i, approve, at)
    /\ Resolves(r) => OneOwner(drafts, r.requester, r.sel) /\ ~SameDigest(r)
    /\ Invalidate(i, DriftCause(r))

CastVote(v, i, approve, at) ==
  LET r == requests[i]
      cast == votes \cup {[request |-> i, voter |-> v, approve |-> approve]} IN
    /\ MayVote(v, i, approve, at)
    /\ Resolves(r) /\ OneOwner(drafts, r.requester, r.sel) /\ SameDigest(r)
    /\ \A x \in votes : ~(x.request = i /\ x.voter = v)
    /\ votes' = cast
    /\ Resolve(i, CASE ~approve -> "rejected"
                   [] approve /\ Quorum(i, PolicyById(r.policy), cast) -> "approved"
                   [] OTHER -> r.state, "")
    /\ UNCHANGED <<rvars, policies, minted, publishers, now>>

\* Mutant: only requests without a quorum are swept.
DueOpen(r, at) == r.state = "open" /\ r.expires < at

\* SelectExpired.
Due(r, at) == Active(r) /\ r.expires < at

ExpireDue(at) ==
  /\ at <= now
  /\ \E i \in DOMAIN requests : Due(requests[i], at)
  /\ requests' = [i \in DOMAIN requests |->
       IF Due(requests[i], at) THEN [requests[i] EXCEPT !.state = "expired"] ELSE requests[i]]
  /\ UNCHANGED <<rvars, policies, minted, publishers, votes, now>>

-----------------------------------------------------------------------------
(* The rest of the system.                                                 *)

\* A role or rule change gives or takes the publish authority of p.
SetAuthority(p) ==
  /\ publishers' = IF p \in publishers THEN publishers \ {p} ELSE publishers \cup {p}
  /\ UNCHANGED <<rvars, policies, minted, requests, votes, now>>

Tick == now < MaxNow /\ now' = now + 1 /\ UNCHANGED <<rvars, policies, minted, publishers, requests, votes>>

\* Copy and import are refused where a policy covers a destination; declare is
\* not, and neither is any schema change.
WriteUncovered ==
  /\ LET open == {e \in live : ~Covered(e)} IN Importing(open) \/ Copying(open)
  /\ UNCHANGED avars

Ungated ==
  /\ \/ Drafting
     \/ Structure
     \/ \E es \in SUBSET live, k \in Keys, v \in Values : Declare(es, k, v)
  /\ UNCHANGED avars

\* Requests and votes go with their environment; its policy stays.
DeleteCovered(e) ==
  /\ DeleteEnvironment(e)
  /\ requests' = [i \in DOMAIN requests |->
       IF requests[i].env = e THEN [requests[i] EXCEPT !.state = "deleted"] ELSE requests[i]]
  /\ votes' = {v \in votes : requests[v.request].env # e}
  /\ UNCHANGED <<policies, minted, publishers, now>>

ApprovalNext ==
  \/ \E s \in Scopes, rule \in PolicyInputs : CreatePolicy(s, rule) \/ UpdatePolicy(s, rule)
  \/ \E s \in Scopes : DeletePolicy(s)
  \/ \E p \in Principals : \E sel \in SUBSET Own(drafts, p) :
       PublishUncovered(p, sel) \/ \E e \in live : RequestApproval(p, e, sel)
  \/ \E i \in DOMAIN requests :
       \/ MergeUncovered(i) \/ PublishResolved(i) \/ MergeStalePolicy(i) \/ MergeDrifted(i)
       \/ MergeQuorumLost(i) \/ Merge(i) \/ Bypass(i)
       \/ \E p \in Principals :
            \/ MergeUnresolved(p, i)
            \/ \E at \in 0..MaxNow :
                 \/ VoteStalePolicy(p, i, at)
                 \/ \E approve \in BOOLEAN : VoteDrifted(p, i, approve, at) \/ CastVote(p, i, approve, at)
  \/ \E at \in 0..MaxNow : ExpireDue(at)
  \/ \E p \in Principals : SetAuthority(p)
  \/ Tick
  \/ WriteUncovered
  \/ Ungated
  \/ \E e \in Envs : DeleteCovered(e)

ApprovalSpec == ApprovalInit /\ [][ApprovalNext]_vars

\* The expiry sweep is a scheduled job that runs every hour.
FairSpec == ApprovalSpec /\ WF_vars(Tick) /\ WF_vars(ExpireDue(now))

-----------------------------------------------------------------------------
(* Properties.                                                             *)

\* The requests a step resolves to one of the states ss.
Resolved(ss) ==
  {i \in DOMAIN requests : requests[i].state \notin ss /\ requests'[i].state \in ss}

\* What is merged or bypassed is what was reviewed: exactly the drafts pinned
\* when the request was created, over the revision and the schema it was
\* created on, and under the policy version it was created under, whatever
\* edits, publishes, group and policy changes came in between
\* (approvals.go, approvalMergeGate and approvalBypassGate).
MergedIsReviewed ==
  [][\A i \in Resolved({"merged", "bypassed"}) :
       LET r == requests[i] IN
         /\ drafts \ drafts' = r.digest.changes
         /\ Len(snaps[r.env]) = r.digest.base[r.env]
         /\ catalogue.revision = r.digest.schema
         /\ \E s \in {r.env, AllEnvs} : policies[s] # NoPolicy /\ policies[s].id = r.policy
              /\ policies[s].version = r.version /\ policies[s].rule.enabled]_vars

\* At the moment of a merge enough principals who approved it are approvers of
\* the policy and hold publish, the requester not among them unless the policy
\* allows it, and nobody rejected it: a vote outlived by its voter's authority
\* does not count (approvals.go, countEligibleApprovals).
MergedWithQuorum ==
  [][\A i \in Resolved({"merged"}) : \E s \in Scopes :
       LET rule == policies[s].rule
           who == {p \in rule.approvers \cap publishers :
                     /\ [request |-> i, voter |-> p, approve |-> TRUE] \in votes
                     /\ p = requests[i].requester => rule.self} IN
         /\ policies[s] # NoPolicy /\ policies[s].id = requests[i].policy
         /\ Cardinality(who) >= rule.min
         /\ ~\E v \in votes : v.request = i /\ ~v.approve]_vars

\* A resolved request stays as it was resolved and takes no more votes, although
\* the statement that moves its state has no guard (approvals.sql,
\* UpdateApprovalRequestState): a late vote, merge or sweep cannot reopen it.
ResolvedStays ==
  [][\A i \in DOMAIN requests :
       requests[i].state \notin {"open", "approved"} =>
         /\ requests'[i].state \in {requests[i].state, "deleted"}
         /\ \A v \in votes' \ votes : v.request # i]_vars

\* The record of a request is sound (UpdateApprovalRequestState has no guard on
\* the old state): well formed, and final once it is resolved.
RequestsSound == []ApprovalTypeOK /\ ResolvedStays

\* An enabled policy, of the environment or of the project.
Guarded(e) == \E s \in {e, AllEnvs} : policies[s] # NoPolicy /\ policies[s].rule.enabled

\* All that a step writes is one value, under one key.
WritesOneValue ==
  \E k \in Keys, v \in Values : \A e \in live, x \in Keys :
    cell'[e][x] # cell[e][x] => x = k /\ cell'[e][x].value = v

\* A draft of a guarded environment is published only as part of a request that
\* the same step merges or bypasses (publish.go, approvalGate), and no import
\* or copy gets values past the gate: without such a request a guarded
\* environment changes by one declared value, which declare does not ask for
\* (values.go, republishAuthorized), or together with the schema.
CoveredWritesReviewed ==
  [][/\ IsPublish => \A d \in drafts \ drafts' : Guarded(d.env) =>
          \E i \in Resolved({"merged", "bypassed"}) : d \in requests[i].digest.changes
     /\ catalogue' = catalogue => \A e \in live : Guarded(e) /\ cell'[e] # cell[e] =>
          WritesOneValue \/ \E i \in Resolved({"merged", "bypassed"}) : requests[i].env = e]_vars

\* Every request that outlives its expiry is resolved in the end, approved ones
\* that nobody merges too (approvals.go, ExpireDue).
RequestsExpire ==
  \A i \in 1..MaxRequests :
    (i \in DOMAIN requests /\ now > requests[i].expires)
      ~> (i \in DOMAIN requests /\ requests[i].state \notin {"open", "approved"})

\* A covered environment's values change only through a merged or bypassed
\* request (publish.go, republishAuthorized).
CoveredOnlyReviewed ==
  [][\A e \in live \cap live' : Covered(e) /\ cell'[e] # cell[e] =>
       \E i \in Resolved({"merged", "bypassed"}) : requests[i].env = e]_vars

\* A request is invalidated for edited drafts only when the pinned drafts were
\* superseded or discarded, or other drafts joined their groups (publish.go,
\* PublishPlanned; approvals.go, driftCause).
DraftEditedMeansEdited ==
  [][\A i \in Resolved({"invalidated"}) :
       requests'[i].cause = "draft_edited" =>
         ~Resolves(requests[i]) \/ Rebuilt(requests[i]) # requests[i].digest.changes]_vars

\* No request stays active under a version its policy has left (approvals.sql,
\* UpdateApprovalPolicy).
UpdateInvalidates ==
  \A i \in DOMAIN requests, s \in Scopes :
    Active(requests[i]) /\ policies[s] # NoPolicy /\ policies[s].id = requests[i].policy =>
      policies[s].version = requests[i].version
=============================================================================
