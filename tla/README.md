# Formal models of Hikyo

Hikyo keeps the configuration and the secrets of a project: principals stage drafts, publish them as
immutable revisions per environment, review them where a policy says so, and workloads fetch the newest
(or a pinned) revision. Several replicas may serve one datastore; one of them at a time runs the
background jobs. Values are sealed under a hierarchy of keys that rotate while the system runs; they
leave it through adapters to other systems, through files on a host and as short-lived database logins.
This directory holds TLA+ models of the parts of that system where the order of steps matters, the TLC
instances that check them, and TLAPS proofs of the main results for every value of the parameters. Paths
below are relative to the repository root (`src/` in `PROJECT.json`); `service/` and `store/` stand for
`internal/service/` and `internal/store/`.

Contents: [inventory](#1-inventory) · [modules and the code](#2-modules-and-the-code) ·
[runs](#3-runs) · [fairness](#4-fairness) · [proofs](#5-proofs) · [disagreements](#6-where-the-code-and-its-text-disagree) ·
[abstractions](#7-abstractions-and-what-they-cost) · [not modelled](#8-not-modelled) · [plan](#9-plan)

To repeat a check: `tlc -config MCRevisions.cfg MCRevisions` for a run, `tlapm RevisionsProofs.tla` for a proof
module.

## 1. Inventory

**High-availability scheduler and singleton lease** (`internal/app/scheduler.go`,
`store/coordination*.go`, `store/tx/tx.go`).
*State:* one `singleton_leases` row (owner, fence token, expiry), and in each replica the loop variables of
`runHA` (leader, fence, unconfirmed claim, own deadline, the running term).
*Operations:* a heartbeat of several datastore round trips (read the clock; renew; confirm a claim whose
answer was lost; claim; start a term), shutdown with release, and the jobs of a term, whose transactions
evaluate `GuardSingletonLease` and keep the row locked until they end.
*Hard:* a clock reading is used one round trip later; a commit may be applied although its answer is an
error; a paused process wakes after its successor has started; a node regains the lease while its previous
term still drains.
*Correct when:* only the lease's owner leads before its own deadline; no write of an old term commits
after a write of a newer one; a node never runs two terms; a fence token never comes back.

**Drafts, publishing and materialization** (`service/values.go`, `import.go`, `rollback.go`,
`publish.go`, `group_index.go`, `store/repos_values.go`, `repos_revisions.go`).
*State:* `pending_changes` (one draft per owner, environment and key), `value_entries` (the published
cells), `snapshots` (the revisions).
*Operations:* stage, unset, restore with an impact preview, publish, declare, import, copy.
*Interaction:* every path that moves a cell or the schema ends in the same materialization, in its own
transaction; readers only ever see snapshots.
*Hard:* a draft is published long after it was staged, and six other paths may have moved its cell; a key
group is published as a whole although its members and its drafts change underneath; a restore is previewed
on one state and confirmed on another.
*Correct when:* no update is lost; what is delivered is what is published and legal under the schema
*now*; a group is never split; history is append-only.

**Key catalogue and environments** (`service/keys.go`, `hierarchy.go`, `parameters.go`,
`budget.go`, `internal/schema/presence.go`).
*State:* declared keys with group, class (config or secret), presence rule and legal values; the schema revision; the live
environments and the parameters each declares.
*Operations:* create, declare, group, rename, reclassify, edit metadata, delete keys; create (and clone),
rename, parametrize, delete environments.
*Hard:* some operations fan out to every environment and others only move the schema revision; a change of parameters binds
the next publication only, so what is delivered and what may be published are judged by different declarations; deletions
must take the drafts with them.

**Change approvals** (`service/approvals.go`, the gates in `publish.go`).
*State:* policies per environment or project, requests pinned to a selection, its preview digest and a policy
version, votes.
*Operations:* policy create, update, delete; request; vote; merge; bypass; expiry sweep.
*Interaction:* the gate sits in `PublishPlanned`, copy and import; merge and bypass run the publish pipeline;
deleting an environment takes its requests; the sweep is a job of the scheduler.
*Hard:* between review and merge the drafts, the group, the schema, the environment, the policy and the
approvers' authority may all move; a refused merge still commits an invalidation; the clock is read before
the transaction.
*Correct when:* what is merged is what was reviewed, with a quorum that exists at that moment; nothing of a
covered environment is published past the gate; a resolved request stays resolved and every request ends.

**Adapter runtime** (`store/adapter_runtime.go`, `store/repos_adapters.go`, `internal/adapter`,
`internal/adapter/forgejo`).
*State:* a target with its generation, active job and converged revision; the job queue with leases; the
journal of intents and outcomes; a ledger of which names are reserved, dispatched, owned or released; what the
provider holds.
*Operations:* publish, manual sync, pause, resume, credential replacement, two teardowns; claim, load, list,
reserve, record intent, send, record outcome, settle.
*Hard:* a worker dies between a request and its outcome; a job lease and a provider lease lapse separately;
a superseded attempt goes on beside its successor; a request without an answer may or may not have been applied; somebody
else adds names at the destination after it was listed.
*Correct when:* one live request per target; no older value over a newer one; converged means delivered; a
scrub leaves nothing of ours; nobody else's names are touched.

**Pins and snapshot retention** (`service/pins.go`, `retention.go`, `store/repos_retention.go`).
*State:* snapshots with or without payload, pins with an expiry, the organisation's cap and the project's
override, the slots the instance's self-configuration runs from.
*Operations:* set, renew and release a pin; both policies; the chunked sweep; publish; environment deletion.
*Hard:* a chunk judges by a clock reading from before its transaction; policies are lowered and raised in any
order by different people; what a release announces is computed by other code than the sweep.
*Correct when:* what a workload may fetch, or the instance runs from, is never collected; the announcement is
right; every sweep ends.

**Key rotation and re-encryption** (`service/rotation.go`, `reencrypt.go`, `fence.go`,
`internal/crypto/keyring.go`, `store/keys_mutations.go`).
*State:* DEK versions per scope with their state, ciphertext rows, each node's cached version set; master-key
wrappers per root epoch, tier-3 keys under a master, each process's held masters.
*Operations:* rotate-dek, the fenced write, the re-encryption walk with retirement, the HA reload;
rotate-master-key; prepare, install and finalize of rotate-root-key; tier-3 creation.
*Hard:* sealers are built before the transaction that uses them; caches on other nodes; adoption in memory
follows a commit whose answer may be lost; a root rotation spans processes and restarts.
*Correct when:* no ciphertext stays under a retired version; a refused writer recovers; every key is under an
active master; the installed root boots after a crash anywhere.

**File sync** (`internal/filesync/publish.go`, `internal/cli/file_sync.go`).
*State:* the destination directory (generations, the `current` link, the links of the names, the binding
record), what of it is on disk, the client's cursor and snapshot.
*Operations:* one pass: claim, recover, stage, sync, retain, swap, link, prune, collect, save.
*Hard:* a stop, an I/O error or a power loss between any two of these; readers that resolved `current` before a swap;
a person who uses the same directory; configuration edits between a failed pass and its retry.
*Correct when:* readers always have a complete generation; files of others are kept; a pass that claims
"current" is right; the client catches up.

**Dynamic secrets** (`service/dynamic.go`, `dynamic_worker.go`, `store/dynamic.go`, `dynamic_runtime.go`,
`internal/dynamic/postgres`).
*State:* lease rows (state, due time, claim, recorded effect), the roles at the provider, mint requests and
sweeps in flight, the provider's admin credential.
*Operations:* mint, renew, revoke, settle; claim, intent, provider call, settlement; credential revocation and
replacement; provider deletion.
*Hard:* the provider call is outside every transaction; requests arrive while a sweep holds the lease; a
process dies with a role created and nothing recorded.
*Correct when:* a lease that is over has no role; a revocation is not undone; every role goes.

**MCP admission** (`store/coordination.go`, `service/mcp_admission.go`).
*State:* claims with a lapse in three dimensions (principal, organisation, instance), a rate bucket per principal.
*Operations:* acquire, release, lapse, refill.
*Hard:* `now()` is the start of a transaction that then waits for its lock; callers crash; a release fails.
*Correct when:* running calls and bursts stay bounded; capacity comes back.

**Time-bound access** (`service/access.go`, `store/access.go`).
*State:* policies in two slots (environment, project), requests with a pinned policy version, votes, grant rows,
emergency lists.
*Operations:* policy create, update, delete; file, vote, cancel, revoke, emergency access, expiry sweep.
*Hard:* votes, revocations and the sweep race; standing is lost, regained or lent between votes; an emergency list is widened in
several harmless-looking updates.
*Correct when:* rows and requests agree; a grant has its quorum at that moment; emergency access confers nothing
a manager could not; all of it ends.

`PROJECT.json` lists all 32 components with their files, the ones left out included, and 40 hazards at
their lines, each with the property that would catch it going wrong.

## 2. Modules and the code

| Module | Role |
|---|---|
| `FencedLog` | abstract: writes appended under a token that only grows |
| `SchedulerLease`, `SchedulerLeaseProofs` | `runHA`, the lease row and the jobs of a term; implements `FencedLog` |
| `RevisionLog` | abstract: one append-only log per environment, ended for good by deletion |
| `Revisions`, `RevisionsProofs` | drafts, cells, snapshots, catalogue, environments of one project; implements `RevisionLog` |
| `Approvals` | extends `Revisions` with policies, requests, votes and the gates; proofs in `RevisionsProofs` |
| `AdapterRuntime`, `DeliveryProofs` | one provider target: queue, journal, ledger, provider |
| `SnapshotRetention`, `RetentionProofs` | pins, policies, the sweep |
| `Reencryption`, `RetentionProofs` | the DEK versions of one scope: rotation, fenced writes, walk, retirement |
| `KeyHierarchy`, `KeyHierarchyProofs` | masters and roots above them |
| `FileSync`, `DeliveryProofs` | the file-sync client and its directory |
| `DynamicLeases`, `DynamicLeasesProofs` | dynamic leases and the roles behind them |
| `McpAdmission`, `McpAdmissionProofs` | claims and buckets |
| `AccessGrants`, `AccessGrantsProofs` | time-bound access to one environment |
| `MC…` | the instances TLC checks, one per module |

`PROJECT.json` maps each definition to the lines it stands for. The correspondence in short:

**SchedulerLease.** `pc[n]` is where the heartbeat of node `n` stands; `leader`, `fence`, `unconfirmed`,
`expiresAt`, `termDone` are the variables of `runHA` of the same names; `now` is the reading of
`ReadClock`, which the later steps of that heartbeat use although `clock` has moved. A failed round trip has two
outcomes, applied and not applied (`RenewLost`, `ConfirmFailed`, `ClaimAmbiguous`). `job` is the one open job
transaction, which holds the row lock, so lease statements wait (`Unlocked`). Cancelling a term
does not end it: `terms` keeps its goroutine until `TermExit`, and its jobs may still begin. `Crash` and the
two ends of a shutdown lose the memory of the process and the open transaction; the row stays.

**Revisions.** An entry id is modelled by the number of the operation that minted it; the entry a draft becomes
keeps the draft's number, as `putCell` keeps its id. `Materialize` is validation, cells, snapshots and
catalogue in one step. `Publish` is `PublishPlanned`: resolve the versions, close over the groups,
refuse a group with two owners, demand a preview token when a restored draft is in the selection,
check freshness, materialize, discard the drafts. `Restore` stages the difference to an old revision and hands
out a token over the closed selection, the base revisions and the schema revision. `WriteThrough` is the
common end of declare, import and copy. `FanOut` is a schema change that validates and materializes every
environment; `NextSchema` one that only moves the schema revision. `SetParameter` is of the second kind: it changes what the
environment declares and delivers nothing. A snapshot captures the declarations of its publication (`params`), and
`LegalValue` is `validateValueWithParameters`: under any declarations a config value that refers to parameters (`Refs`) is a
template, which may refer only to declared ones; every other value is a literal, which the schema must allow. So
`DeliveredValid` judges each environment by the catalogue as it is now and by the parameters its newest snapshot captured.

**Approvals.** One action per outcome of a handler. A handler that finds its request stale commits the
invalidation and then refuses, so each such path is an action (`MergeUnresolved`, `MergeUncovered`,
`MergeStalePolicy`, `MergeDrifted`, `MergeQuorumLost`, `VoteStalePolicy`, `VoteDrifted`). Votes and sweeps take
a clock reading `at` that may be older than `now`. `publishers` is who holds publish now;
any rule or role change may move it (`SetAuthority`).

**AdapterRuntime.** `worker[w]` is where an attempt stands; every transaction of it is an action, and between
any two of them it may crash, its leases may lapse and the target may be superseded. A request sits on the
`wire` until it is applied, refused or given up; it is applied only while its provider lease lives, which is what
`docs/handoff/157-multi-target-sync.md:120` leaves as the residual assumption. No production
caller of `AdapterRuntime.Enqueue` exists, so jobs come from publish, sync and teardown only. `solo` is chosen at the
start and never changes: where several nodes deliver, attempts overlap; one process runs one attempt after the other
(`Worker.Run`), so there at most one worker is busy (`OneAttempt`). `SomebodyAdds` puts a name at the destination at any
time; it is `Late` where the runtime already treats the name as free or as its own (`Exposed`: a claim as written, a live
request, or an attempt past its one listing) and `Foreign` otherwise. A request is create-or-update and replaces either.
A scrub whose credential is dead releases what it claimed (`DeadCredential`).

**SnapshotRetention.** A payload is `present` or collected. `SweepChunk(at)` is one transaction of the sweep with
the reading `at`; the order within a batch is left open. `Consequence` is what `pins.go` announces,
`Eligible` what the sweep's query selects. The instance's own project admits no service accounts, hence no pins.

**Reencryption.** All tables of a scope are one ordered set of rows, as the walk pages them. A `writer` has
sealed and not committed; `rot`, `walk` and `reload` are a rotation, a walk and an HA reload between their
transactions. A cache hit is trusted on a single node and revalidated under `HA`.

**KeyHierarchy.** Key material is who minted it and when, so two masters of one version are different. A wrapper is
a master under a root epoch. `FullStop` is the operating rule of the HA guide
(`docs/site/src/content/docs/docs/high-availability.mdx:117`): the root is rotated with one process running. A retired key's
row stays, and which master it is under no longer matters (`Retired`); a rotation is not refused because a key it re-wrapped was
retired meanwhile.

**FileSync.** `fsys` is the directory as processes see it, `disk` what survives a power loss; each sync copies
its part. Each rename, removal, symlink and directory sync of a pass is a step of `proc` (`RetainRename` and
`RetainSynced`, `Swap` and `SwapSynced`); the several calls that stage a generation, and the writing of a retained copy before
its rename, are one step each. Users put and take files between any two steps, so also between a check (`RetainCheck`,
`PruneCheck`) and the act that relies on it.

**DynamicLeases.** Deadlines are the time left. `mint[l]` is the request that creates a role, `worker[n]` a sweep
with a lease in hand; the provider call happens between two transactions of either. The constants `SlowMint`,
`SlowWorker`, `RevokeMinting` and `Custody` say what the environment may do; a suspension past a deadline counts
as a fault.

**McpAdmission.** `claim[c].left` counts from the `now()` of a transaction that may have waited up to `MaxWait` for its
lock; a call's own deadline starts before that, and is shorter than a claim's life (30 s against 35 s).
`debt` only observes what was admitted beyond the refills.

**AccessGrants.** One environment with its own and the project-wide policy slot. Every operation is one serializable
transaction with a clock reading up to `MaxLag` old. `holds` and `member` are changed by other
services, in both directions and at any time.

## 3. Runs

Eleven runs explore their instance completely; the twelfth states what a comment says and ends in a
counterexample (section 6). Several MC modules hold more than one *situation*: a variable chosen at
the start and never changed says which, and the action of each situation is the specification with bounds of its
own, so the state spaces add up and do not multiply. The situations share the properties.

| Run | Instance | Properties |
|---|---|---|
| `scheduler_lease` | 2 nodes, TTL 2, clock to 3, 3 fences, 2 writes; 1.37 M states | `LeadershipSafe`, `ImplementsFencedLog` |
| `revisions` | 2 principals, 2 environments and 2 keys (1 of each at first), 1 group, cap 2, 5 revisions, 3 schema revisions; *writes*: 3 id-minting operations; *parameters*: 2 of them, 2 parameters and a value that refers to one; 461 k | `ProjectConsistent`, `PublishesCurrent`, `GroupNotSplit`, `ImplementsRevisionLog` |
| `approvals` | *edits*: 2 principals and 2 operations beside a request; *drift*: schema, clock to 3; *scopes*: 2 environments, 2 policies, enabled or not; *imports*: 2 keys imported and copied under them; 644 k | `RequestsSound`, `MergedIsReviewed`, `MergedWithQuorum`, `CoveredWritesReviewed`, `RequestsExpireInTime` |
| `adapter_runtime` | *race*: 2 workers, 2 revisions of one name; *solo*: one attempt at a time, a second name that somebody else may add, and a teardown; 3 generations, 2 effects; 1.66 M | `QueueSound`, `CustodyKept`, `NothingGoesBack`, `ReportsAreTrue`, `ForeignUntouched` |
| `retention` | a project with 2 workloads, or the instance's own; 2 policies, 3 revisions, clock to 3, batch 1; 175 k | `RetentionSound`, `ConsequenceAgrees`, `SweepEnds` |
| `reencryption` | 2 HA nodes, one scope of a project (2 rows, 3 versions) or the instance (1 row, 2 versions), lost answers; 262 k | `KeysCover`, `FenceClearsHere` |
| `key_hierarchy` | 2 processes, 3 keys, 3 master versions, 3 root epochs, lost answers; 1.25 M | `MasterCovers`, `InstalledRootBoots`, `AdoptingUnwraps` |
| `file_sync` | 2 names; *faults*: first claim, 4 generations, 2 stops or power losses; *user*: somebody else's files at any time, all policies; *settles*: one fault, under fairness; 1.0 M | `ReadersSafe`, `CurrentClaimHolds`, `NoNameLost`, `FinishLeavesTwo`, `ForeignKept`, `SettlesCatchUp` |
| `dynamic_leases` | 2 nodes, 1 lease, 3 requests, 2 faults, sweeps may outlive their claim, credential custody; 397 k | `RowsSound`, `TerminalHasNoRole`, `RevocationSticks`, `LeasesEnd` |
| `mcp_admission` | 3 calls of 2 principals in 3 limits, capacity 2, lag 1; 168 k | `AdmissionBounded`, `CapacityReturns` |
| `access_grants` | 3 people; *quorum*: 2 approvals, policies edited; *returns*: standing lost and regained while time passes; *lent*: a grant of read access to an approver; *emergency*: lists edited; *ends*: 2 requests, clock to 3; 659 k | `GrantsBacked`, `QuorumGrants`, `GrantNeedsQuorum`, `AccessEndsInTime` |
| `dynamic_leases_orphan` | 1 node, 1 lease, 1 request | `TerminalHasNoRole`, violated |

A property whose name says *Safe*, *Sound*, *Consistent*, *Backed*, *Covers* or *Bounded* is a conjunction of named parts,
the type invariant among them; the parts have comments of their own in the modules:
`LeadershipSafe` = leader holds the lease, an open job is of the newest term, commits in term order, one term per
node. `ProjectConsistent` = delivered is live, delivered is valid, drafts are live. `PublishesCurrent` = no lost
update, restores are current. `RequestsSound` = a resolved request stays. `QueueSound` = one open job, one request in
flight. `CustodyKept` = in one process, what was delivered is claimed and a scrub leaves nothing (with several nodes:
section 6). `NothingGoesBack` = no stale write, the converged revision advances. `ReportsAreTrue` = converged is
delivered, outcomes are true. `RetentionSound` = fetches are served, held is present, override within cap. `KeysCover` =
nothing stranded, newest is active. `ReadersSafe` = current is complete, a reader that resolved it finishes. `RowsSound` =
a deleted provider's leases can only end. `LeasesEnd` = roles end, revocations complete. `AdmissionBounded` = running and bursts
bounded. `GrantsBacked` = rows follow requests, emergency grants are backed.

**Why the bounds are enough for the cases.** Three fences let a term be lost, taken by the other node and
regained; a TTL of 2 and a clock to 3 let a lease be renewed, lapse and be claimed again from a stale reading;
two writes are what an order needs. In `revisions`, three minting operations are a
draft, a competing write and a second draft or a restore; the cap on revisions is never what stops them. One
request suffices for approvals because a handler touches one request; the second policy of *scopes* is there because an
environment's own policy and the project's compete, and *imports* drops the drafts to afford a second key, since one key
cannot tell an import from a declared value. Two parameters let an environment stay parametrized while the one a value refers
to is deleted. Names that somebody else adds are in *solo*, where a claim of ours can be told from an addition; with
overlapping attempts the theorem `ForeignNamesUntouched` covers them. Three generations of a target are two
attempts that overlap, or an attempt and a teardown; a teardown beside an overlapping attempt is left to the theorems, which
bound none of it. Three revisions, a batch of 1 and a clock to 3 make a sweep of several chunks during which a pin lapses,
is renewed, and a policy changes. Three key versions let a walk be overtaken by a rotation; two rows and chunks of 1 put
a row on both sides of the cursor. Three generations of files are a current one, its predecessor and an interrupted
one; two faults are an interrupted pass and an interrupted retry. On one lease two nodes and two faults let a claim
lapse under a sweep whose provider call fails or is not answered; three requests are a renewal, a revocation and a deletion of
the provider. Three calls exhaust every limit and both buckets. Two requests and a batch of 1 make a sweep leave one behind.
One edit of the configuration is one dropped name; a second one is in section 6. The proofs of section 5 remove the bounds
from the safety properties.

**Deadlock** is checked in `scheduler_lease`, `reencryption`, `key_hierarchy` and `mcp_admission`. The others set
`CHECK_DEADLOCK FALSE`: an instance stops when its bounds are used up; the services themselves never wait
for each other.

**Symmetry** (`scheduler_lease`, `revisions`, `adapter_runtime`): the permuted nodes, principals and workers are
interchangeable in the specification and in the properties; no liveness is checked with it.

**Mutants.** For every property of a passing run `PROJECT.json` names a definition and a plausible wrong form of it
under which that run finds the property violated: an expiry comparison off by one, a closure that is
skipped, a digest that covers the changes only, a vote that counts for good, a commit without its fence, a directory
that is not synced. The modules hold further ones (marked `Mutant` or `Mutation`) for the other parts of a conjunction.

## 4. Fairness

Safety needs none. What the liveness properties assume, and why:

- `RequestsExpireInTime`, `AccessEndsInTime`: the clock advances and the sweep of the current reading runs. Both are
  hourly jobs (`internal/app/generation.go`) of whichever replica holds the lease. Nobody is assumed to vote, merge or
  revoke. The approval sweep takes all that are due where the SQL takes 100; the access sweep is bounded by `Batch`.
- `SweepEnds`: a sweep that has begun goes on with its next chunk (the loop of `retention.go`).
- `FenceClearsHere`: a rotation that committed goes on to its next statement; the HA heartbeat goes on reloading the instance
  set. Nothing is assumed of writers or walks.
- `SettlesCatchUp`: a pass that has begun takes its steps (weak); the timer starts passes and outages of the server end
  (strong fairness of `StartPass`). Faults, edits and revisions are bounded, so they cease.
- `LeasesEnd`: a mint request runs to its end, workers go on polling, the clock advances, and an operator sets a new admin
  credential where the old one was revoked and that is allowed. An *abandoned* provider (deleted after its credential was
  revoked) is excepted: see section 6.
- `CapacityReturns`: time passes; nothing is assumed of callers, who may die holding their claims.

## 5. Proofs

TLAPS proves the following for every set of nodes, principals, environments, keys, rows, calls and so on, and
for every value of the bounds, from the named assumptions on the constants in each module. In each proof module an inductive
invariant is shown to hold initially and to be kept by every action, and the theorems follow from it.

**SchedulerLeaseProofs** — `TypeCorrect`, `LeaderExclusion`, `TermOrder`, `OpenJobsAreNewest`, `NoTermOverlap`, together
`Leadership`; and `Refinement`. `LeaderHoldsLease` is not inductive: it says nothing of a node between its claim and its start
of a term. `IInv` adds: clock readings are not ahead of the clock (`NowNotAhead`); an owner has a
fence (`OwnerHasFence`); at which steps a node may be leader (`LeaderPlaces`); a node about to start a term
owns the row for as long as the deadline it is about to adopt (`WinnerHoldsLease`); a node's goroutines are at most the one
it tracks (`TermsTracked`); the log holds no token above the row's (`LogBelowFence`). The heart of the argument: a claim or
renewal by somebody else needs the row to have lapsed *at a reading that is not ahead of the clock*, so a deadline
computed from any older reading has passed too; and an admitted job locks the row, so no claim passes it.

**RevisionsProofs** — `TypeCorrect`, `DeliveryFollowsCells`, `DeliveryIsValid`, `DraftsStayLive`, together
`ProjectStaysConsistent`; `LostUpdateFree`, `RestoresPublishCurrent`, together `PublishesAreCurrent`;
`GroupsPublishWhole`, `HistoryRefinement`. The inductive invariant `RInv` has three parts.
*Structural*: types, the history belongs to live environments, delivery is what the cells say and is valid,
drafts are live; one lemma (`GrowStructural`) does the work for every path that materializes. Delivery stays valid through
`SetParameter` because a snapshot carries the parameters it was checked against; a path that fans out checks again.
*Numbering*: operation numbers are fresh. It is what makes freshness sound: `checkFreshness` compares
one entry id at two moments, while `NoLostUpdate` speaks of every revision between them. The gap is
closed by `EntryRuns` (an entry that was replaced never comes back), which needs the number of a pending draft
to be unused (`DraftNumberUnused`) and later numbers too (`NumbersBounded`), and by `DraftBase` (a draft
records the entry of the revision it was staged at).
*PreviewsStaged*: a preview token names the revision that one of its restored drafts was staged at.
`HistoryRefinement` maps `snaps` and `dropped` to the variables of `RevisionLog`.

The second half of the module is about `Approvals`. `ApprovalSpec` does not implement `Spec`: a merge checks the digest instead
of the preview token, and a publish through a resolved request checks neither. `PipelineStep` says what is true instead: every
step is a step of the pipeline or commits the selection that a request names, closed again over its requester's drafts. Both
keep `RInv`, so `GatedProjectConsistent`, `GatedLostUpdateFree`, `GatedGroupsPublishWhole` and `GatedHistoryRefinement` hold
behind the gate too (`RestoreIsCurrent` does not carry over: section 6, last paragraph). `AInv` adds that a request pins drafts
of its own environment (`SelectionsPinned`) and that a rejection has resolved its request (`RejectionsResolve`). `RequestsStep`
and `VotesStep` describe what any step may do to requests and votes; `RequestsAreSound`, `MergesAreReviewed`,
`MergesHaveQuorum` and `CoveredWritesAreReviewed` follow from them. The last also needs what each path writes where:
`GuardedPublishes` for drafts, `GatedWrites` and `GuardedWrites` for declare, import and copy, and that a commit leaves the
other environments alone (`AppliedElsewhere`, `WrittenElsewhere`). The digest does the work in `MergesAreReviewed`: it is
recomputed in the transaction that publishes. `MergesHaveQuorum` needs `RejectionsResolve`, since no gate looks for rejections,
and that counting votes counts voters (`VotersCounted`).

**RetentionProofs, snapshots** — `RetentionTypes`; `Served`, `HeldStays`, `Capped`, together `RetentionIsSound`. The invariant
adds that every pin that is live *at the present clock* has its payload (`PinnedPresent`) and that the newest
revision has (`NewestPresent`): a sweep judges by an older reading, at which more pins are live, never fewer.
`ReleaseIsAnnounced` compares the answer of a release (`Consequence`, computed before it) with the rules after it.
`ChunksMakeProgress` is the safety half of `SweepEnds`: at its own reading a chunk makes nothing eligible, and one that
another chunk follows leaves strictly fewer eligible payloads, a finite set, whatever the batch.

**RetentionProofs, key versions** — `ReencryptionTypes`, `NeverStranded`, `HighestIsActive`, together `KeysAlwaysCover`; and
`SealersOpen`: in a project scope a sealer the fence would admit opens every row. `IInv` adds that versions are retired in order
below one active version (`Ordered`), that a cached or walking set whose active version is still active covers all openable
versions (`SetsCover`), and for the instance scope that its set was minted and reloaded from the store
(`InstanceMinted`, `ReloadsInstance`). The proof does not use the dryness check before a retirement: with the fence in
every writer it is a second line of defence.

**KeyHierarchyProofs** — `HierarchyTypes`, `MasterRotationComplete`, and under `FullStop` `InstalledRootAlwaysBoots`. `IInv`
says which rotations in flight can still commit (`InFlight`), that all wrappers hold one master (`OneMaster`,
`MastersKnown`) and that every key is under it. `RInv` adds the shape of the wrappers in each phase of a root rotation
(`WrapperShape`, `PreparedUnderRoot`) and that only one process runs then (`OpsUp`, `StoppedForRoot`).
`AdoptingAlwaysUnwraps` needs `Reserved`: a running process keeps the master of its rotation in flight resolvable, and holds
nothing else beyond the version it is active under, so an adoption finds the master it prepared.

**McpAdmissionProofs** — `AdmissionTypes`, `RunningStaysBounded`, `BurstsStayBounded`, together `AdmissionStaysBounded`.
`IInv` adds that a call's claim outlives it (`Outlives`: the call's deadline started before the claim's and is shorter),
that live claims are within the limits (`LiveBounded`), and that a principal's debt is what its bucket owes (`Owed`).

**AccessGrantsProofs** — `AccessTypes`, `RowsAgree`, `EmergencyStaysBacked`, together `GrantsStayBacked`. `IInv` adds that
nobody holds more than at first (`HoldsWithin`) and that every enabled emergency list was within some manager's
standing when it was widened (`DelegationsBacked`). `GrantsHaveQuorum`: a grant needs the quorum at that moment.
`CompleteQuorumGrants` assumes nothing of standing. A vote counts the approvals, its own among them, in the transaction that
grants, so it never leaves a complete quorum behind (`VoteLeavesShort`); no other step adds an approval, so a quorum that was
short can only become complete because an approval counts again (`CompleteAfter`), and that takes a regained membership or
permanent grant, or a *temporary* grant of read access (`CountsAgain`). The proof found the last of these. What the code
does not do is notice such a moment: section 6.

**DynamicLeasesProofs** — `RowsAlwaysSound`, `RevocationIsFinal` and `OnlyOvertakenMintsOrphan`. `LInv` adds
`Fenced`: where a sweep still holds its claim the row is as it was claimed, so what the sweep derived from it is still right and
its intent is recorded. `RowMoves` is the transition relation of one row, which `RevocationIsFinal` and the part about deleted
providers (`Cleanup`) need. The result about roles is for each lease by itself. A mint is `Undisturbed` while its row is
still "minting" and unclaimed; a lease whose mint is undisturbed throughout has no role once it is over
(`OnlyOvertakenMintsOrphan`, whatever the constants), by `RoleInv`: a lease nobody requested has no row and no role, a
request that was refused or not sent created none (`MintTrue`), and a sweep is never of a lease still to be minted, so what
it dropped stays dropped (`DropsLast`). That a mint is overtaken does happen: `RevokeMinting = TRUE` is the run
`dynamic_leases_orphan`, and `SlowMint = TRUE` alone ends in a counterexample too (section 6). So `TerminalHasNoRole` itself is
no theorem of the code; the passing run checks it with both constants `FALSE`.

**DeliveryProofs**, file sync — `ReadersAlwaysSafe` and `FinishAlwaysLeavesTwo` rest on `GenInv`. Its `Durable` says that
what `current` names, in memory and on disk, is complete and synced (`NamedIsSynced`), that the disk is at most one swap
behind (`DiskBehindByOne`) and that a reader one swap behind reads the predecessor (`ReaderBehind`); `PassKnown` says at each
point of a pass what it knows of the new generation and its predecessor, which is why collect cannot take what a reader or a
power loss still needs, a retry after a stop included. `DropInv` adds that a pass knows every managed name it drops until it
has retained or pruned it (`DroppedKnown`). `WindowInv` adds that a user's file is on disk as it is in memory
(`ForeignSynced`), that a pass drops no configured name (`DropsUnconfigured`), and that before the first fault a retained copy
is synced but between its rename and its sync (`KeptSynced`). `ForeignAlwaysKept` and `NamesNeverLost` follow for users who act
at any moment: outside the rename of a retain and the removal of a prune an entry that is not the client's stays
(`EntryStays`), and a readable name stays readable (`ReadableStays`). What both leave open, the window between check and act and a
retention that was stopped between rename and sync, is real: section 6.
`ClaimsHoldThroughOneEdit` needs `MaxEdits <= 1`: before the first edit everything is of one configuration, and after it a
cursor of the new one was saved by a pass that had pruned (`CursorKnown`). The search for this invariant found that a second
edit breaks the claim (section 6).

**DeliveryProofs**, adapter runtime — five invariants over one another, for any number of workers, names and revisions.
`QueueInv` gives `QueueAlwaysSound`: the provider lease outlives the attempt's deadline (`PreparedHolds`), a live request is
the lease's own (`WireKnown`), so whoever prepared or has a live request out keeps the target busy for everybody else.
`ForeignInv` gives `ForeignNamesUntouched`: of a name somebody else added there is never more than a reservation, no live
request is about it, and an attempt past its listing has seen that it is there (`SomebodyElses`); that this is so at the moment
it is added is what `~Exposed` says (`NotExposed`). `DeliveryInv` gives `DeliveryNeverGoesBack`: generations only grow, an
attempt of the present generation delivers the newest revision (`RevisionKnown`), and nothing at the provider is newer than
what a live request brings (`WireNewest`). `ReportInv` gives `ReportsAlwaysTrue`: the lease is always that of the last intent,
so a request that is still live cannot undo what a later one was acknowledged for (`SuccessDelivered`); what a worker counts as
done was acknowledged, and a converged target is at rest. `DeliveriesAreIntended` adds to it, from `FateOpen` (what may still
land has no outcome, or an unknown one), that what was recorded as refused or done does not happen later; somebody else's
additions are excepted. `CustodyInv` gives `CustodyAlwaysSound` for one process, and `CustodyWithoutOverlap` for any number of
nodes as long as no two attempts overlap: what the lease is about is claimed as written before it is sent (`LeaseFirm`), what
the attempt loaded is still what the ledger says (`SnapFirm`), and a write that started from a reservation and was refused or
never sent has put nothing there (`ActingKnown`); `ScrubKnown` is why a scrub that has done with every name it loaded leaves
nothing. `SnapFirm` is what another attempt in between breaks: section 6.

**Only model-checked:** the seven liveness properties (`RequestsExpireInTime`, `SweepEnds`, `FenceClearsHere`, `SettlesCatchUp`,
`LeasesEnd`, `CapacityReturns`, `AccessEndsInTime`): fairness and `ENABLED` are outside the prover's reach. Every invariant and
action property of a passing run, and both refinements, are stated by a theorem, except `TerminalHasNoRole`, of which
`OnlyOvertakenMintsOrphan` proves what holds.

## 6. Where the code and its text disagree

One has a run of its own: *a lease revoked while it is being minted leaves its role behind* (`dynamic_leases_orphan`;
`RevokeMinting = TRUE`). `EnqueueTransition` (`store/dynamic.go:345`) accepts the revocation while the request has yet
to create the role; the worker drops nothing and settles, then the role is created, `FinishMint` matches no row, and
nothing is left that would drop it.

The others were found the same way. Each property below is a definition of the module, with what the text says in its
comment; checking it with the constants given (one or two nodes and the smallest bounds suffice) ends in a counterexample.

| Property | Constants | What happens |
|---|---|---|
| `SchedulerLease!RenewNeverRevives` | clock to 4 | A renewal compares with an earlier clock reading and revives a lapsed lease (`store/coordination.go:97` says it must not). Exclusion and order are unharmed. |
| `Revisions!PendingCap` | cap 1, 2 keys at first | Restore stages drafts without counting them (`service/values.go:55`, `rollback.go:256`). |
| `Approvals!CoveredOnlyReviewed` | 1 operation | Declare delivers a value in a covered environment (`service/publish.go:858`, `values.go:792`). |
| `Approvals!DraftEditedMeansEdited` | 2 principals, or 2 schema revisions | Somebody else's merge attempt, or a schema change, invalidates an untouched request as edited (`publish.go:344`, `approvals.go:1318`). |
| `Approvals!UpdateInvalidates` | 2 policy versions | A policy update leaves its requests open until they are touched (`store/queries/sqlite/approvals.sql:43`). |
| `AdapterRuntime!DeliveredIsClaimed` | 2 workers, overlapping attempts | A superseded attempt puts a row back to reserved under its successor's feet; a delivered value rests on a bare reservation (`store/adapter_runtime.go:607`, `docs/adr/deployment-adapter.md:94`). |
| `AdapterRuntime!ScrubLeavesNothing` | 2 workers, 1 name, 4 generations, clock to 2 | The same, one step on: the successor's write rests on that reservation when it crashes, and the scrub releases a reservation without a request, so it succeeds and the value stays (`internal/adapter/forgejo/module.go:233`). |
| `AdapterRuntime!IntentsPair` | 1 revision, clock to 4 | A teardown that keeps the values leaves a crashed worker's intent open for good (`store/repos_adapters.go:577`, `adapter_runtime.go:414`). |
| `AdapterRuntime!AdditionsKept` | 1 worker, 1 name, 1 revision | A name is added after the attempt's one listing and overwritten by its create-or-update request (`internal/adapter/forgejo/module.go:110`, `:141`, `:172`). `docs/adr/deployment-adapter.md:137` says the conflict refusal "keeps manual additions from being silently captured"; `:98` concedes the gap between "the secret name-list re-check and the PUT", but there is no re-check before each request: the gap is as long as the attempt. |
| `Reencryption!FenceClears` | 1 node, `HA = FALSE`, `LostAcks = TRUE` | After a rotation whose answer was lost the cached set stays stale and every write is refused (`service/rotation.go:169`, `fence.go:22`). |
| `Reencryption!ReadsResolve` | 1 node, `Instance = TRUE` | A reload that read before a rotation and stores after it undoes the adoption (`internal/crypto/keyring.go:995`, `:1143`). |
| `KeyHierarchy!InstalledRootBoots` | `FullStop = FALSE` | A master rotation prepared on one process overlaps a root rotation on another (`store/keys_mutations.go:171`, `docs/handoff/75-key-rotation.md:80`). |
| `KeyHierarchy!NodeUnwraps` | 1 process, `LostAcks = TRUE` | The abort after a lost answer removes the master that was committed (`service/rotation.go:236`, `keyring.go:182`). |
| `KeyHierarchy!UnwrapsAgain` | 2 processes, `FairSpec` | A process keeps the masters of its boot for good (`keyring.go:630`). |
| `FileSync!ForeignNeverReplaced` | a user, a dropped name | A file placed between the link check and the rename or removal after it is lost (`internal/filesync/publish.go:773`, `:465`; `docs/site/src/content/docs/docs/file-sync.mdx:125`: "The client refuses to replace anything it did not create"). |
| `FileSync!RetainedSurvives` | retain, 1 edit, a stop and a power loss | A stop between the rename of a retained copy and its sync (`publish.go:773`, `:777`); the retry finds the name not its own and returns without syncing (`:749`); a power loss between swap and sync puts the old link back, to a file the new generation does not have (the comment at `publish.go:745` says the name is turned into "an unmanaged regular file holding its last published content"). |
| `FileSync!CurrentClaimHolds` | prune, `MaxEdits = 2`, 2 stops | Publish `a`; edit to `b`, stopped before its cursor is saved; edit back to `a`, stopped between swap and prune. Stamp, digest and cursor match again, so the pass reports "up to date" and never prunes `b` (`internal/cli/file_sync.go:221`, `publish.go:155`, `docs/…/file-sync.mdx:74`). |
| `FileSync!RetainWorks` | prune, then retain, 1 stop | A link left by an interrupted prune can never be retained (`publish.go:754`, `:359`). |
| `FileSync!NeverMisbound` | `FirstUse = TRUE`, 1 stop | An empty binding record is refused as another target's (`publish.go:519`, `:67`). |
| `FileSync!FinishedSurvives` | 1 stop | A link that an interrupted pass made is never synced (`publish.go:819`, `docs/…/file-sync.mdx:119`). |
| `DynamicLeases!TerminalHasNoRole` | `SlowMint = TRUE`, 1 fault | A mint request is suspended past `mintRecoveryGrace`; a sweep recovers its row and drops nothing, then the role is created (`store/dynamic.go:313`). |
| `DynamicLeases!ActiveUsable` | 2 nodes; or `SlowMint = TRUE` and 3 faults | A renewal is accepted while another node drops the role (`store/dynamic.go:330`, `:345`); a suspended mint discloses a role a recovery dropped (`:313`). |
| `DynamicLeases!RevocationCompletes` without `Abandoned` | `Custody = TRUE` | Revoking the credential and then deleting the provider strands its revocations (`store/dynamic.go:233`). |
| `AccessGrants!QuorumNeverStranded` | 2 approvals, 2 changes of standing; or a second policy that offers read | An approver who loses and regains standing, by a temporary grant of read access too, leaves a complete quorum ungranted (`service/access.go:571`, `docs/handoff/152-jit-access.md:125`: "Concurrent approvers cannot strand a complete quorum"). |
| `AccessGrants!GrantedUnderCovering` | 2 policies | A request is decided under the policy it was filed under although another one covers by now (`access.go:400`, `:584`). |

Three further behaviours are in the models as the code has them, without a claim to compare them with: a request
is created without a freshness check, so one made on a stale draft can never be merged; a resolved
request named in a publish after its policy is gone publishes its selection as an ordinary one, and its restored
drafts are then not asked for a preview token (`PublishResolved`); and a cell that was absent, was set and was cleared
again counts as untouched for a draft staged at the first absence, which is why `NoLostUpdate` treats
absence apart.

## 7. Abstractions and what they cost

- A service handler is one serializable transaction under its lock (`store/tx/tx.go`), so it is
  one action; a refusal changes nothing and is no step. Whatever consists of several transactions (the lease protocol, adapter
  attempts, walks and rotations, mints and sweeps, retention chunks) is modelled transaction by transaction.
- Values are opaque; a key's type, pattern and bounds are the set of its legal values. Names are
  left out: renaming re-materializes (`Reissue`) or moves the schema revision. Keys start as config; reclassifying toggles the
  class and fans out. Of a value's parameters only which ones it refers to is kept: patterns, escapes and the substitution and
  validation at delivery, which may refuse a fetch (`docs/adr/flat-model.md:129`), are left out.
- Somebody else only adds names at a provider, and never takes one away.
- A preview token is the record of what is hashed. The principal's generation and the protected flag, which are hashed
  as well, only make more tokens stale.
- Steps that only refuse (`Initialize`'s stricter guard, the manifest precondition of an import, storage, render and rate
  limits, reveal rules, reauthentication ceremonies, the authorization and history checks of a pin) are left out: that allows
  more behaviours, never fewer.
- A clone carries over the keys the caller may reveal: any subset of those that are set. Key groups exist from the start.
  Approvers named through a SCIM group are the principals in it.
- Entry and draft ids are numbers; `Numbering` proves them as fresh as the code takes its random ones to be.
- Retry delays and backoff are left out wherever an attempt may start at any time; the claim token of a dynamic lease is its
  owner; the generation counter of a pin is left out.
- One write, one rotation and one walk per node are in flight at a time in `Reencryption`; the bounds `Writers`, `Rotators`
  and `Walkers` of the run say on which nodes. The theorems need none of them.
- A provider's statement is applied within its call or not at all (`DynamicLeases`), and the clocks of the nodes agree, as the HA
  guide demands (`high-availability.mdx:87`).
- In `FileSync` a directory entry that was not synced survives a power loss or does not, one by one; file contents that were
  not synced may be torn.

## 8. Not modelled

Cryptographic primitives, certificate and token encodings, authentication protocols and SCIM wire formats
(out of a model checker's reach or pure functions of text); PKI and SSH certificates (issued synchronously, no state at a
provider); transit (a version counter and cryptography); HTTP, CLI and MCP transport, the web interface,
generated code and clients; backup, upgrade and host control (file and process I/O); the Kubernetes operator
(reconciliation against an external API server); audit (written by everything in its own transaction and read by
no modelled operation); the evaluation of authorization rules (a pure decision table: its outcome is
`publishers`, `holds` and `member`); scanners and value parsers.

Within the modelled parts: the adapters' route moves and activation, adoption, credential revocation, explicit recovery, the
operator review that a scrub may raise (`store/adapter_runtime.go:1233`, raised for a stored origin that needs review and by
`internal/adapter/vaultkv`), provider variables, the other provider modules and the per-organisation cap of 4; the server side
of file targets, rendering, ownership, legacy generations and offline disclosure records; the per-organisation cap and the
invalid-TTL branch of dynamic leases; the fixed-window counters and per-process semaphores of admission; environment deletion
under time-bound access; escrow and the token key. `PROJECT.json` gives the reason for each component.

## 9. Plan

1. `SelfConfig` (`service/self_config_{apply,runtime,recovery}.go`, `store/repos_self_config.go`): the rollout of a
   configuration across nodes. To look at: after `RecoverTarget` the "previous" slot may name a target that failed
   everywhere; a job whose participants were all replaced while preparing or applying may never be aborted.
2. The plan's own drift check of definitions bundles (`service/definitions_apply*.go`) over `Revisions`.
