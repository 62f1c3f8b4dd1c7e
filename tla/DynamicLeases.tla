--------------------------- MODULE DynamicLeases ---------------------------
(***************************************************************************)
(* Dynamic secrets: a lease is a row, a login role at an external          *)
(* PostgreSQL server and, while it is minted, a synchronous request.  The  *)
(* request inserts a "minting" row, creates the role outside any           *)
(* transaction and settles the row (service/dynamic.go MintLease).  Every  *)
(* later transition is the work of a worker, one per node, that claims a   *)
(* due row under an owner and a term, records an intent, calls the         *)
(* provider and settles under the same fence (service/dynamic_worker.go,   *)
(* store/dynamic_runtime.go).  Operators push rows into renewing, revoking *)
(* or back to unknown meanwhile, revoke and replace the provider's admin   *)
(* credential, and delete the provider.                                    *)
(*                                                                         *)
(* Deadlines are kept as the time that is left, 0 once they have passed.  *)
(* Retry delays only postpone a claim and are left out; so is the claim    *)
(* token, which tells two claims of one worker apart: a worker's sweeps    *)
(* are sequential and a restart loses its calls, so the owner does.        *)
(***************************************************************************)
EXTENDS Integers

CONSTANTS
    Nodes,          \* processes, each with one dynamic worker
    Leases,         \* lease ids
    NoNode,         \* the NULL of lease_owner
    TTL,            \* validity a mint or renewal gives, in ticks
    Term,           \* how long a claim lasts
    Grace,          \* mintRecoveryGrace
    MaxRequests,    \* bound on operators' requests
    MaxFaults,      \* bound on provider failures, crashes, lost answers
                    \* and suspensions
    SlowMint,       \* may a mint request be suspended past its grace?
    SlowWorker,     \* may a sweep be suspended past the term of its claim?
    RevokeMinting,  \* may a lease be revoked, or its provider deleted, while
                    \* its mint request is still running?
    Custody         \* may the admin credential be revoked?

ASSUME LeaseConstants ==
    /\ NoNode \notin Nodes
    /\ {TTL, Term, Grace} \subseteq Nat \ {0}
    /\ {MaxRequests, MaxFaults} \subseteq Nat
    /\ {SlowMint, SlowWorker, RevokeMinting, Custody} \subseteq BOOLEAN

VARIABLES
    row,        \* dynamic_leases: [Leases -> Rows]
    role,       \* the provider's roles: [Leases -> [exists, until]]
    mint,       \* the mint request of each lease
    worker,     \* the sweep each node's worker is in
    prov,       \* the provider row: [active, credential]
    auth,       \* what the lease principal still holds: full, read, none
    requests, faults

vars == <<row, role, mint, worker, prov, auth, requests, faults>>

Terminal == {"revoked", "expired", "failed"}
Transient == {"minting", "renewing", "revoking", "unknown"}
States == {"none", "active"} \cup Transient \cup Terminal
Kinds == {"mint", "renew", "revoke", "expire"}
Results == {"ok", "unreachable", "ambiguous", "refused", "denied"}

NoRow == [state |-> "none", next |-> 0, expires |-> 0, owner |-> NoNode,
          until |-> 0, effect |-> "none"]
NoRole == [exists |-> FALSE, until |-> 0]
Idle == [phase |-> "idle"]

Init ==
    /\ row = [l \in Leases |-> NoRow]
    /\ role = [l \in Leases |-> NoRole]
    /\ mint = [l \in Leases |-> Idle]
    /\ worker = [n \in Nodes |-> Idle]
    /\ prov = [active |-> TRUE, credential |-> TRUE]
    /\ auth = "full"
    /\ requests = 0 /\ faults = 0

Fault == faults < MaxFaults /\ faults' = faults + 1
Request == requests < MaxRequests /\ requests' = requests + 1

----------------------------------------------------------------------------
(* The provider.  A statement is applied at one instant of the call, or    *)
(* not at all; an ambiguous answer leaves open which.                      *)

Created(l, until) == [role EXCEPT ![l] = [exists |-> TRUE, until |-> until]]
Dropped(l) == [role EXCEPT ![l] = NoRole]
Extended(l, until) == [role EXCEPT ![l].until = until]

(* The result of a call whose statement, when applied, makes the roles     *)
(* `after`.  CREATE ROLE and DROP ROLE IF EXISTS are always applicable,    *)
(* ALTER ROLE only to a role that exists: classifyExec.                    *)
Answer(applicable, after, result) ==
    \/ /\ result = "ok" /\ applicable
       /\ role' = after /\ UNCHANGED faults
    \/ /\ result = "refused" /\ ~applicable
       /\ UNCHANGED <<role, faults>>
    \/ /\ result \in {"unreachable", "refused"} /\ Fault
       /\ UNCHANGED role
    \/ /\ result = "ambiguous" /\ Fault
       /\ role' \in {role} \cup (IF applicable THEN {after} ELSE {})

----------------------------------------------------------------------------
(* MintLease.                                                              *)

(* Phase 1: authorized and gated, against an active provider with a        *)
(* credential; the row is due for recovery only after the grace.           *)
MintStart(l) ==
    /\ mint[l] = Idle /\ row[l] = NoRow
    /\ auth = "full" /\ prov.active /\ prov.credential
    /\ row' = [row EXCEPT ![l] = [NoRow EXCEPT !.state = "minting",
                                               !.next = Grace]]
    /\ mint' = [mint EXCEPT ![l] = [phase |-> "started"]]
    /\ UNCHANGED <<role, worker, prov, auth, requests, faults>>

(* Phase 2: CreateRole, outside any transaction.                           *)
MintCreate(l) ==
    /\ mint[l].phase = "started"
    /\ \E result \in {"ok", "unreachable", "refused", "ambiguous"} :
          /\ Answer(TRUE, Created(l, TTL), result)
          /\ mint' = [mint EXCEPT ![l] = [phase |-> "created", result |-> result,
                                          expires |-> TTL]]
    /\ UNCHANGED <<row, worker, prov, auth, requests>>

(* The state phase 3 settles to: a role created for a principal that may   *)
(* no longer be shown it goes to the worker to be dropped.                 *)
MintState(result) ==
    CASE result = "ok" /\ auth = "full" -> "active"
      [] result = "ok" /\ auth # "full" -> "revoking"
      [] result \in {"unreachable", "refused"} -> "failed"
      [] result = "ambiguous" -> "unknown"

(* FinishMint's WHERE: the row is still minting and nobody owns it.        *)
MintUnclaimed(l) == row[l].state = "minting" /\ row[l].owner = NoNode

(* Phase 3: authorization refused, or a row that is no longer this         *)
(* request's, rolls the transaction back and leaves the row as it is.  The *)
(* password is disclosed when the row becomes active and the commit is     *)
(* acknowledged.                                                           *)
MintFinish(l) ==
    /\ mint[l].phase = "created"
    /\ LET state == MintState(mint[l].result)
       IN IF auth # "none" /\ MintUnclaimed(l)
          THEN /\ row' = [row EXCEPT ![l] =
                    [@ EXCEPT !.state = state,
                              !.expires = IF state = "active" THEN mint[l].expires ELSE 0,
                              !.next = IF state = "active" THEN mint[l].expires ELSE 0,
                              !.owner = NoNode, !.until = 0]]
               /\ \/ /\ mint' = [mint EXCEPT ![l] =
                            [phase |-> IF state = "active" THEN "disclosed" ELSE "done"]]
                     /\ UNCHANGED faults
                  \/ /\ Fault
                     /\ mint' = [mint EXCEPT ![l] = [phase |-> "done"]]
          ELSE /\ mint' = [mint EXCEPT ![l] = [phase |-> "done"]]
               /\ UNCHANGED <<row, faults>>
    /\ UNCHANGED <<role, worker, prov, auth, requests>>

(* The request ends early: an error before CreateRole or in phase 3, or    *)
(* its process dies; dying inside CreateRole, the role may come to exist.  *)
MintLost(l) ==
    /\ mint[l].phase \in {"started", "created"}
    /\ Fault
    /\ mint' = [mint EXCEPT ![l] = [phase |-> "done"]]
    /\ role' \in {role} \cup (IF mint[l].phase = "started"
                              THEN {Created(l, TTL)} ELSE {})
    /\ UNCHANGED <<row, worker, prov, auth, requests>>

----------------------------------------------------------------------------
(* The worker: RunLeaseSweep.                                              *)

DueNoExpiry(l) ==
    /\ row[l].state \in Transient /\ row[l].next = 0
    /\ row[l].owner = NoNode \/ row[l].until = 0

DueNoUnknown(l) ==
    /\ \/ row[l].state \in Transient \ {"unknown"} /\ row[l].next = 0
       \/ row[l].state = "active" /\ row[l].expires = 0 /\ row[l].next = 0
    /\ row[l].owner = NoNode \/ row[l].until = 0

(* What ClaimDueLease selects: a transient row past its next attempt or an *)
(* active row past its expiry, with no live claim on it.                   *)
Due(l) ==
    /\ \/ row[l].state \in Transient /\ row[l].next = 0
       \/ row[l].state = "active" /\ row[l].expires = 0 /\ row[l].next = 0
    /\ row[l].owner = NoNode \/ row[l].until = 0

ClaimDueLease(n, l) ==
    /\ worker[n] = Idle /\ Due(l)
    /\ row' = [row EXCEPT ![l].owner = n, ![l].until = Term]
    /\ worker' = [worker EXCEPT ![n] = [phase |-> "claimed", lease |-> l,
                                        state |-> row[l].state]]
    /\ UNCHANGED <<role, mint, prov, auth, requests, faults>>

(* assertLeased and the settling UPDATEs: this worker still owns the row   *)
(* and its term has not lapsed.                                            *)
Holds(n, l) == row[l].owner = n /\ row[l].until > 0

DeriveKindRecorded(l, state) ==
    CASE state = "renewing" -> "renew"
      [] state = "revoking" -> "revoke"
      [] state = "minting" -> "mint"
      [] state = "active" -> "expire"
      [] state = "unknown" -> row[l].effect

(* deriveKind: an unknown row resumes its latest effect, or, when it has   *)
(* none, is an unsettled mint.                                             *)
DeriveKind(l, state) ==
    CASE state = "renewing" -> "renew"
      [] state = "revoking" -> "revoke"
      [] state = "minting" -> "mint"
      [] state = "active" -> "expire"
      [] state = "unknown" -> IF row[l].effect = "none" THEN "mint" ELSE row[l].effect

(* Retry: release the row for another attempt, under the fence.            *)
Released(n, l) ==
    row' = IF Holds(n, l) THEN [row EXCEPT ![l].owner = NoNode, ![l].until = 0,
                                           ![l].next = 0]
                          ELSE row

(* Open the provider: LoadProviderMaterial re-asserts the claim.  Without  *)
(* a credential, or when the sealer or factory fails, the row is released. *)
OpenProvider(n) ==
    LET l == worker[n].lease
    IN /\ worker[n].phase = "claimed"
       /\ \/ /\ Holds(n, l) /\ prov.credential
             /\ worker' = [worker EXCEPT ![n] = [phase |-> "open", lease |-> l,
                                 kind |-> DeriveKind(l, worker[n].state)]]
             /\ UNCHANGED <<row, faults>>
          \/ /\ ~(Holds(n, l) /\ prov.credential)
             /\ Released(n, l)
             /\ worker' = [worker EXCEPT ![n] = Idle]
             /\ UNCHANGED faults
          \/ /\ Fault
             /\ Released(n, l)
             /\ worker' = [worker EXCEPT ![n] = Idle]
       /\ UNCHANGED <<role, mint, prov, auth, requests>>

(* RecordIntent: the effect row, under the fence; a lost claim ends the    *)
(* sweep.                                                                  *)
RecordIntent(n) ==
    LET l == worker[n].lease
    IN /\ worker[n].phase = "open"
       /\ IF Holds(n, l)
          THEN /\ row' = [row EXCEPT ![l].effect = worker[n].kind]
               /\ worker' = [worker EXCEPT ![n].phase =
                                IF worker[n].kind = "renew" THEN "gate" ELSE "call"]
          ELSE /\ worker' = [worker EXCEPT ![n] = Idle]
               /\ UNCHANGED row
       /\ UNCHANGED <<role, mint, prov, auth, requests, faults>>

(* reauthorizeLease, in a read transaction of its own; then the new expiry *)
(* is computed from the clock.                                             *)
Reauthorize(n) ==
    LET l == worker[n].lease
    IN /\ worker[n].phase = "gate"
       /\ worker' = [worker EXCEPT ![n] =
             IF auth = "full"
             THEN [phase |-> "call", lease |-> l, kind |-> "renew", expires |-> TTL]
             ELSE [phase |-> "answered", lease |-> l, kind |-> "renew",
                   expires |-> 0, result |-> "denied"]]
       /\ UNCHANGED <<row, role, mint, prov, auth, requests, faults>>

Expiry(n) == IF worker[n].kind = "renew" THEN worker[n].expires ELSE 0

Applicable(n) == worker[n].kind = "renew" => role[worker[n].lease].exists

Effect(n) ==
    LET l == worker[n].lease
    IN IF worker[n].kind = "renew" THEN Extended(l, worker[n].expires) ELSE Dropped(l)

(* ExtendRole for a renewal, DropRole for every other kind.                *)
CallProvider(n) ==
    /\ worker[n].phase = "call"
    /\ \E result \in Results \ {"denied"} :
          /\ Answer(Applicable(n), Effect(n), result)
          /\ worker' = [worker EXCEPT ![n] =
                [phase |-> "answered", lease |-> worker[n].lease, kind |-> worker[n].kind,
                 expires |-> Expiry(n), result |-> result]]
    /\ UNCHANGED <<row, mint, prov, auth, requests>>

(* Where a transition ends, and where it waits for another attempt.        *)
Done == [renew |-> "active", revoke |-> "revoked", expire |-> "expired", mint |-> "failed"]
Kept == [renew |-> "renewing", revoke |-> "revoking", expire |-> "active", mint |-> "minting"]

SettledStateRefusedDrop(kind, result) ==
    CASE result \in {"ok", "refused", "denied"} -> Done[kind]
      [] result = "unreachable" -> Kept[kind]
      [] result = "ambiguous" -> "unknown"

(* The state a sweep settles to: settleRenew, settleDrop and               *)
(* settleMintRecovery.  A renewal that was refused leaves the credential   *)
(* its validity; a drop that was refused is not known to have happened.    *)
SettledState(kind, result) ==
    CASE result = "ok" -> Done[kind]
      [] result = "unreachable" -> Kept[kind]
      [] result = "ambiguous" -> "unknown"
      [] result \in {"refused", "denied"} -> IF kind = "renew" THEN "active" ELSE "unknown"

(* settle: under the fence, the outcome closes the effect, moves the row   *)
(* and ends the claim; a lost claim rolls all of it back.                  *)
Settle(n) ==
    LET l == worker[n].lease
        w == worker[n]
        state == SettledState(w.kind, w.result)
        renewed == w.kind = "renew" /\ w.result = "ok"
        expires == IF renewed THEN w.expires ELSE row[l].expires
    IN /\ w.phase = "answered"
       /\ row' = IF Holds(n, l)
                 THEN [row EXCEPT ![l] =
                        [@ EXCEPT !.state = state, !.expires = expires,
                                  !.next = IF state = "active" /\ w.kind = "renew"
                                           THEN expires ELSE 0,
                                  !.owner = NoNode, !.until = 0]]
                 ELSE row
       /\ worker' = [worker EXCEPT ![n] = Idle]
       /\ UNCHANGED <<role, mint, prov, auth, requests, faults>>

(* The process dies, or a store error ends the sweep: the claim stays on   *)
(* the row, and a call in flight may or may not be applied.                *)
Crash(n) ==
    /\ worker[n] # Idle /\ Fault
    /\ role' \in {role} \cup (IF worker[n].phase = "call" /\ Applicable(n)
                              THEN {Effect(n)} ELSE {})
    /\ worker' = [worker EXCEPT ![n] = Idle]
    /\ UNCHANGED <<row, mint, prov, auth, requests>>

----------------------------------------------------------------------------
(* Operators and workloads.                                                *)

EnqueuedClaimed(r, state) == [r EXCEPT !.state = state, !.next = 0]

(* EnqueueTransition: due now, attempts reset and the claim cleared, so a  *)
(* sweep in flight can no longer settle.                                   *)
Enqueued(r, state) ==
    [r EXCEPT !.state = state, !.next = 0, !.owner = NoNode, !.until = 0]

(* The states each target may be entered from: the WHERE of the query.     *)
MayEnqueue(from, target) ==
    CASE target = "revoking" -> from \notin Terminal \cup {"revoking", "none"}
      [] target = "renewing" -> from = "active"
      [] target = "unknown" -> from = "unknown"

(* Is the lease's mint request still running?  What the environment may do *)
(* to it then is RevokeMinting's to say.                                   *)
MintRunning(l) == mint[l].phase \in {"started", "created"}

RevokeLease(l) ==
    /\ Request /\ MayEnqueue(row[l].state, "revoking")
    /\ RevokeMinting \/ ~MintRunning(l)
    /\ row' = [row EXCEPT ![l] = Enqueued(@, "revoking")]
    /\ UNCHANGED <<role, mint, worker, prov, auth, faults>>

RenewLease(l) ==
    /\ Request /\ MayEnqueue(row[l].state, "renewing")
    /\ auth # "none"
    /\ row' = [row EXCEPT ![l] = Enqueued(@, "renewing")]
    /\ UNCHANGED <<role, mint, worker, prov, auth, faults>>

SettleLease(l) ==
    /\ Request /\ MayEnqueue(row[l].state, "unknown")
    /\ row' = [row EXCEPT ![l] = Enqueued(@, "unknown")]
    /\ UNCHANGED <<role, mint, worker, prov, auth, faults>>

LiveLeasesSettled == {l \in Leases : row[l].state \in {"active", "revoking"}}

(* ActiveLeaseIDsForProvider: every lease that is not terminal.            *)
LiveLeases == {l \in Leases : row[l].state \notin Terminal \cup {"none"}}

(* Delete with revokeAll: queues every live lease (one that is already     *)
(* revoking is a conflict, skipped) and tombstones the provider, keeping   *)
(* its credential.  Without revokeAll it needs that there be none.         *)
DeleteProvider(revokeAll) ==
    /\ Request /\ prov.active
    /\ revokeAll \/ LiveLeases = {}
    /\ RevokeMinting \/ \A l \in Leases : ~MintRunning(l)
    /\ row' = [l \in Leases |->
                 IF l \in LiveLeases /\ row[l].state # "revoking"
                 THEN Enqueued(row[l], "revoking") ELSE row[l]]
    /\ prov' = [prov EXCEPT !.active = FALSE]
    /\ UNCHANGED <<role, mint, worker, auth, faults>>

RevokeCredential ==
    /\ Custody /\ Request /\ prov.active
    /\ prov' = [prov EXCEPT !.credential = FALSE]
    /\ UNCHANGED <<row, role, mint, worker, auth, faults>>

(* ReplaceCredential reads the provider and probes it first: an active     *)
(* provider only.                                                          *)
ReplaceCredential ==
    /\ prov.active /\ ~prov.credential
    /\ prov' = [prov EXCEPT !.credential = TRUE]
    /\ UNCHANGED <<row, role, mint, worker, auth, requests, faults>>

(* The principal loses reveal or the opt-in, then read as well.            *)
WithdrawAuthority ==
    /\ Request
    /\ auth' = CASE auth = "full" -> "read" [] OTHER -> "none"
    /\ auth # "none"
    /\ UNCHANGED <<row, role, mint, worker, prov, faults>>

(* A request ends within its grace, and a sweep, whose provider call has a *)
(* deadline well inside the term of its claim, within a tick.              *)
MintsTimely == \A l \in Leases : MintRunning(l) => row[l].state # "minting" \/ row[l].next > 1
SweepsTimely == \A n \in Nodes : worker[n] = Idle

(* Where SlowMint or SlowWorker allow it, being suspended past that is a   *)
(* fault like any other.                                                   *)
Suspension ==
    \/ MintsTimely /\ SweepsTimely /\ UNCHANGED faults
    \/ /\ ~(MintsTimely /\ SweepsTimely)
       /\ SlowMint \/ MintsTimely
       /\ SlowWorker \/ SweepsTimely
       /\ Fault

(* Time passes: every deadline comes one tick nearer.                      *)
Less(t) == IF t > 0 THEN t - 1 ELSE 0

Tick ==
    /\ Suspension
    /\ row' = [l \in Leases |-> [row[l] EXCEPT !.next = Less(@), !.expires = Less(@),
                                               !.until = Less(@)]]
    /\ role' = [l \in Leases |-> [role[l] EXCEPT !.until = Less(@)]]
    /\ mint' = [l \in Leases |-> IF mint[l].phase = "created"
                                 THEN [mint[l] EXCEPT !.expires = Less(@)] ELSE mint[l]]
    /\ worker' = [n \in Nodes |-> IF "expires" \in DOMAIN worker[n]
                                  THEN [worker[n] EXCEPT !.expires = Less(@)] ELSE worker[n]]
    /\ <<row, role, mint, worker>>' # <<row, role, mint, worker>>
    /\ UNCHANGED <<prov, auth, requests>>

----------------------------------------------------------------------------
MintStep(l) == MintStart(l) \/ MintCreate(l) \/ MintFinish(l)

WorkerStep(n) ==
    \/ \E l \in Leases : ClaimDueLease(n, l)
    \/ OpenProvider(n) \/ RecordIntent(n) \/ Reauthorize(n)
    \/ CallProvider(n) \/ Settle(n)

Next ==
    \/ \E l \in Leases : MintStep(l) \/ MintLost(l)
    \/ \E n \in Nodes : WorkerStep(n) \/ Crash(n)
    \/ \E l \in Leases : RevokeLease(l) \/ RenewLease(l) \/ SettleLease(l)
    \/ \E revokeAll \in BOOLEAN : DeleteProvider(revokeAll)
    \/ RevokeCredential \/ ReplaceCredential \/ WithdrawAuthority
    \/ Tick

Spec == Init /\ [][Next]_vars

(* Requests run to their end, the workers poll for ever, clocks advance,   *)
(* and an operator who revoked the credential of a provider sets a new one *)
(* as soon as the service lets them.                                       *)
FairSpec ==
    /\ Spec
    /\ \A l \in Leases : WF_vars(MintCreate(l) \/ MintFinish(l))
    /\ \A n \in Nodes : WF_vars(WorkerStep(n))
    /\ WF_vars(Tick) /\ WF_vars(ReplaceCredential)

----------------------------------------------------------------------------
TypeOK ==
    /\ row \in [Leases -> [state : States, next : Nat, expires : Nat,
                           owner : Nodes \cup {NoNode}, until : Nat,
                           effect : Kinds \cup {"none"}]]
    /\ role \in [Leases -> [exists : BOOLEAN, until : Nat]]
    /\ \A l \in Leases :
          mint[l].phase \in {"idle", "started", "created", "done", "disclosed"}
    /\ \A n \in Nodes : worker[n] # Idle =>
          /\ worker[n].phase \in {"claimed", "open", "gate", "call", "answered"}
          /\ worker[n].lease \in Leases
          /\ worker[n].phase # "claimed" => worker[n].kind \in Kinds
    /\ prov \in [active : BOOLEAN, credential : BOOLEAN]
    /\ auth \in {"full", "read", "none"}
    /\ requests \in 0..MaxRequests /\ faults \in 0..MaxFaults

(* A lease that is over has left no login behind: whatever retried, got    *)
(* lost or raced, a revoked, expired or failed lease has no role at the    *)
(* provider (settleDrop, settleMintRecovery, MintLease phase 3).           *)
TerminalHasNoRole ==
    \A l \in Leases : row[l].state \in Terminal => ~role[l].exists

(* A lease that is reported active and not past its expiry works: its role *)
(* exists and the database accepts it at least until that expiry.          *)
ActiveUsable ==
    \A l \in Leases :
        row[l].state = "active" /\ row[l].expires > 0 =>
            role[l].exists /\ role[l].until >= row[l].expires

(* An accepted revocation is never undone: from revoking a lease only      *)
(* retries, waits in unknown, or is revoked, although an unknown lease     *)
(* resumes whatever effect was recorded last and a renewal may have been   *)
(* in flight when the revocation came.                                     *)
RevocationSticks ==
    \A l \in Leases :
        [](row[l].state = "revoking" =>
             [](row[l].state \in {"revoking", "unknown", "revoked"}))

(* Deleting a provider leaves none of its leases usable or extendable:     *)
(* each one is over or on its way to being revoked, a worker's sweep or a  *)
(* mint in flight at the time of the deletion included.                    *)
TombstonedIsCleanup ==
    ~prov.active => \A l \in Leases :
        \/ row[l].state \in Terminal \cup {"none", "revoking"}
        \/ row[l].state = "unknown" /\ row[l].effect = "revoke"

(* The lease rows are sound, those of a deleted provider too.              *)
RowsSound == TypeOK /\ TombstonedIsCleanup

(* A tombstoned provider whose admin credential was revoked first: no      *)
(* worker can open it, and ReplaceCredential refuses it.                   *)
Abandoned == ~prov.active /\ ~prov.credential

(* Every role is dropped in the end: by its revocation, its expiry or the  *)
(* recovery of a mint that failed, died or was not acknowledged; only an   *)
(* abandoned provider keeps it.                                            *)
RolesEnd == \A l \in Leases : role[l].exists ~> (~role[l].exists \/ Abandoned)

(* A revocation that was accepted completes, whatever sweep was in flight  *)
(* when it came, unless the provider is abandoned.                         *)
RevocationCompletes ==
    \A l \in Leases : row[l].state = "revoking" ~> (row[l].state = "revoked" \/ Abandoned)

(* Nothing stays behind (RunLeaseSweep): every role goes and every         *)
(* revocation completes.                                                   *)
LeasesEnd == RolesEnd /\ RevocationCompletes
=============================================================================
