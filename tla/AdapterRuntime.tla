--------------------------- MODULE AdapterRuntime ---------------------------
(***************************************************************************)
(* The outbox that delivers an environment to a provider                  *)
(* (internal/store/adapter_runtime.go, internal/adapter/outbox.go, the    *)
(* Forgejo module's Sync, and the triggers in store/repos_adapters.go).   *)
(*                                                                         *)
(* One target.  A trigger supersedes the target's open job and queues a   *)
(* newer one under a higher generation.  A worker claims a job for a      *)
(* lease, loads the newest revision and the ownership ledger, and writes  *)
(* name by name: an intent that takes the target's provider lease, the    *)
(* request itself, an outcome that gives the lease back.  Workers stall   *)
(* and crash anywhere, and a crashed worker's request stays on the wire.  *)
(*                                                                         *)
(* Each journal call is one transaction.  A refused call changes nothing  *)
(* in the database; it only ends the attempt (GiveUp).                    *)
(***************************************************************************)
EXTENDS Naturals, Sequences, FiniteSets

CONSTANTS
  Workers,
  Names,           \* effective names at the destination
  Desired,         \* the names of each published revision
  ForeignNames,    \* the names somebody else may add there
  Foreign,         \* ... and their value,
  Late,            \* or, if the name was added while an attempt was at it, this one
  NoLease,
  AttemptTimeout,  \* execution deadline of one attempt
  LeaseTime,       \* job and provider leases outlive it by a grace
  MaxGeneration,   \* bound on the target's generation
  MaxEffects,      \* bound on intents
  MaxNow           \* bound on the clock

Revisions == DOMAIN Desired
Newest == Cardinality(Revisions)

ASSUME DesiredAssumption ==
  /\ Newest \in Nat \ {0} /\ Revisions = 1..Newest
  /\ \A r \in Revisions : Desired[r] \subseteq Names
ASSUME ForeignAssumption ==
  ForeignNames \subseteq Names /\ Foreign \notin Nat /\ Late \notin Nat /\ Late # Foreign
ASSUME LeaseAssumption ==
  /\ NoLease \notin [job : Nat, effect : Nat, until : Nat]
  /\ AttemptTimeout \in Nat /\ LeaseTime \in Nat /\ AttemptTimeout < LeaseTime
ASSUME WorkersAssumption == "none" \notin Workers
ASSUME RuntimeBoundsAssumption ==
  MaxGeneration \in Nat /\ MaxEffects \in Nat /\ MaxNow \in Nat

VARIABLES
  revision,  \* the newest published revision of the environment
  target,    \* adapter_targets, the row
  jobs,      \* adapter_outbox, in order of insertion
  effects,   \* adapter_effects, in order of insertion
  ledger,    \* adapter_ledger of the target
  worker,    \* what each worker process holds in memory
  wire,      \* requests on their way to the provider
  provider,  \* what the destination holds: 0, a revision's value, Foreign or Late
  now,
  solo       \* one process delivers, or several nodes do: never changes

runtimeVars ==
  <<revision, target, jobs, effects, ledger, worker, wire, provider, now, solo>>

Claims == {"none", "reserved", "dispatched", "owned", "released"}
Leases == [job : Nat, effect : Nat, until : Nat]
Targets ==
  [gen : Nat, state : {"active", "tombstoned"}, paused : BOOLEAN,
   status : {"never", "converging", "converged", "failed"}, active : Nat,
   lease : Leases \cup {NoLease}, converged : Nat, attempted : Nat]
Jobs ==
  [kind : {"converge", "scrub"}, gen : Nat,
   state : {"queued", "running", "succeeded", "failed", "superseded"},
   owner : Workers \cup {"none"}, until : Nat]
Effects ==
  [job : Nat, name : Names, rev : Nat, delete : BOOLEAN,
   outcome : {"open", "success", "failure", "unknown"}]
Requests == [effect : Nat, until : Nat]
Replies == {"none", "ok", "refused", "unknown", "unsent", "error", "superseded",
            "unauthorized", "credential"}
Procs ==
  [pc : {"idle", "claimed", "loaded", "syncing", "prepared", "sent", "replied", "closing"},
   job : Nat, deadline : Nat, rev : Nat, snap : [Names -> Claims], listed : SUBSET Names,
   done : SUBSET Names, effect : Nat, reply : Replies]

RowsTypeOK ==
  /\ revision \in Revisions
  /\ target \in Targets
  /\ jobs \in Seq(Jobs)
  /\ effects \in Seq(Effects)
  /\ ledger \in [Names -> Claims]
  /\ worker \in [Workers -> Procs]
  /\ wire \subseteq Requests
  /\ provider \in [Names -> Nat \cup {Foreign, Late}]
  /\ now \in Nat
RuntimeTypeOK == RowsTypeOK /\ solo \in BOOLEAN

Unclaimed == [n \in Names |-> "none"]
Idle ==
  [pc |-> "idle", job |-> 0, deadline |-> 0, rev |-> 0, snap |-> Unclaimed, listed |-> {},
   done |-> {}, effect |-> 0, reply |-> "none"]

\* A target just added: no job yet, nothing delivered.
RuntimeInit ==
  /\ revision = 1
  /\ target = [gen |-> 1, state |-> "active", paused |-> FALSE, status |-> "never",
               active |-> 0, lease |-> NoLease, converged |-> 0, attempted |-> 0]
  /\ jobs = << >>
  /\ effects = << >>
  /\ ledger = Unclaimed
  /\ worker = [w \in Workers |-> Idle]
  /\ wire = {}
  /\ provider = [n \in Names |-> 0]
  /\ now = 0
  /\ solo \in BOOLEAN

-----------------------------------------------------------------------------
(* Triggers: transactions of the request path.                             *)

Open(j) == j.state \in {"queued", "running"}
Busy == target.lease # NoLease /\ target.lease.until > now

\* adoptionSupersedeJob on the active job; an enqueue or a teardown whose
\* active job is no longer open fails as a whole.
Supersede(js, j) ==
  [i \in DOMAIN js |->
     IF i = j /\ Open(js[i]) THEN [js[i] EXCEPT !.state = "superseded", !.owner = "none", !.until = 0]
     ELSE js[i]]
ActiveOpen == target.active # 0 => Open(jobs[target.active])

\* Mutant: a state the table does not admit.
QueuePending(kind, gen) ==
  [kind |-> kind, gen |-> gen, state |-> "pending", owner |-> "none", until |-> 0]

Queue(kind, gen) == [kind |-> kind, gen |-> gen, state |-> "queued", owner |-> "none", until |-> 0]

\* Mutant: the superseded job stays open.
EnqueueBesideActive ==
  /\ target.gen < MaxGeneration /\ ActiveOpen
  /\ jobs' = Append(jobs, Queue("converge", target.gen + 1))
  /\ target' = [target EXCEPT !.gen = @ + 1, !.status = "converging", !.active = Len(jobs) + 1,
                              !.paused = FALSE]

\* enqueuePublishedTargets: the provider lease stays whoever's it is.
Enqueue ==
  /\ target.gen < MaxGeneration /\ ActiveOpen
  /\ jobs' = Append(Supersede(jobs, target.active), Queue("converge", target.gen + 1))
  /\ target' = [target EXCEPT !.gen = @ + 1, !.status = "converging", !.active = Len(jobs) + 1,
                              !.paused = FALSE]

\* A publish enqueues in its own transaction and does not look at the lease.
Publish ==
  /\ revision < Newest
  /\ revision' = revision + 1
  /\ IF target.state = "active" /\ ~target.paused
       THEN Enqueue
       ELSE UNCHANGED <<target, jobs>>
  /\ UNCHANGED <<effects, ledger, worker, wire, provider, now>>

SyncTarget ==
  /\ target.state = "active" /\ ~Busy /\ ~target.paused
  /\ Enqueue
  /\ UNCHANGED <<revision, effects, ledger, worker, wire, provider, now>>

\* Mutant: a pause does not wait for the request in flight.
NotBusyOrIgnored == TRUE

NotBusy == ~Busy

PauseTarget ==
  /\ target.state = "active" /\ ~target.paused /\ NotBusy
  /\ target.gen < MaxGeneration
  /\ jobs' = Supersede(jobs, target.active)
  /\ target' = [target EXCEPT !.gen = @ + 1, !.paused = TRUE, !.active = 0, !.lease = NoLease]
  /\ UNCHANGED <<revision, effects, ledger, worker, wire, provider, now>>

ResumeTarget ==
  /\ target.state = "active" /\ target.paused /\ ~Busy
  /\ Enqueue
  /\ UNCHANGED <<revision, effects, ledger, worker, wire, provider, now>>

ReplaceCredential ==
  /\ target.state = "active" /\ NotBusy
  /\ target.gen < MaxGeneration
  /\ jobs' = [i \in DOMAIN jobs |-> Supersede(jobs, i)[i]]
  /\ target' = [target EXCEPT !.gen = @ + 1, !.active = 0, !.lease = NoLease]
  /\ UNCHANGED <<revision, effects, ledger, worker, wire, provider, now>>

\* teardownAdapterTarget with --keep-remote: the names are let go.
TeardownRetain ==
  /\ target.state = "active" /\ NotBusy /\ ActiveOpen
  /\ target.gen < MaxGeneration
  /\ jobs' = Supersede(jobs, target.active)
  /\ target' = [target EXCEPT !.gen = @ + 1, !.state = "tombstoned", !.status = "converged",
                              !.active = 0, !.lease = NoLease]
  /\ ledger' = [n \in Names |-> IF ledger[n] = "none" THEN "none" ELSE "released"]
  /\ UNCHANGED <<revision, effects, worker, wire, provider, now>>

\* ... and without it: a scrub job deletes them.
TeardownScrub ==
  /\ target.state = "active" /\ NotBusy /\ ActiveOpen
  /\ target.gen < MaxGeneration
  /\ jobs' = Append(Supersede(jobs, target.active), Queue("scrub", target.gen + 1))
  /\ target' = [target EXCEPT !.gen = @ + 1, !.state = "tombstoned", !.status = "converging",
                              !.active = Len(jobs) + 1, !.lease = NoLease]
  /\ UNCHANGED <<revision, effects, ledger, worker, wire, provider, now>>

-----------------------------------------------------------------------------
(* Claiming.                                                               *)

LiveRunning(j) == j.state = "running" /\ j.until > now

\* The target admits the kind of job: kind, target state and pause.
Admits(j) ==
  \/ j.kind = "converge" /\ target.state = "active" /\ ~target.paused
  \/ j.kind = "scrub" /\ target.state = "tombstoned"

\* The open effects whose provider lease is not live: their fate is unknown.
Indeterminate ==
  {e \in DOMAIN effects :
     effects[e].outcome = "open" /\ ~(Busy /\ target.lease.effect = e)}

\* ClaimDue with closeIndeterminateAdapterEffects.  A retry delay only defers it.
ClaimDue(w, i) ==
  /\ worker[w].pc = "idle"
  /\ \/ jobs[i].state = "queued"
     \/ jobs[i].state = "running" /\ jobs[i].until <= now
  /\ \A k \in DOMAIN jobs \ {i} : ~LiveRunning(jobs[k])
  /\ Admits(jobs[i])
  /\ jobs' = [jobs EXCEPT ![i].state = "running", ![i].owner = w, ![i].until = now + LeaseTime]
  /\ effects' = [e \in DOMAIN effects |->
                   IF e \in Indeterminate THEN [effects[e] EXCEPT !.outcome = "unknown"]
                   ELSE effects[e]]
  /\ target' = IF target.lease # NoLease /\ target.lease.effect \in Indeterminate
                 THEN [target EXCEPT !.lease = NoLease]
                 ELSE target
  /\ worker' = [worker EXCEPT ![w] = [Idle EXCEPT !.pc = "claimed", !.job = i,
                                                  !.deadline = now + AttemptTimeout]]
  /\ UNCHANGED <<revision, ledger, wire, provider, now>>

-----------------------------------------------------------------------------
(* One attempt.  Everything but Finish and the settlement runs under the   *)
(* attempt's deadline.                                                     *)

Running(w, pc) == worker[w].pc = pc /\ now < worker[w].deadline
Job(w) == jobs[worker[w].job]
Desires(w) == IF Job(w).kind = "scrub" THEN {} ELSE Desired[worker[w].rev]

\* Mutant: the fence forgets the job and its generation.
CustodyByTarget(w) == Admits(Job(w))

\* Gate and lockCurrentCustody: the job is still this worker's, under a live
\* lease, and the target still at its generation.
Custody(w) ==
  /\ target.gen = Job(w).gen
  /\ Job(w).state = "running" /\ Job(w).owner = w /\ Job(w).until > now
  /\ Admits(Job(w))

\* The names this job has acknowledged at this very revision.
Completed(w, r) ==
  {n \in Names : ledger[n] = "owned" /\
     \E e \in DOMAIN effects : /\ effects[e].job = worker[w].job /\ effects[e].name = n
                               /\ effects[e].outcome = "success" /\ ~effects[e].delete
                               /\ effects[e].rev = r}

\* LoadExecution: revision, ledger and completed names, and the revision pinned.
Load(w) ==
  /\ Running(w, "claimed") /\ Custody(w)
  /\ LET r == IF Job(w).kind = "scrub"
                THEN IF target.attempted >= target.converged THEN target.attempted
                     ELSE target.converged
                ELSE revision
         carried == IF r = worker[w].rev THEN worker[w].done ELSE {}
         resumed == IF Job(w).kind = "scrub" THEN {} ELSE Completed(w, r)
     IN  /\ worker' = [worker EXCEPT ![w].pc = "loaded", ![w].rev = r,
                         ![w].snap = [n \in Names |-> IF ledger[n] = "released" THEN "none"
                                                      ELSE ledger[n]],
                         ![w].done = resumed \cup carried]
         /\ target' = IF Job(w).kind = "scrub" \/ target.attempted >= r THEN target
                      ELSE [target EXCEPT !.attempted = r]
  /\ UNCHANGED <<revision, jobs, effects, ledger, wire, provider, now>>

\* ListSecretNames: read once, before the first write.
ListNames(w) ==
  /\ Running(w, "loaded")
  /\ worker' = [worker EXCEPT ![w].pc = "syncing",
                  ![w].listed = {n \in Names : provider[n] # 0}]
  /\ UNCHANGED <<revision, target, jobs, effects, ledger, wire, provider, now>>

Pending(w) == Desires(w) \ worker[w].done
Snap(w, n) == worker[w].snap[n]

Reserve(w, n) ==
  /\ Running(w, "syncing") /\ Custody(w)
  /\ n \in Pending(w) /\ Snap(w, n) = "none"
  /\ LET claim == IF ledger[n] \in {"none", "released"} THEN "reserved" ELSE ledger[n]
     IN  /\ ledger' = [ledger EXCEPT ![n] = claim]
         /\ worker' = [worker EXCEPT ![w].snap[n] = claim]
  /\ UNCHANGED <<revision, target, jobs, effects, wire, provider, now>>

\* Mutant: only a name reserved in this attempt is checked against the listing.
ConflictsOwnReservation(w, n) == FALSE

\* A name we hold no more than a reservation for is already there.
Conflicts(w, n) == Snap(w, n) = "reserved" /\ n \in worker[w].listed

Refuse(w, n) ==
  /\ Running(w, "syncing") /\ Custody(w)
  /\ n \in Pending(w) /\ Conflicts(w, n) /\ ledger[n] = "reserved"
  /\ ledger' = [ledger EXCEPT ![n] = "none"]
  /\ worker' = [worker EXCEPT ![w].pc = "closing", ![w].reply = "error"]
  /\ UNCHANGED <<revision, target, jobs, effects, wire, provider, now>>

\* Mutant: a write of unknown fate is not pruned.
UndesiredOwned(w) == {n \in Names \ Desires(w) : Snap(w, n) = "owned" /\ n \notin worker[w].done}

Undesired(w) == {n \in Names \ Desires(w) : Snap(w, n) # "none" /\ n \notin worker[w].done}

ReleaseReservation(w, n) ==
  /\ Running(w, "syncing") /\ Pending(w) = {}
  /\ n \in Undesired(w) /\ Snap(w, n) = "reserved"
  /\ Custody(w) /\ ledger[n] = "reserved"
  /\ ledger' = [ledger EXCEPT ![n] = "none"]
  /\ worker' = [worker EXCEPT ![w].done = @ \cup {n}]
  /\ UNCHANGED <<revision, target, jobs, effects, wire, provider, now>>

\* The next write, or once everything desired is there the next prune.
Writes(w, n) == n \in Pending(w) /\ Snap(w, n) # "none" /\ ~Conflicts(w, n)
Prunes(w, n) ==
  /\ Pending(w) = {} /\ n \in Undesired(w) /\ Snap(w, n) # "reserved"
  /\ \A m \in Undesired(w) : Snap(w, m) # "reserved"

\* Prepare: the intent, the provider lease and reserved -> dispatched at once.
Prepare(w, n) ==
  /\ Running(w, "syncing") /\ Custody(w) /\ NotBusy
  /\ Len(effects) < MaxEffects
  /\ Writes(w, n) \/ Prunes(w, n)
  /\ Snap(w, n) = "reserved" => ledger[n] = "reserved"
  /\ LET e == Len(effects) + 1
     IN  /\ target' = [target EXCEPT !.lease = [job |-> worker[w].job, effect |-> e,
                                                until |-> now + LeaseTime]]
         /\ jobs' = [jobs EXCEPT ![worker[w].job].until = now + LeaseTime]
         /\ effects' = Append(effects, [job |-> worker[w].job, name |-> n, rev |-> worker[w].rev,
                                        delete |-> n \notin Desires(w), outcome |-> "open"])
         /\ worker' = [worker EXCEPT ![w].pc = "prepared", ![w].effect = e]
  /\ ledger' = IF Snap(w, n) = "reserved" THEN [ledger EXCEPT ![n] = "dispatched"] ELSE ledger
  /\ UNCHANGED <<revision, wire, provider, now>>

-----------------------------------------------------------------------------
(* The request and its outcome.                                            *)

\* The gate after the intent passes and the request leaves the process.
Send(w) ==
  /\ Running(w, "prepared") /\ Custody(w)
  /\ wire' = wire \cup {[effect |-> worker[w].effect, until |-> target.lease.until]}
  /\ worker' = [worker EXCEPT ![w].pc = "sent"]
  /\ UNCHANGED <<revision, target, jobs, effects, ledger, provider, now>>

\* The gate after the intent fails: the outcome is a write that was never sent.
GateAfterPrepare(w) ==
  /\ worker[w].pc = "prepared"
  /\ worker' = [worker EXCEPT ![w].pc = "replied", ![w].reply = "unsent"]
  /\ UNCHANGED <<revision, target, jobs, effects, ledger, wire, provider, now>>

Landed(e) ==
  [provider EXCEPT ![effects[e].name] = IF effects[e].delete THEN 0 ELSE effects[e].rev]

\* The provider applies the request or refuses it with a 4xx, and the worker
\* learns which or does not.  A request outlives its lease nowhere.
Respond(w, applied, seen) ==
  /\ worker[w].pc = "sent"
  /\ \E q \in wire :
       /\ q.effect = worker[w].effect
       /\ now >= q.until => ~applied /\ ~seen
       /\ wire' = wire \ {q}
  /\ provider' = IF applied THEN Landed(worker[w].effect) ELSE provider
  /\ worker' = [worker EXCEPT ![w].pc = "replied",
                  ![w].reply = IF ~seen THEN "unknown" ELSE IF applied THEN "ok" ELSE "refused"]
  /\ UNCHANGED <<revision, target, jobs, effects, ledger, now>>

\* A request whose worker is gone may still be applied while its lease lives.
LandOrphan(q) ==
  /\ \A w \in Workers : ~(worker[w].pc = "sent" /\ worker[w].effect = q.effect)
  /\ now < q.until
  /\ wire' = wire \ {q}
  /\ provider' = Landed(q.effect)
  /\ UNCHANGED <<revision, target, jobs, effects, ledger, worker, now>>

Live(q) == now < q.until

\* An attempt, a request or a claim already treats the name as free or as ours:
\* the listing is read once, and a name claimed as written is not looked up in it.
Exposed(n) ==
  \/ ledger[n] \in {"dispatched", "owned"}
  \/ \E q \in wire : Live(q) /\ effects[q.effect].name = n
  \/ \E w \in Workers :
       \/ /\ worker[w].pc \in {"loaded", "syncing", "prepared", "sent", "replied"}
          /\ worker[w].snap[n] \notin {"none", "reserved"}
       \/ /\ worker[w].pc \in {"syncing", "prepared", "sent", "replied"}
          /\ n \notin worker[w].listed
       \/ /\ worker[w].pc \in {"prepared", "sent", "replied"}
          /\ effects[worker[w].effect].name = n

\* Somebody else creates a name at the destination, at any time.
SomebodyAdds(n) ==
  /\ provider[n] = 0
  /\ provider' = [provider EXCEPT ![n] = IF Exposed(n) THEN Late ELSE Foreign]
  /\ UNCHANGED <<revision, target, jobs, effects, ledger, worker, wire, now>>

\* What the module reports for a reply, given the claim the attempt started from.
Outcome(reply) ==
  CASE reply = "ok" -> "success" [] reply = "unknown" -> "unknown" [] OTHER -> "failure"

\* Mutant: no answer counts as a refusal.
CompletionOfSilence(e, reply, prior) ==
  CASE reply = "ok" -> IF e.delete THEN "released" ELSE "owned"
    [] reply \in {"unknown", "refused"} /\ prior = "reserved" -> "none"
    [] OTHER -> prior

Completion(e, reply, prior) ==
  CASE reply = "ok" -> IF e.delete THEN "released" ELSE "owned"
    [] reply = "unknown" /\ ~e.delete -> "dispatched"
    [] reply = "refused" /\ prior = "reserved" -> "none"
    [] OTHER -> prior

\* ErrProviderAuth ends a delivery as an authority refusal does, a scrub in its own way.
Rejected(w) == IF Job(w).kind = "scrub" THEN "credential" ELSE "unauthorized"

\* Mutant: an outcome is recorded without its provider lease.
RecordsUnleased(w) == ledger[effects[worker[w].effect].name] # "none"

\* Finish is fenced by the effect and the provider lease, not by the job lease.
Records(w) ==
  /\ effects[worker[w].effect].outcome = "open"
  /\ ledger[effects[worker[w].effect].name] # "none"
  /\ target.lease # NoLease
  /\ target.lease.job = worker[w].job /\ target.lease.effect = worker[w].effect

Finish(w) ==
  /\ worker[w].pc = "replied" /\ Records(w)
  /\ LET e == effects[worker[w].effect]
         n == e.name
         claim == Completion(e, worker[w].reply, Snap(w, n))
     IN  /\ effects' = [effects EXCEPT ![worker[w].effect].outcome = Outcome(worker[w].reply)]
         /\ ledger' = [ledger EXCEPT ![n] =
                         IF @ = "released" /\ claim # "none" THEN "released" ELSE claim]
         /\ target' = [target EXCEPT !.lease = NoLease]
         /\ IF worker[w].reply = "ok"
              THEN worker' = [worker EXCEPT ![w].pc = "syncing", ![w].done = @ \cup {n},
                                            ![w].snap[n] = IF e.delete THEN @ ELSE "owned",
                                            ![w].effect = 0, ![w].reply = "none"]
              ELSE \E cause \in CASE worker[w].reply = "unsent" ->
                                      {"error", "unauthorized", "superseded"}
                                 [] worker[w].reply = "refused" -> {"error", Rejected(w)}
                                 [] OTHER -> {"error"} :
                     /\ cause = "superseded" => ~Custody(w)
                     /\ worker' = [worker EXCEPT ![w].pc = "closing", ![w].effect = 0,
                                                 ![w].reply = cause]
  /\ UNCHANGED <<revision, jobs, wire, provider, now>>

\* A late outcome: the transaction rolls back and the attempt ends.
FinishRefused(w) ==
  /\ worker[w].pc = "replied" /\ ~Records(w)
  /\ worker' = [worker EXCEPT ![w].pc = "closing", ![w].effect = 0,
                  ![w].reply = IF effects[worker[w].effect].outcome = "open"
                                 THEN "superseded" ELSE "error"]
  /\ UNCHANGED <<revision, target, jobs, effects, ledger, wire, provider, now>>

-----------------------------------------------------------------------------
(* The end of an attempt.                                                  *)

\* A call before the next intent is refused or fails.
GiveUp(w, cause) ==
  /\ worker[w].pc \in {"claimed", "loaded", "syncing"}
  /\ \/ cause = "error"
     \/ cause \in {"unauthorized", Rejected(w)} /\ now < worker[w].deadline
     \/ /\ cause = "superseded" /\ now < worker[w].deadline
        /\ \/ ~Custody(w)
           \/ \E n \in Names : Snap(w, n) = "reserved" /\ ledger[n] # "reserved"
  /\ worker' = [worker EXCEPT ![w].pc = "closing", ![w].reply = cause]
  /\ UNCHANGED <<revision, target, jobs, effects, ledger, wire, provider, now>>

\* A rate limit is waited out inside the attempt, which then loads again.
WaitAndReload(w) ==
  /\ Running(w, "closing") /\ worker[w].reply = "error"
  /\ worker' = [worker EXCEPT ![w].pc = "claimed", ![w].reply = "none"]
  /\ UNCHANGED <<revision, target, jobs, effects, ledger, wire, provider, now>>

\* Mutant: settlement asks neither who owns the job nor its generation.
SettlesStale(w) == target.lease = NoLease

\* finishJob: the row is still this worker's, and the outcome lands on the
\* generation it is about once no request is out.
Settles(w) == Job(w).owner = w /\ target.gen = Job(w).gen /\ target.lease = NoLease

Succeed(w) ==
  /\ worker[w].pc = "syncing" /\ Pending(w) = {} /\ Undesired(w) = {}
  /\ Settles(w)
  /\ jobs' = [jobs EXCEPT ![worker[w].job].state = "succeeded", ![worker[w].job].owner = "none",
                          ![worker[w].job].until = 0]
  /\ target' = IF Job(w).kind = "scrub" THEN [target EXCEPT !.status = "converged", !.active = 0]
               ELSE [target EXCEPT !.status = "converged", !.converged = worker[w].rev,
                                   !.attempted = worker[w].rev, !.active = 0]
  /\ worker' = [worker EXCEPT ![w] = Idle]
  /\ UNCHANGED <<revision, effects, ledger, wire, provider, now>>

\* Retry keeps the job; Fail ends it, after an authority refusal or when the
\* provider rejects the credential of a delivery.
Retry(w) ==
  /\ worker[w].pc = "closing" /\ worker[w].reply \in {"error", "unauthorized"}
  /\ Settles(w)
  /\ LET i == worker[w].job
         again == worker[w].reply = "error"
     IN  /\ jobs' = [jobs EXCEPT ![i].state = IF again THEN "queued" ELSE "failed",
                                 ![i].owner = "none", ![i].until = 0]
         /\ target' = [target EXCEPT !.status = "failed",
                                     !.attempted = IF worker[w].rev > 0 THEN worker[w].rev ELSE @,
                                     !.active = IF again THEN @ ELSE 0]
  /\ worker' = [worker EXCEPT ![w] = Idle]
  /\ UNCHANGED <<revision, effects, ledger, wire, provider, now>>

\* finishDeadCredentialScrub: a scrub whose credential is dead lets the names go.
DeadCredential(w) ==
  /\ worker[w].pc = "closing" /\ worker[w].reply = "credential" /\ Job(w).kind = "scrub"
  /\ Settles(w)
  /\ jobs' = [jobs EXCEPT ![worker[w].job].state = "failed", ![worker[w].job].owner = "none",
                          ![worker[w].job].until = 0]
  /\ target' = [target EXCEPT !.status = "failed", !.active = 0]
  /\ ledger' = [n \in Names |-> IF ledger[n] = "none" THEN "none" ELSE "released"]
  /\ worker' = [worker EXCEPT ![w] = Idle]
  /\ UNCHANGED <<revision, effects, wire, provider, now>>

\* Fail after ErrSuperseded: the job ends and is detached; nothing else moves.
Abort(w) ==
  /\ worker[w].pc = "closing" /\ worker[w].reply = "superseded"
  /\ Job(w).owner = w
  /\ jobs' = [jobs EXCEPT ![worker[w].job].state = "failed", ![worker[w].job].owner = "none",
                          ![worker[w].job].until = 0]
  /\ target' = IF target.active = worker[w].job THEN [target EXCEPT !.active = 0] ELSE target
  /\ worker' = [worker EXCEPT ![w] = Idle]
  /\ UNCHANGED <<revision, effects, ledger, wire, provider, now>>

\* A crash, or a settlement that is refused or runs out of its own deadline.
Crash(w) ==
  /\ worker[w].pc # "idle"
  /\ worker' = [worker EXCEPT ![w] = Idle]
  /\ UNCHANGED <<revision, target, jobs, effects, ledger, wire, provider, now>>

Tick ==
  /\ now < MaxNow
  /\ now' = now + 1
  /\ UNCHANGED <<revision, target, jobs, effects, ledger, worker, wire, provider>>

-----------------------------------------------------------------------------

Trigger ==
  \/ Publish \/ SyncTarget \/ PauseTarget \/ ResumeTarget \/ ReplaceCredential
  \/ TeardownRetain \/ TeardownScrub

WorkerStep(w) ==
  \/ \E i \in DOMAIN jobs : ClaimDue(w, i)
  \/ Load(w) \/ ListNames(w)
  \/ \E n \in Names : Reserve(w, n) \/ Refuse(w, n) \/ ReleaseReservation(w, n) \/ Prepare(w, n)
  \/ Send(w) \/ GateAfterPrepare(w)
  \/ \E applied, seen \in BOOLEAN : Respond(w, applied, seen)
  \/ Finish(w) \/ FinishRefused(w)
  \/ \E cause \in {"error", "unauthorized", "credential", "superseded"} : GiveUp(w, cause)
  \/ WaitAndReload(w) \/ Succeed(w) \/ Retry(w) \/ DeadCredential(w) \/ Abort(w) \/ Crash(w)

RuntimeStep ==
  \/ Trigger
  \/ \E w \in Workers : WorkerStep(w)
  \/ \E q \in wire : LandOrphan(q)
  \/ \E n \in ForeignNames : SomebodyAdds(n)
  \/ Tick

\* A process runs its attempts one after the other (Worker.Run), so attempts
\* overlap only where several nodes deliver.
OneAttempt == \A v, w \in Workers : worker[v].pc # "idle" /\ worker[w].pc # "idle" => v = w

RuntimeNext == RuntimeStep /\ UNCHANGED solo /\ (solo => OneAttempt')

RuntimeSpec == RuntimeInit /\ [][RuntimeNext]_runtimeVars

-----------------------------------------------------------------------------
(* Properties.                                                             *)

Delivered(v) == v \notin {0, Foreign, Late}

\* The provider lease lets at most one request of the target be on the wire,
\* whatever is superseded, paused, reclaimed or crashed meanwhile.
OneRequestInFlight == \A q, r \in wire : Live(q) /\ Live(r) => q = r

\* The open job of a target is its active job and of its generation.  Were the
\* active job closed, the next publish of the environment would fail.
OpenJobIsActive ==
  /\ \A i \in DOMAIN jobs : Open(jobs[i]) => i = target.active /\ jobs[i].gen = target.gen
  /\ target.active # 0 => Open(jobs[target.active])

\* The queue is sound (Claim, tryEnqueue, supersede): one open job per target,
\* and one request of it on the wire.
QueueSound == RuntimeTypeOK /\ OpenJobIsActive /\ OneRequestInFlight

\* A target that reports convergence holds every desired name at the revision it
\* reports.
ConvergedIsDelivered ==
  target.status = "converged" /\ target.state = "active" =>
    /\ target.converged \in Revisions
    /\ \A n \in Desired[target.converged] : provider[n] = target.converged

\* A scrub that succeeded left nothing of ours at the provider.
ScrubLeavesNothing ==
  (\E i \in DOMAIN jobs : jobs[i].kind = "scrub" /\ jobs[i].state = "succeeded") =>
    \A n \in Names : ~Delivered(provider[n])

\* Whatever we delivered is claimed as written until the target is let go: a
\* reservation claims nothing at the provider.
DeliveredIsClaimed ==
  \A n \in Names :
    Delivered(provider[n]) => ledger[n] \in {"dispatched", "owned", "released"}

\* What was delivered stays in custody (module.go, ledger.go): it is claimed while
\* the target lives and gone after a scrub.  Attempts that overlap break both.
CustodySound == DeliveredIsClaimed /\ ScrubLeavesNothing

\* One process keeps custody (module.go, ledger.go): whatever answer is lost and
\* whatever attempt crashes, what was delivered stays claimed, and a scrub that
\* succeeded has deleted it.
CustodyKept == solo => CustodySound

\* An intent without an outcome still has a claim ahead of it that closes it: a
\* tombstoned target without an open job is never claimed again.
IntentsPair ==
  \A e \in DOMAIN effects :
    effects[e].outcome = "open" => target.state = "active" \/ target.active # 0

\* The stale-write fence: an older revision never replaces a newer one.
NoStaleWrite ==
  [][\A n \in Names :
       Delivered(provider[n]) /\ Delivered(provider'[n]) => provider'[n] >= provider[n]]_runtimeVars

\* A write is acknowledged only while the provider holds what it wrote, a delete
\* only while nothing of ours is there, and an outcome once recorded stays.
OutcomesAreTrue ==
  [][\A e \in DOMAIN effects :
       /\ effects[e].outcome = "open" /\ effects'[e].outcome = "success" =>
            IF effects[e].delete THEN ~Delivered(provider[effects[e].name])
            ELSE provider[effects[e].name] = effects[e].rev
       /\ effects[e].outcome # "open" => effects'[e].outcome = effects[e].outcome]_runtimeVars

\* A name somebody else added is neither overwritten nor deleted (module.go's
\* conflict refusal), by whatever attempt, retry or request of a crashed worker
\* comes later: unless it was added where the runtime no longer looked (Exposed).
ForeignUntouched ==
  [][\A n \in Names : provider[n] = Foreign => provider'[n] = Foreign]_runtimeVars

\* ... and without the exception, which the single listing does not give: a name
\* added after it is overwritten by the create-or-update request.
AdditionsKept ==
  [][\A n \in Names : provider[n] \in {Foreign, Late} => provider'[n] = provider[n]]_runtimeVars

\* The converged revision never goes back.
ConvergedAdvances == [][target'.converged >= target.converged]_runtimeVars

\* Nothing goes back (RecordOutcome, settleConverged): neither a value at the
\* provider nor the revision reported for the target.
NothingGoesBack == NoStaleWrite /\ ConvergedAdvances

\* What the runtime reports is true (RecordOutcome, settleConverged): of each
\* effect when its outcome is recorded, of the target for as long as it says so.
ReportsAreTrue == []ConvergedIsDelivered /\ OutcomesAreTrue
=============================================================================
