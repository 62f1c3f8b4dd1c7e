--------------------------- MODULE SchedulerLease ---------------------------
(***************************************************************************)
(* The high-availability scheduler: every node runs the heartbeat loop of *)
(* internal/app/scheduler.go (runHA) against the fenced singleton lease   *)
(* of internal/store/coordination.go, and the jobs of a leadership term   *)
(* write through tx.Write, which checks the lease in the same transaction *)
(* (internal/store/coordination_fence.go).                                *)
(*                                                                         *)
(* A heartbeat is several datastore round trips, so it is several steps:  *)
(* time passes, other nodes act and the process may pause, be stopped or  *)
(* crash between them.  A round trip that fails may have been applied.    *)
(***************************************************************************)
EXTENDS Naturals, Sequences, FiniteSets

CONSTANTS
  Nodes,      \* the replicas
  NoNode,     \* stands for "no owner"
  TTL,        \* leaseTTL(), in ticks of the datastore clock
  MaxClock,   \* bound on the datastore clock
  MaxFence,   \* bound on fence tokens
  MaxLog      \* bound on committed job writes

ASSUME NoNodeAssumption == NoNode \notin Nodes
ASSUME TTLAssumption == TTL \in Nat \ {0}
ASSUME BoundsAssumption == MaxClock \in Nat /\ MaxFence \in Nat /\ MaxLog \in Nat

VARIABLES
  clock,        \* the datastore clock
  lease,        \* the singleton_leases row; fence 0 means no row yet
  pc,           \* where the node's heartbeat loop is
  stop,         \* the process context is cancelled (shutdown requested)
  now,          \* the datastore time this heartbeat read
  leader,       \* Scheduler.leader
  fence,        \* runHA's fence
  unconfirmed,  \* runHA's unconfirmedClaim
  expiresAt,    \* runHA's expiresAt
  termDone,     \* runHA's termDone: the fence of the tracked term, 0 for nil
  terms,        \* the fences whose term goroutine has not exited
  job,          \* the open job transaction that holds the lease row lock
  log           \* the fence of every committed job write, oldest first

local == <<pc, stop, now, leader, fence, unconfirmed, expiresAt, termDone>>
vars == <<clock, lease, local, terms, job, log>>

NoJob == [node |-> NoNode, fence |-> 0]

TypeOK ==
  /\ clock \in Nat
  /\ lease \in [owner : Nodes \cup {NoNode}, fence : Nat, expires : Nat]
  /\ pc \in [Nodes -> {"down", "idle", "renew", "acquire", "won", "stopping"}]
  /\ stop \in [Nodes -> BOOLEAN]
  /\ now \in [Nodes -> Nat]
  /\ leader \in [Nodes -> BOOLEAN]
  /\ fence \in [Nodes -> Nat]
  /\ unconfirmed \in [Nodes -> BOOLEAN]
  /\ expiresAt \in [Nodes -> Nat]
  /\ termDone \in [Nodes -> Nat]
  /\ terms \in [Nodes -> SUBSET Nat]
  /\ job \in [node : Nodes \cup {NoNode}, fence : Nat]
  /\ log \in Seq(Nat)

Init ==
  /\ clock = 0
  /\ lease = [owner |-> NoNode, fence |-> 0, expires |-> 0]
  /\ pc = [n \in Nodes |-> "down"]
  /\ stop = [n \in Nodes |-> FALSE]
  /\ now = [n \in Nodes |-> 0]
  /\ leader = [n \in Nodes |-> FALSE]
  /\ fence = [n \in Nodes |-> 0]
  /\ unconfirmed = [n \in Nodes |-> FALSE]
  /\ expiresAt = [n \in Nodes |-> 0]
  /\ termDone = [n \in Nodes |-> 0]
  /\ terms = [n \in Nodes |-> {}]
  /\ job = NoJob
  /\ log = << >>

-----------------------------------------------------------------------------
(* The lease row.                                                          *)

\* Mutant: the expiry comparison is off by one.
ClaimableOneEarly(t) == lease.fence = 0 \/ lease.expires <= t + 1

\* A claim wins when there is no row or the row had lapsed at the claimer's
\* clock reading; every win takes the next fence token.
Claimable(t) == lease.fence = 0 \/ lease.expires <= t

Claimed(n, expires) ==
  [owner |-> n, fence |-> lease.fence + 1, expires |-> expires]

\* A renewal needs the row to be this term's and unlapsed at the caller's
\* clock reading.
Renewable(n, f, t) == lease.owner = n /\ lease.fence = f /\ lease.expires > t

Renewed(expires) == [lease EXCEPT !.expires = expires]

\* Mutant: the row is deleted, so the next claim restarts at fence 1.
ReleasedDeletingRow(n, f) ==
  IF f # 0 /\ lease.owner = n /\ lease.fence = f
  THEN [owner |-> NoNode, fence |-> 0, expires |-> 0] ELSE lease

\* Mutant: the lapse is backdated from the clock, below its origin.
ReleasedBackdated(n, f) ==
  IF f # 0 /\ lease.owner = n /\ lease.fence = f
  THEN [lease EXCEPT !.expires = clock - 1] ELSE lease

\* A release marks the caller's own term lapsed and keeps the fence token.
Released(n, f) ==
  IF f # 0 /\ lease.owner = n /\ lease.fence = f
  THEN [lease EXCEPT !.expires = 0] ELSE lease

\* Mutant: the guard forgets whose term it is.
GuardAnyLiveTerm(n, f) == lease.expires > clock

\* The guard that tx.Write evaluates inside a job's transaction, against the
\* clock at that moment; it locks the row until the transaction ends.
GuardSingletonLease(n, f) ==
  lease.owner = n /\ lease.fence = f /\ lease.expires > clock

\* Mutant: the guard reads the row without locking it.
NeverLocked == TRUE

Unlocked == job = NoJob

-----------------------------------------------------------------------------
(* The heartbeat loop.                                                     *)

\* Mutant: a cancelled term is taken to have ended.
NeverDraining(n) == FALSE

Draining(n) == termDone[n] \in terms[n]

\* The process starts with the zero values a fresh runHA has.
Boot(n) ==
  /\ pc[n] = "down"
  /\ pc' = [pc EXCEPT ![n] = "idle"]
  /\ UNCHANGED <<clock, lease, stop, now, leader, fence, unconfirmed,
                 expiresAt, termDone, terms, job, log>>

\* The heartbeat reads the datastore clock; a leader past its own deadline
\* drops leadership before it attempts anything.
ReadClock(n) ==
  /\ pc[n] = "idle"
  /\ ~stop[n]
  /\ now' = [now EXCEPT ![n] = clock]
  /\ LET lapsed == clock >= expiresAt[n]
         still  == leader[n] /\ ~lapsed
     IN  /\ leader' = [leader EXCEPT ![n] = still]
         /\ pc' = [pc EXCEPT ![n] = IF still THEN "renew" ELSE "acquire"]
  /\ UNCHANGED <<clock, lease, stop, fence, unconfirmed, expiresAt, termDone,
                 terms, job, log>>

\* The clock read fails, or the loop is stopping: fail closed.
ClockUnreachable(n) ==
  /\ pc[n] = "idle"
  /\ leader' = [leader EXCEPT ![n] = FALSE]
  /\ UNCHANGED <<clock, lease, pc, stop, now, fence, unconfirmed, expiresAt,
                 termDone, terms, job, log>>

RenewHeld(n) ==
  /\ pc[n] = "renew"
  /\ ~stop[n]
  /\ Unlocked
  /\ Renewable(n, fence[n], now[n])
  /\ lease' = Renewed(now[n] + TTL)
  /\ expiresAt' = [expiresAt EXCEPT ![n] = now[n] + TTL]
  /\ pc' = [pc EXCEPT ![n] = "idle"]
  /\ UNCHANGED <<clock, stop, now, leader, fence, unconfirmed, termDone,
                 terms, job, log>>

\* The renewal matches no row, or its answer is an error although the row may
\* have been extended: leadership is dropped and the heartbeat goes on.
RenewLost(n) ==
  /\ pc[n] = "renew"
  /\ \/ UNCHANGED lease
     \/ Unlocked /\ Renewable(n, fence[n], now[n]) /\ lease' = Renewed(now[n] + TTL)
  /\ leader' = [leader EXCEPT ![n] = FALSE]
  /\ pc' = [pc EXCEPT ![n] = "acquire"]
  /\ UNCHANGED <<clock, stop, now, fence, unconfirmed, expiresAt, termDone,
                 terms, job, log>>

\* No acquisition while the process stops or the previous term still drains.
AcquireSkipped(n) ==
  /\ pc[n] = "acquire"
  /\ stop[n] \/ Draining(n)
  /\ pc' = [pc EXCEPT ![n] = "idle"]
  /\ UNCHANGED <<clock, lease, stop, now, leader, fence, unconfirmed,
                 expiresAt, termDone, terms, job, log>>

MayAcquire(n) == pc[n] = "acquire" /\ ~stop[n] /\ ~Draining(n)

\* A claim whose answer was lost is confirmed by renewing its exact token.
ConfirmHeld(n) ==
  /\ MayAcquire(n)
  /\ unconfirmed[n]
  /\ Unlocked
  /\ Renewable(n, fence[n], now[n])
  /\ lease' = Renewed(now[n] + TTL)
  /\ pc' = [pc EXCEPT ![n] = "won"]
  /\ UNCHANGED <<clock, stop, now, leader, fence, unconfirmed, expiresAt,
                 termDone, terms, job, log>>

\* The token was never committed, lapsed, or was taken over: forget it and
\* go on to an ordinary claim in the same heartbeat.
ConfirmRefused(n) ==
  /\ MayAcquire(n)
  /\ unconfirmed[n]
  /\ Unlocked
  /\ ~Renewable(n, fence[n], now[n])
  /\ unconfirmed' = [unconfirmed EXCEPT ![n] = FALSE]
  /\ fence' = [fence EXCEPT ![n] = 0]
  /\ UNCHANGED <<clock, lease, pc, stop, now, leader, expiresAt, termDone,
                 terms, job, log>>

\* The confirmation itself fails, applied or not: the token stays provisional.
ConfirmFailed(n) ==
  /\ MayAcquire(n)
  /\ unconfirmed[n]
  /\ \/ UNCHANGED lease
     \/ Unlocked /\ Renewable(n, fence[n], now[n]) /\ lease' = Renewed(now[n] + TTL)
  /\ pc' = [pc EXCEPT ![n] = "idle"]
  /\ UNCHANGED <<clock, stop, now, leader, fence, unconfirmed, expiresAt,
                 termDone, terms, job, log>>

CanClaim(n) ==
  /\ MayAcquire(n)
  /\ ~unconfirmed[n]
  /\ Unlocked
  /\ Claimable(now[n])
  /\ lease.fence < MaxFence

\* The claim commits and answers.
ClaimHeld(n) ==
  /\ CanClaim(n)
  /\ lease' = Claimed(n, now[n] + TTL)
  /\ fence' = [fence EXCEPT ![n] = lease.fence + 1]
  /\ unconfirmed' = [unconfirmed EXCEPT ![n] = TRUE]
  /\ pc' = [pc EXCEPT ![n] = "won"]
  /\ UNCHANGED <<clock, stop, now, leader, expiresAt, termDone, terms, job, log>>

\* The claim produced a token but its commit answered with an error: the row
\* may or may not carry it.
ClaimAmbiguous(n) ==
  /\ CanClaim(n)
  /\ lease' \in {lease, Claimed(n, now[n] + TTL)}
  /\ fence' = [fence EXCEPT ![n] = lease.fence + 1]
  /\ unconfirmed' = [unconfirmed EXCEPT ![n] = TRUE]
  /\ pc' = [pc EXCEPT ![n] = "idle"]
  /\ UNCHANGED <<clock, stop, now, leader, expiresAt, termDone, terms, job, log>>

\* Somebody holds the lease, the topology refuses this node, or the datastore
\* fails before a token exists.
ClaimRefused(n) ==
  /\ MayAcquire(n)
  /\ ~unconfirmed[n]
  /\ pc' = [pc EXCEPT ![n] = "idle"]
  /\ UNCHANGED <<clock, lease, stop, now, leader, fence, unconfirmed,
                 expiresAt, termDone, terms, job, log>>

\* startTerm: only a node that is not stopping begins to run jobs.
StartTerm(n) ==
  /\ pc[n] = "won"
  /\ ~stop[n]
  /\ unconfirmed' = [unconfirmed EXCEPT ![n] = FALSE]
  /\ expiresAt' = [expiresAt EXCEPT ![n] = now[n] + TTL]
  /\ leader' = [leader EXCEPT ![n] = TRUE]
  /\ termDone' = [termDone EXCEPT ![n] = fence[n]]
  /\ terms' = [terms EXCEPT ![n] = @ \cup {fence[n]}]
  /\ pc' = [pc EXCEPT ![n] = "idle"]
  /\ UNCHANGED <<clock, lease, stop, now, fence, job, log>>

WonButStopping(n) ==
  /\ pc[n] = "won"
  /\ stop[n]
  /\ pc' = [pc EXCEPT ![n] = "idle"]
  /\ UNCHANGED <<clock, lease, stop, now, leader, fence, unconfirmed,
                 expiresAt, termDone, terms, job, log>>

-----------------------------------------------------------------------------
(* Shutdown and crash.                                                     *)

RequestStop(n) ==
  /\ pc[n] # "down"
  /\ ~stop[n]
  /\ stop' = [stop EXCEPT ![n] = TRUE]
  /\ UNCHANGED <<clock, lease, pc, now, leader, fence, unconfirmed, expiresAt,
                 termDone, terms, job, log>>

\* The loop sees ctx.Done: it cancels the term and waits for it.
BeginStop(n) ==
  /\ pc[n] = "idle"
  /\ stop[n]
  /\ leader' = [leader EXCEPT ![n] = FALSE]
  /\ pc' = [pc EXCEPT ![n] = "stopping"]
  /\ UNCHANGED <<clock, lease, stop, now, fence, unconfirmed, expiresAt,
                 termDone, terms, job, log>>

\* The process ends: its memory and its open transaction are gone, the row
\* stays as it is.
ProcessGone(n) ==
  /\ pc' = [pc EXCEPT ![n] = "down"]
  /\ stop' = [stop EXCEPT ![n] = FALSE]
  /\ now' = [now EXCEPT ![n] = 0]
  /\ leader' = [leader EXCEPT ![n] = FALSE]
  /\ fence' = [fence EXCEPT ![n] = 0]
  /\ unconfirmed' = [unconfirmed EXCEPT ![n] = FALSE]
  /\ expiresAt' = [expiresAt EXCEPT ![n] = 0]
  /\ termDone' = [termDone EXCEPT ![n] = 0]
  /\ terms' = [terms EXCEPT ![n] = {}]
  /\ job' = IF job.node = n THEN NoJob ELSE job
  /\ UNCHANGED <<clock, log>>

\* The term has ended: hand the lease over, unless that fails.
StopReleased(n) ==
  /\ pc[n] = "stopping"
  /\ ~Draining(n)
  /\ \/ Unlocked /\ lease' = Released(n, fence[n])
     \/ UNCHANGED lease
  /\ ProcessGone(n)

\* The term does not end in time: leave the lease to lapse.
StopAbandoned(n) ==
  /\ pc[n] = "stopping"
  /\ Draining(n)
  /\ UNCHANGED lease
  /\ ProcessGone(n)

Crash(n) ==
  /\ pc[n] # "down"
  /\ UNCHANGED lease
  /\ ProcessGone(n)

-----------------------------------------------------------------------------
(* The jobs of a term.  A cancelled term may still be running: the guard, *)
(* not the cancellation, is what keeps its writes out.                    *)

JobBegin(n, f) ==
  /\ f \in terms[n]
  /\ Unlocked
  /\ GuardSingletonLease(n, f)
  /\ job' = [node |-> n, fence |-> f]
  /\ UNCHANGED <<clock, lease, local, terms, log>>

JobCommit(n) ==
  /\ job.node = n
  /\ Len(log) < MaxLog
  /\ log' = Append(log, job.fence)
  /\ job' = NoJob
  /\ UNCHANGED <<clock, lease, local, terms>>

JobRollback(n) ==
  /\ job.node = n
  /\ job' = NoJob
  /\ UNCHANGED <<clock, lease, local, terms, log>>

\* runLoop returns once its context is cancelled.
TermExit(n, f) ==
  /\ f \in terms[n]
  /\ ~(leader[n] /\ fence[n] = f)
  /\ ~(job.node = n /\ job.fence = f)
  /\ terms' = [terms EXCEPT ![n] = @ \ {f}]
  /\ UNCHANGED <<clock, lease, local, job, log>>

Tick ==
  /\ clock < MaxClock
  /\ clock' = clock + 1
  /\ UNCHANGED <<lease, local, terms, job, log>>

Heartbeat(n) ==
  \/ ReadClock(n) \/ ClockUnreachable(n)
  \/ RenewHeld(n) \/ RenewLost(n)
  \/ AcquireSkipped(n)
  \/ ConfirmHeld(n) \/ ConfirmRefused(n) \/ ConfirmFailed(n)
  \/ ClaimHeld(n) \/ ClaimAmbiguous(n) \/ ClaimRefused(n)
  \/ StartTerm(n) \/ WonButStopping(n)

Lifecycle(n) ==
  \/ Boot(n) \/ RequestStop(n) \/ BeginStop(n)
  \/ StopReleased(n) \/ StopAbandoned(n) \/ Crash(n)

Jobs(n) ==
  \/ \E f \in terms[n] : JobBegin(n, f) \/ TermExit(n, f)
  \/ JobCommit(n) \/ JobRollback(n)

Next == Tick \/ \E n \in Nodes : Heartbeat(n) \/ Lifecycle(n) \/ Jobs(n)

Spec == Init /\ [][Next]_vars

-----------------------------------------------------------------------------
(* Properties.                                                             *)

\* A node that believes it leads, and whose own deadline has not passed, is
\* the owner in the lease row, under its own fence, for at least that long
\* (runHA's expiresAt, however stale the clock reading it was computed from).
LeaderHoldsLease ==
  \A n \in Nodes :
    leader[n] /\ clock < expiresAt[n] =>
      /\ lease.owner = n
      /\ lease.fence = fence[n]
      /\ lease.expires >= expiresAt[n]

\* A job transaction admitted by GuardSingletonLease belongs to the newest
\* term until it ends: no takeover passes the row lock.
OpenJobIsNewestTerm ==
  job # NoJob => job.node = lease.owner /\ job.fence = lease.fence

\* The committed writes of all terms are in term order: a paused leader never
\* commits after its successor did.
CommitsInTermOrder ==
  \A i, j \in 1..Len(log) : i <= j => log[i] <= log[j]

\* A node never runs two leadership terms at once, even across a lost and
\* regained lease (termDone in runHA).
OneTermPerNode == \A n \in Nodes : Cardinality(terms[n]) <= 1

\* Leadership is safe: whatever is paused, lost or crashed (scheduler.go, runHA;
\* coordination_fence.go, GuardSingletonLease), only the owner of the lease row
\* leads within its deadline, terms follow one another on every node, and the
\* writes of their jobs follow in the same order.
LeadershipSafe ==
  TypeOK /\ LeaderHoldsLease /\ OpenJobIsNewestTerm /\ CommitsInTermOrder /\ OneTermPerNode

\* The lease and the jobs together implement one fenced log: releases,
\* renewals and lost answers never make a fence token come back.
FencedLogSpec == INSTANCE FencedLog WITH term <- lease.fence, log <- log
ImplementsFencedLog == FencedLogSpec!Spec

\* RenewLease's comment: a paused holder that wakes after its lease lapsed
\* does not extend it under its old fence.
RenewNeverRevives ==
  [][lease'.fence = lease.fence /\ lease'.expires > lease.expires
       => lease.expires > clock]_vars
=============================================================================
