------------------------- MODULE SnapshotRetention -------------------------
(***************************************************************************)
(* What keeps a published snapshot's payload and what collects it         *)
(* (internal/service/retention.go, internal/service/pins.go and           *)
(* store/queries/sqlite/retention.sql).                                   *)
(*                                                                         *)
(* One project.  Policies of the organisation and of the project say how  *)
(* old and how far down the history a payload must be to be collected; a  *)
(* pin keeps one revision for one workload until it expires; the          *)
(* self-configuration holds the snapshots it runs from.  The sweep works  *)
(* in chunks, each a transaction under a clock reading taken before it    *)
(* began, and every request may commit between two chunks.                *)
(***************************************************************************)
EXTENDS Naturals, Sequences, FiniteSets

CONSTANTS
  Envs,
  Workloads,
  Bounds,        \* the bounded policies an administrator may choose
  SelfConfigured,\* environments whose snapshots the self-configuration holds
  NoPin,
  NoOverride,
  Batch,         \* RetentionBatchSize
  MaxPinLife,    \* MaxPinLifetime
  PinQuota,      \* PinQuotaPerProject
  MaxRevision,   \* bound on an environment's revisions
  MaxNow         \* bound on the clock

ASSUME PolicyAssumption ==
  /\ Bounds \subseteq [unlimited : {FALSE}, age : Nat \ {0}, last : Nat \ {0}]
  /\ Bounds # {}
  /\ NoOverride \notin Bounds
ASSUME PinAssumption ==
  /\ NoPin \notin [revision : Nat, expires : Nat]
  /\ MaxPinLife \in Nat \ {0} /\ PinQuota \in Nat /\ Batch \in Nat \ {0}
\* The self-configuration's own project admits no service account.
ASSUME SelfConfiguredAssumption ==
  SelfConfigured \subseteq Envs /\ (SelfConfigured # {} => Workloads = {})
ASSUME RetentionBoundsAssumption == MaxRevision \in Nat /\ MaxNow \in Nat

VARIABLES
  snapshots, \* per environment, the headers in revision order
  org,       \* the organisation's policy
  override,  \* the project's own, or NoOverride
  pins,      \* revision_pins: one per workload and environment
  held,      \* self_config_retention: <<environment, revision>>
  sweeping,  \* whether a sweep is between two chunks
  now

retentionVars == <<snapshots, org, override, pins, held, sweeping, now>>

Headers == [at : Nat, present : BOOLEAN]
Policies == [unlimited : BOOLEAN, age : Nat \ {0}, last : Nat \ {0}]
Pins == [revision : Nat, expires : Nat]

RetentionTypeOK ==
  /\ snapshots \in [Envs -> Seq(Headers)]
  /\ org \in Policies
  /\ override \in Bounds \cup {NoOverride}
  /\ pins \in [Workloads -> [Envs -> Pins \cup {NoPin}]]
  /\ \A w \in Workloads, e \in Envs :
       pins[w][e] # NoPin => pins[w][e].revision \in DOMAIN snapshots[e]
  /\ held \subseteq SelfConfigured \X Nat
  /\ \A h \in held : h[2] \in DOMAIN snapshots[h[1]]
  /\ sweeping \in BOOLEAN
  /\ now \in Nat

\* Every environment has just published its first revision.
RetentionInit ==
  /\ snapshots = [e \in Envs |-> <<[at |-> 0, present |-> TRUE]>>]
  /\ org \in Bounds
  /\ override = NoOverride
  /\ pins = [w \in Workloads |-> [e \in Envs |-> NoPin]]
  /\ held = {}
  /\ sweeping = FALSE
  /\ now = 0

-----------------------------------------------------------------------------
(* Clock readings of a transaction that commits now.                       *)

Times == 0..now

-----------------------------------------------------------------------------
(* Policies.                                                               *)

\* A project's policy never keeps more than the organisation allows.
Within(p, cap) == cap.unlimited \/ (p.age <= cap.age /\ p.last <= cap.last)

Effective == IF override = NoOverride THEN org ELSE override

\* Mutant: the cap is lowered under an override.
SetOrgUnchecked(p) ==
  /\ p # org
  /\ org' = p
  /\ UNCHANGED <<snapshots, override, pins, held, sweeping, now>>

\* SetOrg to a bounded policy is refused below an override; unlimited keeps
\* the bounds it suspends.
SetOrg(p) ==
  /\ p # org
  /\ override # NoOverride => Within(override, p)
  /\ org' = p
  /\ UNCHANGED <<snapshots, override, pins, held, sweeping, now>>

SetProject(p) ==
  /\ p # override
  /\ p # NoOverride => Within(p, org)
  /\ override' = p
  /\ UNCHANGED <<snapshots, org, pins, held, sweeping, now>>

-----------------------------------------------------------------------------
(* Revisions and what keeps them.                                          *)

Latest(e) == Len(snapshots[e])
Present(e, r) == snapshots[e][r].present
Live(pin, at) == pin # NoPin /\ pin.expires > at

PublishRevision(e) ==
  /\ Latest(e) \in 1..(MaxRevision - 1)
  /\ snapshots' = [snapshots EXCEPT ![e] = Append(@, [at |-> now, present |-> TRUE])]
  /\ UNCHANGED <<org, override, pins, held, sweeping, now>>

\* Mutant: the pins stay.
DeleteEnvironmentNotPins(e) ==
  /\ e \notin SelfConfigured
  /\ Latest(e) > 0
  /\ snapshots' = [snapshots EXCEPT ![e] = << >>]
  /\ UNCHANGED <<org, override, pins, held, sweeping, now>>

\* Everything hanging off the environment goes with it; the self-configuration's
\* foreign keys refuse that.
DeleteEnvironment(e) ==
  /\ e \notin SelfConfigured
  /\ Latest(e) > 0
  /\ snapshots' = [snapshots EXCEPT ![e] = << >>]
  /\ pins' = [w \in Workloads |-> [pins[w] EXCEPT ![e] = NoPin]]
  /\ UNCHANGED <<org, override, held, sweeping, now>>

PinCount == Cardinality({we \in Workloads \X Envs : pins[we[1]][we[2]] # NoPin})

\* Mutant: a renewal does not look at the payload.
PinnableUnlessRenewed(w, e, r) ==
  /\ r \in DOMAIN snapshots[e]
  /\ Present(e, r) \/ (pins[w][e] # NoPin /\ pins[w][e].revision = r)
  /\ pins[w][e] = NoPin => PinCount < PinQuota

\* The payload must be there, for a renewal too; only a new pin is counted.
Pinnable(w, e, r) ==
  /\ r \in DOMAIN snapshots[e]
  /\ Present(e, r)
  /\ pins[w][e] = NoPin => PinCount < PinQuota

\* Set: created, renewed or reassigned.  The expiry was checked against a clock
\* read before the transaction.
SetPin(w, e, r, expires) ==
  /\ \E read \in Times : expires > read /\ expires <= read + MaxPinLife
  /\ Pinnable(w, e, r)
  /\ pins' = [pins EXCEPT ![w][e] = [revision |-> r, expires |-> expires]]
  /\ UNCHANGED <<snapshots, org, override, held, sweeping, now>>

ReleasePin(w, e) ==
  /\ pins[w][e] # NoPin
  /\ pins' = [pins EXCEPT ![w][e] = NoPin]
  /\ UNCHANGED <<snapshots, org, override, held, sweeping, now>>

\* Mutant: the payload is not looked at.
HoldAny(e, r) ==
  /\ e \in SelfConfigured /\ r \in DOMAIN snapshots[e]
  /\ held' = held \cup {<<e, r>>}
  /\ UNCHANGED <<snapshots, org, override, pins, sweeping, now>>

\* A self-configuration slot takes a snapshot (BeginJob, CommitJob, recovery)
\* and lets another go.
Hold(e, r) ==
  /\ e \in SelfConfigured /\ r \in DOMAIN snapshots[e] /\ Present(e, r)
  /\ held' = held \cup {<<e, r>>}
  /\ UNCHANGED <<snapshots, org, override, pins, sweeping, now>>

LetGo(h) ==
  /\ held' = held \ {h}
  /\ UNCHANGED <<snapshots, org, override, pins, sweeping, now>>

-----------------------------------------------------------------------------
(* The sweep.                                                              *)

\* Below the last-th newest revision; a shorter history has no cutoff.
OutOfWindow(e, r, p) == Latest(e) - r >= p.last

TooOld(e, r, p, at) == snapshots[e][r].at + p.age < at

\* Mutant: the expiry of pins is not looked at on the second check.
CollectableUnlessPinned(e, r, at) ==
  /\ Present(e, r)
  /\ <<e, r>> \notin held
  /\ \A w \in Workloads : pins[w][e] # NoPin => pins[w][e].revision # r

\* MarkSnapshotCollected repeats what may have changed since the selection.
Collectable(e, r, at) ==
  /\ Present(e, r)
  /\ <<e, r>> \notin held
  /\ \A w \in Workloads : Live(pins[w][e], at) => pins[w][e].revision # r

Unretained(e, r, at) ==
  /\ ~Effective.unlimited
  /\ OutOfWindow(e, r, Effective)
  /\ TooOld(e, r, Effective, at)

Revisions == UNION {{e} \X DOMAIN snapshots[e] : e \in Envs}

Guarded(e, r, at) ==
  \/ <<e, r>> \in held
  \/ \E w \in Workloads : Live(pins[w][e], at) /\ pins[w][e].revision = r

\* ListEligibleSnapshotPayloads.
Eligible(at) ==
  {s \in Revisions :
     Present(s[1], s[2]) /\ Unretained(s[1], s[2], at) /\ ~Guarded(s[1], s[2], at)}

SweepStart ==
  /\ ~sweeping
  /\ sweeping' = TRUE
  /\ UNCHANGED <<snapshots, org, override, pins, held, now>>

\* One chunk: a bounded selection, collected where that still may be.  The
\* sweep ends with the first chunk that is not full.
SweepChunk(at) ==
  /\ sweeping
  /\ \E chunk \in SUBSET Eligible(at) :
       /\ Cardinality(chunk) = IF Cardinality(Eligible(at)) < Batch
                                 THEN Cardinality(Eligible(at)) ELSE Batch
       /\ snapshots' = [e \in Envs |-> [r \in DOMAIN snapshots[e] |->
            IF <<e, r>> \in chunk /\ Collectable(e, r, at)
              THEN [snapshots[e][r] EXCEPT !.present = FALSE] ELSE snapshots[e][r]]]
       /\ sweeping' = (Cardinality(chunk) >= Batch)
  /\ UNCHANGED <<org, override, pins, held, now>>

\* The run's deadline passes, or a transaction fails.
SweepFails ==
  /\ sweeping
  /\ sweeping' = FALSE
  /\ UNCHANGED <<snapshots, org, override, pins, held, now>>

Tick ==
  /\ now < MaxNow
  /\ now' = now + 1
  /\ UNCHANGED <<snapshots, org, override, pins, held, sweeping>>

-----------------------------------------------------------------------------

RetentionNext ==
  \/ \E p \in Bounds : SetOrg(p) \/ SetProject(p)
  \/ SetOrg([org EXCEPT !.unlimited = TRUE])
  \/ SetProject(NoOverride)
  \/ \E e \in Envs : PublishRevision(e) \/ DeleteEnvironment(e)
  \/ \E w \in Workloads, e \in Envs : ReleasePin(w, e)
  \/ \E w \in Workloads, e \in Envs, r \in 1..MaxRevision, expires \in 1..(now + MaxPinLife) :
       SetPin(w, e, r, expires)
  \/ \E e \in Envs, r \in 1..MaxRevision : Hold(e, r)
  \/ \E h \in held : LetGo(h)
  \/ SweepStart \/ SweepFails
  \/ \E at \in Times : SweepChunk(at)
  \/ Tick

RetentionSpec == RetentionInit /\ [][RetentionNext]_retentionVars

\* A running sweep goes from chunk to chunk by itself, and reads the clock anew
\* for each.
FairSweep == WF_retentionVars(SweepChunk(now))
RetentionFairSpec == RetentionSpec /\ FairSweep

-----------------------------------------------------------------------------
(* What the clients are told.                                              *)

\* Fetch: the pinned revision, even under an expired pin, else the newest.
Selected(w, e) == IF pins[w][e] = NoPin THEN Latest(e) ELSE pins[w][e].revision

\* Mutant: another workload's pin counts even when it has expired.
ConsequenceOfAnyPin(w, e) ==
  LET r == pins[w][e].revision
  IN  CASE ~Present(e, r) -> "already_collected"
        [] Present(e, r) /\ ~Unretained(e, r, now) -> "retained"
        [] Present(e, r) /\ Unretained(e, r, now)
             /\ \E v \in Workloads \ {w} : pins[v][e] # NoPin /\ pins[v][e].revision = r
             -> "retained"
        [] OTHER -> "collection_eligible"

\* consequence: what releasing the pin would mean for its payload.
Consequence(w, e) ==
  LET r == pins[w][e].revision
  IN  CASE ~Present(e, r) -> "already_collected"
        [] Present(e, r) /\ ~Unretained(e, r, now) -> "retained"
        [] Present(e, r) /\ Unretained(e, r, now)
             /\ \E v \in Workloads \ {w} : Live(pins[v][e], now) /\ pins[v][e].revision = r
             -> "retained"
        [] OTHER -> "collection_eligible"

-----------------------------------------------------------------------------
(* Properties.                                                             *)

\* A workload that is not pinned, or whose pin is live, always gets a payload:
\* no sweep, policy change or stale clock reading takes the newest revision or a
\* pinned one away.
FetchIsServed ==
  \A w \in Workloads, e \in Envs :
    snapshots[e] # << >> /\ (pins[w][e] = NoPin \/ Live(pins[w][e], now)) =>
      Present(e, Selected(w, e))

\* What the self-configuration holds is never collected.
HeldIsPresent == \A h \in held : Present(h[1], h[2])

\* A project never keeps payloads longer than its organisation's cap, whichever
\* of the two was set last.
OverrideWithinCap == override # NoOverride => Within(override, org)

\* Retention is sound: what may still be fetched or is held is kept, and the
\* policy in force is never beyond the organisation's cap (retention.go,
\* SweepSnapshots and the two setters of policies).
RetentionSound == FetchIsServed /\ HeldIsPresent /\ OverrideWithinCap

\* A release is announced to make a payload collectable exactly when the sweep
\* would take the payload once the pin is gone.
ConsequenceAgrees ==
  [][\A w \in Workloads, e \in Envs :
       ReleasePin(w, e) =>
         (Consequence(w, e) = "collection_eligible"
            <=> <<e, pins[w][e].revision>> \in Eligible(now)')]_retentionVars

\* Every sweep ends: a chunk never selects what it will not collect.
SweepEnds == sweeping ~> ~sweeping
=============================================================================
