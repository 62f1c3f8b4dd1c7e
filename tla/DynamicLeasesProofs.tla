------------------------ MODULE DynamicLeasesProofs ------------------------
(***************************************************************************)
(* Proofs about DynamicLeases for any nodes, leases, deadlines and bounds: *)
(* that the claim fences every transition of a lease, hence that deleting  *)
(* a provider leaves only cleanup and that a revocation is never undone;   *)
(* that a lease that is over has left no role behind unless its own mint   *)
(* request was overtaken, revoked or recovered while it ran.               *)
(***************************************************************************)
EXTENDS DynamicLeases, TLAPS

\* The rows, requests and sweeps there can be.
Rows == [state : States, next : Nat, expires : Nat, owner : Nodes \cup {NoNode},
         until : Nat, effect : Kinds \cup {"none"}]

Mints ==
    [phase : {"idle", "started", "done", "disclosed"}]
      \cup [phase : {"created"}, result : Results \ {"denied"}, expires : Nat]

Open == Transient \cup {"active"}

ClaimedSweeps == [phase : {"claimed"}, lease : Leases, state : Open]
PlainSweeps ==
    [phase : {"open"}, lease : Leases, kind : Kinds]
      \cup [phase : {"gate"}, lease : Leases, kind : {"renew"}]
      \cup [phase : {"call"}, lease : Leases, kind : Kinds \ {"renew"}]
TimedSweeps ==
    [phase : {"call"}, lease : Leases, kind : {"renew"}, expires : Nat]
      \cup [phase : {"answered"}, lease : Leases, kind : Kinds, expires : Nat, result : Results]

Sweeps == {Idle} \cup ClaimedSweeps \cup PlainSweeps \cup TimedSweeps

Types ==
    /\ row \in [Leases -> Rows]
    /\ role \in [Leases -> [exists : BOOLEAN, until : Nat]]
    /\ mint \in [Leases -> Mints]
    /\ worker \in [Nodes -> Sweeps]
    /\ prov \in [active : BOOLEAN, credential : BOOLEAN]
    /\ auth \in {"full", "read", "none"}
    /\ requests \in 0..MaxRequests /\ faults \in 0..MaxFaults

(* Where a sweep still holds its claim, the row is as it was claimed: what *)
(* the sweep derived from it is still right, and its intent is recorded.   *)
Fenced ==
    \A n \in Nodes :
        worker[n].phase # "idle" /\ Holds(n, worker[n].lease) =>
            /\ row[worker[n].lease].state \in Open
            /\ worker[n].phase = "claimed" => worker[n].state = row[worker[n].lease].state
            /\ worker[n].phase # "claimed" =>
                 worker[n].kind = DeriveKind(worker[n].lease, row[worker[n].lease].state)
            /\ worker[n].phase \notin {"claimed", "open"} =>
                 row[worker[n].lease].effect = worker[n].kind

(* A running mint request has its row to itself: neither a revocation nor  *)
(* a recovery has overtaken it.                                            *)
Undisturbed(l) == MintRunning(l) => row[l].state = "minting" /\ row[l].owner = NoNode

(* A lease without a request has no row and no role, and a running request *)
(* says truly that it created none.                                        *)
MintTrue(l) ==
    /\ mint[l].phase = "idle" => row[l].state = "none" /\ ~role[l].exists
    /\ mint[l].phase = "started" => ~role[l].exists
    /\ mint[l].phase = "created" /\ mint[l].result \in {"unreachable", "refused"} =>
         ~role[l].exists

(* A sweep is never of a lease that is still to be minted, so what it      *)
(* dropped stays dropped.                                                  *)
DropsLast(l) ==
    \A n \in Nodes :
        worker[n].phase # "idle" /\ worker[n].lease = l =>
            /\ mint[l].phase \in {"done", "disclosed"}
            /\ worker[n].phase = "answered" /\ worker[n].kind # "renew" /\ worker[n].result = "ok" =>
                 ~role[l].exists

Gone(l) == row[l].state \in Terminal => ~role[l].exists

(* What a step may do to the row of a lease. *)
RowMoves(l) ==
    \/ row'[l].state = row[l].state /\ row'[l].effect = row[l].effect
    \/ row[l].state = "none" /\ prov.active /\ row'[l].state = "minting"
    \/ /\ row[l].state = "minting" /\ row'[l].state \in {"active", "revoking", "failed", "unknown"}
       /\ row'[l].effect = row[l].effect
    \/ /\ row[l].state \in Open /\ row'[l].state = row[l].state
       /\ row'[l].effect = DeriveKind(l, row[l].state)
    \/ /\ row[l].state \in Open /\ row[l].effect = DeriveKind(l, row[l].state)
       /\ row'[l].effect = row[l].effect
       /\ row'[l].state \in {Done[row[l].effect], Kept[row[l].effect], "unknown"}
    \/ /\ row[l].state \notin Terminal \cup {"none"} /\ row'[l].state = "revoking"
       /\ row'[l].effect = row[l].effect
    \/ row[l].state = "active" /\ row'[l].state = "renewing" /\ row'[l].effect = row[l].effect
-----------------------------------------------------------------------------
(* Types.                                                                  *)

LEMMA IdleShape == Idle.phase = "idle" /\ Idle \in Mints /\ Idle \in Sweeps
BY DEF Idle, Mints, Sweeps

(* A sweep is idle by its phase, and what it has depends on it.            *)
LEMMA SweepShape ==
  ASSUME NEW w \in Sweeps
  PROVE  /\ w = Idle <=> w.phase = "idle"
         /\ w.phase \in {"idle", "claimed", "open", "gate", "call", "answered"}
         /\ w.phase # "idle" => w.lease \in Leases
         /\ w.phase = "claimed" => w.state \in Open
         /\ w.phase \in {"open", "gate", "call", "answered"} => w.kind \in Kinds
         /\ w.phase = "gate" => w.kind = "renew"
         /\ w.phase = "call" /\ w.kind = "renew" => w.expires \in Nat
         /\ w.phase = "answered" => w.expires \in Nat /\ w.result \in Results
<1>1. CASE w = Idle
  BY <1>1 DEF Idle
<1>2. CASE w \in ClaimedSweeps
  BY <1>2 DEF ClaimedSweeps, Idle
<1>3. CASE w \in PlainSweeps
  BY <1>3 DEF PlainSweeps, Idle, Kinds
<1>4. CASE w \in TimedSweeps
  BY <1>4 DEF TimedSweeps, Idle, Kinds
<1> QED BY <1>1, <1>2, <1>3, <1>4 DEF Sweeps

LEMMA MintShape ==
  ASSUME NEW m \in Mints
  PROVE  /\ m = Idle <=> m.phase = "idle"
         /\ m.phase \in {"idle", "started", "created", "done", "disclosed"}
         /\ m.phase = "created" => m.result \in Results \ {"denied"} /\ m.expires \in Nat
BY DEF Mints, Idle

LEMMA DeriveKindType ==
  ASSUME NEW l \in Leases, row[l].effect \in Kinds \cup {"none"}, NEW st \in Open
  PROVE  DeriveKind(l, st) \in Kinds
BY DEF DeriveKind, Open, Transient, Kinds

LEMMA SettledStates ==
  ASSUME NEW k \in Kinds, NEW res \in Results
  PROVE  /\ SettledState(k, res) \in {Done[k], Kept[k], "unknown"}
         /\ Done[k] \in States /\ Kept[k] \in States /\ SettledState(k, res) \in States
         /\ SettledState(k, res) \in Terminal => k # "renew" /\ res = "ok"
<1>1. k \in {"mint", "renew", "revoke", "expire"} /\ res \in {"ok", "unreachable", "ambiguous", "refused", "denied"}
  BY DEF Kinds, Results
<1>2. /\ Done["renew"] = "active" /\ Done["revoke"] = "revoked"
      /\ Done["expire"] = "expired" /\ Done["mint"] = "failed"
      /\ Kept["renew"] = "renewing" /\ Kept["revoke"] = "revoking"
      /\ Kept["expire"] = "active" /\ Kept["mint"] = "minting"
  BY DEF Done, Kept
<1> QED BY <1>1, <1>2 DEF SettledState, States, Transient, Terminal

(* The provider's answer: no call but a creation brings a role about.      *)
LEMMA AnswerTypes ==
  ASSUME Types, NEW applicable, NEW after \in [Leases -> [exists : BOOLEAN, until : Nat]],
         NEW result, Answer(applicable, after, result)
  PROVE  /\ role' \in [Leases -> [exists : BOOLEAN, until : Nat]]
         /\ faults' \in 0..MaxFaults
         /\ role' \in {role, after}
         /\ result = "ok" => role' = after
         /\ result \in {"unreachable", "refused"} => role' = role
BY LeaseConstants DEF Types, Answer, Fault

LEMMA RoleTypes ==
  ASSUME Types, NEW l \in Leases, NEW t \in Nat
  PROVE  /\ Created(l, t) \in [Leases -> [exists : BOOLEAN, until : Nat]]
         /\ Dropped(l) \in [Leases -> [exists : BOOLEAN, until : Nat]]
         /\ Extended(l, t) \in [Leases -> [exists : BOOLEAN, until : Nat]]
         /\ \A k \in Leases : k # l => Created(l, t)[k] = role[k]
         /\ \A k \in Leases : Dropped(l)[k].exists => role[k].exists
         /\ \A k \in Leases : Extended(l, t)[k].exists => role[k].exists
         /\ ~Dropped(l)[l].exists
<1>1. NoRole \in [exists : BOOLEAN, until : Nat] /\ ~NoRole.exists
  BY DEF NoRole
<1>2. role[l] \in [exists : BOOLEAN, until : Nat]
  BY DEF Types
<1>3. [role[l] EXCEPT !.until = t] \in [exists : BOOLEAN, until : Nat]
      /\ [role[l] EXCEPT !.until = t].exists = role[l].exists
  BY <1>2
<1>4. Extended(l, t) = [role EXCEPT ![l] = [role[l] EXCEPT !.until = t]]
  BY DEF Extended, Types
<1>5. [exists |-> TRUE, until |-> t] \in [exists : BOOLEAN, until : Nat]
  OBVIOUS
<1> QED BY <1>1, <1>3, <1>4, <1>5 DEF Created, Dropped, Types

LEMMA EffectTypes ==
  ASSUME Types, NEW n \in Nodes, worker[n].phase = "call"
  PROVE  /\ Effect(n) \in [Leases -> [exists : BOOLEAN, until : Nat]]
         /\ \A k \in Leases : Effect(n)[k].exists => role[k].exists
         /\ worker[n].kind # "renew" => ~Effect(n)[worker[n].lease].exists
<1>1. /\ worker[n].lease \in Leases
      /\ worker[n].kind = "renew" => worker[n].expires \in Nat
  BY SweepShape DEF Types
<1>2. CASE worker[n].kind = "renew"
  <2>1. PICK l \in Leases, t \in Nat : l = worker[n].lease /\ t = worker[n].expires
    BY <1>1, <1>2
  <2>2. Effect(n) = Extended(l, t)
    BY <1>2, <2>1 DEF Effect
  <2> QED BY <1>2, <2>2, RoleTypes
<1>3. CASE worker[n].kind # "renew"
  <2>1. 0 \in Nat
    OBVIOUS
  <2> QED BY <1>1, <1>3, <2>1, RoleTypes DEF Effect
<1> QED BY <1>2, <1>3
-----------------------------------------------------------------------------
(* What each step does, field by field, and that it keeps the types.       *)

LEMMA MintStartDoes ==
  ASSUME Types, NEW l \in Leases, MintStart(l)
  PROVE  /\ Types'
         /\ row[l].state = "none" /\ prov.active /\ mint[l].phase = "idle"
         /\ row'[l].state = "minting" /\ row'[l].next > 0
         /\ row'[l].owner = NoNode /\ mint'[l].phase = "started"
         /\ \A k \in Leases : k # l => row'[k] = row[k] /\ mint'[k] = mint[k]
         /\ UNCHANGED <<role, worker, prov>>
<1> DEFINE r == [NoRow EXCEPT !.state = "minting", !.next = Grace]
<1>0. Grace \in Nat /\ Grace > 0
  BY LeaseConstants
<1>1. /\ r \in Rows /\ r.state = "minting" /\ r.next = Grace /\ r.owner = NoNode
      /\ NoRow.state = "none"
  <2>1. "minting" \in States /\ "none" \in States
    BY DEF States, Transient
  <2>2. NoRow \in Rows /\ NoRow.state = "none" /\ NoRow.owner = NoNode
    BY <2>1 DEF NoRow, Rows
  <2> QED BY <1>0, <2>1, <2>2 DEF Rows
<1>2. [phase |-> "started"] \in Mints
  BY DEF Mints
<1>3. /\ row' = [row EXCEPT ![l] = r] /\ row[l] = NoRow /\ prov.active /\ mint[l] = Idle
      /\ mint' = [mint EXCEPT ![l] = [phase |-> "started"]]
      /\ UNCHANGED <<role, worker, prov, auth, requests, faults>>
  BY DEF MintStart
<1> HIDE DEF r
<1> QED BY <1>0, <1>1, <1>2, <1>3, IdleShape DEF Types

LEMMA MintCreateDoes ==
  ASSUME Types, NEW l \in Leases, MintCreate(l)
  PROVE  /\ Types'
         /\ mint[l].phase = "started" /\ mint'[l].phase = "created"
         /\ mint'[l].result \in {"unreachable", "refused"} => role' = role
         /\ \A k \in Leases : k # l => role'[k] = role[k] /\ mint'[k] = mint[k]
         /\ UNCHANGED <<row, worker, prov>>
<1>1. PICK result \in {"ok", "unreachable", "refused", "ambiguous"} :
        /\ Answer(TRUE, Created(l, TTL), result)
        /\ mint' = [mint EXCEPT ![l] = [phase |-> "created", result |-> result, expires |-> TTL]]
  BY DEF MintCreate
<1>2. /\ mint[l].phase = "started"
      /\ UNCHANGED <<row, worker, prov, auth, requests>>
  BY DEF MintCreate
<1>3. TTL \in Nat
  BY LeaseConstants
<1>4. [phase |-> "created", result |-> result, expires |-> TTL] \in Mints
  BY <1>3 DEF Mints, Results
<1>5. /\ Created(l, TTL) \in [Leases -> [exists : BOOLEAN, until : Nat]]
      /\ \A k \in Leases : k # l => Created(l, TTL)[k] = role[k]
  BY <1>3, RoleTypes
<1>6. /\ role' \in [Leases -> [exists : BOOLEAN, until : Nat]]
      /\ faults' \in 0..MaxFaults
      /\ role' \in {role, Created(l, TTL)}
      /\ result \in {"unreachable", "refused"} => role' = role
  BY <1>1, <1>5, AnswerTypes
<1>7. mint' \in [Leases -> Mints] /\ mint'[l].phase = "created" /\ mint'[l].result = result
      /\ \A k \in Leases : k # l => mint'[k] = mint[k]
  BY <1>1, <1>4 DEF Types
<1> QED BY <1>2, <1>5, <1>6, <1>7 DEF Types

LEMMA MintStates ==
  ASSUME Types, NEW res \in Results \ {"denied"}
  PROVE  /\ MintState(res) \in {"active", "revoking", "failed", "unknown"}
         /\ MintState(res) \in Terminal => res \in {"unreachable", "refused"}
BY DEF Types, Results, MintState, Terminal

LEMMA MintFinishDoes ==
  ASSUME Types, NEW l \in Leases, MintFinish(l)
  PROVE  /\ Types'
         /\ mint[l].phase = "created" /\ mint'[l].phase \in {"done", "disclosed"}
         /\ \/ row' = row
            \/ /\ row[l].state = "minting" /\ row[l].owner = NoNode
               /\ row'[l].state \in {"active", "revoking", "failed", "unknown"}
               /\ row'[l].state \in Terminal => mint[l].result \in {"unreachable", "refused"}
               /\ row'[l].effect = row[l].effect /\ row'[l].owner = NoNode
         /\ \A k \in Leases : k # l => row'[k] = row[k] /\ mint'[k] = mint[k]
         /\ UNCHANGED <<role, worker, prov>>
<1> DEFINE state == MintState(mint[l].result)
<1>1. /\ mint[l].phase = "created"
      /\ UNCHANGED <<role, worker, prov, auth, requests>>
  BY DEF MintFinish
<1>2. mint[l].result \in Results \ {"denied"} /\ mint[l].expires \in Nat
  BY <1>1, MintShape DEF Types
<1>3. /\ state \in {"active", "revoking", "failed", "unknown"}
      /\ state \in Terminal => mint[l].result \in {"unreachable", "refused"}
  BY <1>2, MintStates
<1>4. PICK t \in Nat : t = IF state = "active" THEN mint[l].expires ELSE 0
  BY <1>2
<1>5. /\ [phase |-> "done"] \in Mints /\ [phase |-> "disclosed"] \in Mints
  BY DEF Mints
<1>6. /\ mint' \in {[mint EXCEPT ![l] = [phase |-> "done"]], [mint EXCEPT ![l] = [phase |-> "disclosed"]]}
      /\ faults' \in 0..MaxFaults
  BY LeaseConstants DEF MintFinish, Fault, Types
<1>7. mint' \in [Leases -> Mints] /\ mint'[l].phase \in {"done", "disclosed"}
      /\ \A k \in Leases : k # l => mint'[k] = mint[k]
  BY <1>5, <1>6 DEF Types
<1>8. CASE auth # "none" /\ MintUnclaimed(l)
  <2> DEFINE r == [row[l] EXCEPT !.state = state, !.expires = t, !.next = t,
                                 !.owner = NoNode, !.until = 0]
  <2>1. row' = [row EXCEPT ![l] = r]
    BY <1>4, <1>8 DEF MintFinish, Types
  <2> HIDE DEF state
  <2>0. state \in States /\ row[l] \in Rows
    BY <1>3 DEF States, Transient, Terminal, Types
  <2>2. /\ r \in Rows /\ r.state = state /\ r.effect = row[l].effect /\ r.owner = NoNode
    BY <1>4, <2>0 DEF Rows
  <2> HIDE DEF r
  <2>3. /\ row' \in [Leases -> Rows] /\ row'[l] = r
        /\ \A k \in Leases : k # l => row'[k] = row[k]
    BY <2>1, <2>2 DEF Types
  <2> QED BY <1>1, <1>3, <1>6, <1>7, <1>8, <2>2, <2>3 DEF Types, MintUnclaimed
<1>9. CASE ~(auth # "none" /\ MintUnclaimed(l))
  <2>1. row' = row
    BY <1>9 DEF MintFinish
  <2> QED BY <1>1, <1>6, <1>7, <2>1 DEF Types
<1> QED BY <1>8, <1>9

LEMMA MintLostDoes ==
  ASSUME Types, NEW l \in Leases, MintLost(l)
  PROVE  /\ Types'
         /\ MintRunning(l) /\ mint'[l].phase = "done"
         /\ \A k \in Leases : k # l => role'[k] = role[k] /\ mint'[k] = mint[k]
         /\ UNCHANGED <<row, worker, prov>>
<1>1. [phase |-> "done"] \in Mints /\ TTL \in Nat
  BY LeaseConstants DEF Mints
<1>2. role' \in {role, Created(l, TTL)}
  BY DEF MintLost
<1>3. /\ role' \in [Leases -> [exists : BOOLEAN, until : Nat]]
      /\ \A k \in Leases : k # l => role'[k] = role[k]
  <2>1. /\ Created(l, TTL) \in [Leases -> [exists : BOOLEAN, until : Nat]]
        /\ \A k \in Leases : k # l => Created(l, TTL)[k] = role[k]
    BY <1>1, RoleTypes
  <2> QED BY <1>2, <2>1 DEF Types
<1>4. faults' \in 0..MaxFaults
  BY LeaseConstants DEF MintLost, Fault, Types
<1>5. /\ mint' = [mint EXCEPT ![l] = [phase |-> "done"]] /\ MintRunning(l)
      /\ UNCHANGED <<row, worker, prov, auth, requests>>
  BY DEF MintLost, MintRunning
<1> QED BY <1>1, <1>3, <1>4, <1>5 DEF Types
LEMMA ClaimDoes ==
  ASSUME Types, NEW n \in Nodes, NEW l \in Leases, ClaimDueLease(n, l)
  PROVE  /\ Types'
         /\ row[l].state \in Open
         /\ row[l].state \in Transient => row[l].next = 0
         /\ row'[l].state = row[l].state /\ row'[l].effect = row[l].effect
         /\ row'[l].next = row[l].next /\ row'[l].owner = n
         /\ \A k \in Leases : k # l => row'[k] = row[k]
         /\ worker'[n] = [phase |-> "claimed", lease |-> l, state |-> row[l].state]
         /\ \A m \in Nodes : m # n => worker'[m] = worker[m]
         /\ UNCHANGED <<role, mint, prov>>
<1>1. /\ row[l].state \in Open
      /\ row[l].state \in Transient => row[l].next = 0
  BY DEF ClaimDueLease, Due, Open, Transient
<1> DEFINE r == [row[l] EXCEPT !.owner = n, !.until = Term]
<1>2. /\ row' = [row EXCEPT ![l] = r]
      /\ worker' = [worker EXCEPT ![n] = [phase |-> "claimed", lease |-> l, state |-> row[l].state]]
      /\ UNCHANGED <<role, mint, prov, auth, requests, faults>>
  BY DEF ClaimDueLease, Types
<1>3. row[l] \in Rows /\ Term \in Nat
  BY LeaseConstants DEF Types
<1>4. /\ r \in Rows /\ r.state = row[l].state /\ r.effect = row[l].effect
      /\ r.next = row[l].next /\ r.owner = n
  BY <1>3 DEF Rows
<1> HIDE DEF r
<1>5. [phase |-> "claimed", lease |-> l, state |-> row[l].state] \in Sweeps
  BY <1>1 DEF Sweeps, ClaimedSweeps
<1>6. /\ row' \in [Leases -> Rows] /\ row'[l] = r
      /\ \A k \in Leases : k # l => row'[k] = row[k]
  BY <1>2, <1>4 DEF Types
<1>7. /\ worker' \in [Nodes -> Sweeps]
      /\ worker'[n] = [phase |-> "claimed", lease |-> l, state |-> row[l].state]
      /\ \A m \in Nodes : m # n => worker'[m] = worker[m]
  BY <1>2, <1>5 DEF Types
<1> QED BY <1>1, <1>2, <1>4, <1>6, <1>7 DEF Types

(* A row is given back: nobody holds it, and it waits as it was.           *)
LEMMA ReleasedDoes ==
  ASSUME Types, NEW n \in Nodes, NEW l \in Leases, Released(n, l)
  PROVE  /\ row' \in [Leases -> Rows]
         /\ \/ row' = row
            \/ /\ Holds(n, l) /\ row'[l].owner = NoNode
               /\ row'[l].state = row[l].state /\ row'[l].effect = row[l].effect
         /\ \A k \in Leases : k # l => row'[k] = row[k]
<1>1. row[l] \in Rows
  BY DEF Types
<1> DEFINE r == [row[l] EXCEPT !.owner = NoNode, !.until = 0, !.next = 0]
<1>2. r \in Rows /\ r.state = row[l].state /\ r.effect = row[l].effect /\ r.owner = NoNode
  BY <1>1 DEF Rows
<1>3. CASE Holds(n, l)
  <2>1. row' = [row EXCEPT ![l] = r]
    BY <1>3 DEF Released, Types
  <2> HIDE DEF r
  <2> QED BY <1>2, <1>3, <2>1 DEF Types
<1>4. CASE ~Holds(n, l)
  BY <1>4 DEF Released, Types
<1> QED BY <1>3, <1>4

LEMMA OpenProviderDoes ==
  ASSUME Types, NEW n \in Nodes, OpenProvider(n)
  PROVE  LET l == worker[n].lease
         IN  /\ Types'
             /\ worker[n].phase = "claimed" /\ l \in Leases
             /\ \/ /\ row' = row
                   /\ worker'[n] = [phase |-> "open", lease |-> l,
                                    kind |-> DeriveKind(l, worker[n].state)]
                \/ /\ worker'[n] = Idle
                   /\ \/ row' = row
                      \/ /\ Holds(n, l) /\ row'[l].owner = NoNode
                         /\ row'[l].state = row[l].state /\ row'[l].effect = row[l].effect
             /\ \A k \in Leases : k # l => row'[k] = row[k]
             /\ \A m \in Nodes : m # n => worker'[m] = worker[m]
             /\ UNCHANGED <<role, mint, prov>>
<1>1. /\ worker[n].phase = "claimed"
      /\ UNCHANGED <<role, mint, prov, auth, requests>>
  BY DEF OpenProvider
<1>2. PICK l \in Leases : l = worker[n].lease
  BY <1>1, SweepShape DEF Types
<1>3. worker[n].state \in Open /\ row[l].effect \in Kinds \cup {"none"}
  BY <1>1, SweepShape DEF Types, Rows
<1>4. PICK w \in Sweeps : w = [phase |-> "open", lease |-> l, kind |-> DeriveKind(l, worker[n].state)]
  BY <1>3, DeriveKindType DEF Sweeps, PlainSweeps
<1>5. faults' \in 0..MaxFaults
  BY LeaseConstants DEF OpenProvider, Fault, Types
<1>6. CASE row' = row /\ worker' = [worker EXCEPT ![n] = w]
  BY <1>1, <1>2, <1>4, <1>5, <1>6 DEF Types
<1>7. CASE Released(n, l) /\ worker' = [worker EXCEPT ![n] = Idle]
  <2>1. /\ row' \in [Leases -> Rows]
        /\ \/ row' = row
           \/ /\ Holds(n, l) /\ row'[l].owner = NoNode
              /\ row'[l].state = row[l].state /\ row'[l].effect = row[l].effect
        /\ \A k \in Leases : k # l => row'[k] = row[k]
    BY <1>7, ReleasedDoes
  <2>2. /\ worker' \in [Nodes -> Sweeps] /\ worker'[n] = Idle
        /\ \A m \in Nodes : m # n => worker'[m] = worker[m]
    BY <1>7, IdleShape DEF Types
  <2> QED BY <1>1, <1>2, <1>5, <2>1, <2>2 DEF Types
<1> QED BY <1>2, <1>4, <1>6, <1>7 DEF OpenProvider

LEMMA RecordIntentDoes ==
  ASSUME Types, NEW n \in Nodes, RecordIntent(n)
  PROVE  LET l == worker[n].lease
         IN  /\ Types'
             /\ worker[n].phase = "open" /\ l \in Leases
             /\ \/ /\ Holds(n, l)
                   /\ row'[l].state = row[l].state /\ row'[l].effect = worker[n].kind
                   /\ row'[l].owner = row[l].owner /\ row'[l].until = row[l].until
                   /\ worker'[n].phase \in {"gate", "call"}
                   /\ worker'[n].lease = l /\ worker'[n].kind = worker[n].kind
                \/ row' = row /\ worker'[n] = Idle
             /\ \A k \in Leases : k # l => row'[k] = row[k]
             /\ \A m \in Nodes : m # n => worker'[m] = worker[m]
             /\ UNCHANGED <<role, mint, prov>>
<1>1. /\ worker[n].phase = "open"
      /\ UNCHANGED <<role, mint, prov, auth, requests, faults>>
  BY DEF RecordIntent
<1>2. PICK l \in Leases : l = worker[n].lease
  BY <1>1, SweepShape DEF Types
<1>3. worker[n] \in [phase : {"open"}, lease : Leases, kind : Kinds]
  BY <1>1 DEF Types, Sweeps, ClaimedSweeps, PlainSweeps, TimedSweeps, Idle
<1>4. CASE Holds(n, l)
  <2>1. PICK ph \in {"gate", "call"} : /\ ph = IF worker[n].kind = "renew" THEN "gate" ELSE "call"
                                       /\ ph = "gate" <=> worker[n].kind = "renew"
    OBVIOUS
  <2>2. PICK w \in Sweeps : /\ w = [worker[n] EXCEPT !.phase = ph]
                            /\ w.phase = ph /\ w.lease = l /\ w.kind = worker[n].kind
    <3>1. [worker[n] EXCEPT !.phase = ph] \in PlainSweeps
      BY <1>3, <2>1 DEF PlainSweeps
    <3> QED BY <1>2, <1>3, <3>1 DEF Sweeps
  <2> DEFINE r == [row[l] EXCEPT !.effect = worker[n].kind]
  <2>3. /\ row' = [row EXCEPT ![l] = r]
        /\ worker' = [worker EXCEPT ![n] = w]
    BY <1>2, <1>4, <2>1, <2>2 DEF RecordIntent, Types
  <2>4. /\ r \in Rows /\ r.state = row[l].state /\ r.effect = worker[n].kind
        /\ r.owner = row[l].owner /\ r.until = row[l].until
    BY <1>3 DEF Types, Rows
  <2> HIDE DEF r
  <2> QED BY <1>1, <1>2, <1>4, <2>2, <2>3, <2>4 DEF Types
<1>5. CASE ~Holds(n, l)
  <2>1. row' = row /\ worker' = [worker EXCEPT ![n] = Idle]
    BY <1>2, <1>5 DEF RecordIntent
  <2> QED BY <1>1, <1>2, <2>1, IdleShape DEF Types
<1> QED BY <1>4, <1>5
LEMMA ReauthorizeDoes ==
  ASSUME Types, NEW n \in Nodes, Reauthorize(n)
  PROVE  /\ Types'
         /\ worker[n].phase = "gate" /\ worker[n].lease \in Leases
         /\ worker'[n].phase \in {"call", "answered"}
         /\ worker'[n].lease = worker[n].lease
         /\ worker'[n].kind = "renew" /\ worker[n].kind = "renew"
         /\ \A m \in Nodes : m # n => worker'[m] = worker[m]
         /\ UNCHANGED <<row, role, mint, prov>>
<1>1. /\ worker[n].phase = "gate"
      /\ UNCHANGED <<row, role, mint, prov, auth, requests, faults>>
  BY DEF Reauthorize
<1>2. PICK l \in Leases : l = worker[n].lease
  BY <1>1, SweepShape DEF Types
<1>3. worker[n].kind = "renew"
  BY <1>1, SweepShape DEF Types
<1> DEFINE a == [phase |-> "call", lease |-> l, kind |-> "renew", expires |-> TTL]
           b == [phase |-> "answered", lease |-> l, kind |-> "renew", expires |-> 0, result |-> "denied"]
<1>4. a \in Sweeps /\ b \in Sweeps
  <2>1. TTL \in Nat /\ "denied" \in Results /\ "renew" \in Kinds
    BY LeaseConstants DEF Results, Kinds
  <2> QED BY <2>1 DEF Sweeps, TimedSweeps
<1>5. worker' \in {[worker EXCEPT ![n] = a], [worker EXCEPT ![n] = b]}
  BY <1>2 DEF Reauthorize
<1>6. /\ a.phase = "call" /\ a.lease = l /\ a.kind = "renew"
      /\ b.phase = "answered" /\ b.lease = l /\ b.kind = "renew"
  OBVIOUS
<1> HIDE DEF a, b
<1> QED BY <1>1, <1>2, <1>3, <1>4, <1>5, <1>6 DEF Types

LEMMA CallProviderDoes ==
  ASSUME Types, NEW n \in Nodes, CallProvider(n)
  PROVE  LET l == worker[n].lease
         IN  /\ Types'
             /\ worker[n].phase = "call" /\ l \in Leases
             /\ worker'[n].phase = "answered" /\ worker'[n].lease = l
             /\ worker'[n].kind = worker[n].kind
             /\ worker'[n].kind # "renew" /\ worker'[n].result = "ok" => ~role'[l].exists
             /\ \A k \in Leases : role'[k].exists => role[k].exists
             /\ \A m \in Nodes : m # n => worker'[m] = worker[m]
             /\ UNCHANGED <<row, mint, prov>>
<1>1. /\ worker[n].phase = "call"
      /\ UNCHANGED <<row, mint, prov, auth, requests>>
  BY DEF CallProvider
<1>2. PICK l \in Leases : l = worker[n].lease
  BY <1>1, SweepShape DEF Types
<1>3. worker[n].kind \in Kinds /\ Expiry(n) \in Nat
  BY <1>1, SweepShape DEF Types, Expiry
<1>4. PICK result \in Results \ {"denied"} :
        /\ Answer(Applicable(n), Effect(n), result)
        /\ worker' = [worker EXCEPT ![n] =
             [phase |-> "answered", lease |-> worker[n].lease, kind |-> worker[n].kind,
              expires |-> Expiry(n), result |-> result]]
  BY DEF CallProvider
<1> DEFINE w == [phase |-> "answered", lease |-> l, kind |-> worker[n].kind,
                 expires |-> Expiry(n), result |-> result]
<1>5. w \in Sweeps
  BY <1>3 DEF Sweeps, TimedSweeps
<1>6. /\ w.phase = "answered" /\ w.lease = l /\ w.kind = worker[n].kind /\ w.result = result
  OBVIOUS
<1>7. worker' = [worker EXCEPT ![n] = w]
  BY <1>2, <1>4
<1> HIDE DEF w
<1>8. /\ worker' \in [Nodes -> Sweeps] /\ worker'[n] = w
      /\ \A m \in Nodes : m # n => worker'[m] = worker[m]
  BY <1>5, <1>7 DEF Types
<1>9. /\ role' \in [Leases -> [exists : BOOLEAN, until : Nat]] /\ faults' \in 0..MaxFaults
      /\ role' \in {role, Effect(n)}
      /\ result = "ok" => role' = Effect(n)
  BY <1>1, <1>4, EffectTypes, AnswerTypes
<1>10. /\ \A k \in Leases : role'[k].exists => role[k].exists
       /\ worker[n].kind # "renew" /\ result = "ok" => ~role'[l].exists
  BY <1>1, <1>2, <1>9, EffectTypes
<1> QED BY <1>1, <1>2, <1>6, <1>8, <1>9, <1>10 DEF Types

LEMMA SettleDoes ==
  ASSUME Types, NEW n \in Nodes, Settle(n)
  PROVE  LET l == worker[n].lease
         IN  /\ Types'
             /\ worker[n].phase = "answered" /\ l \in Leases
             /\ \/ row' = row
                \/ /\ Holds(n, l) /\ row'[l].owner = NoNode
                   /\ row'[l].state = SettledState(worker[n].kind, worker[n].result)
                   /\ row'[l].effect = row[l].effect
             /\ \A k \in Leases : k # l => row'[k] = row[k]
             /\ worker'[n] = Idle
             /\ \A m \in Nodes : m # n => worker'[m] = worker[m]
             /\ UNCHANGED <<role, mint, prov>>
<1>1. /\ worker[n].phase = "answered"
      /\ worker' = [worker EXCEPT ![n] = Idle]
      /\ UNCHANGED <<role, mint, prov, auth, requests, faults>>
  BY DEF Settle
<1>2. PICK l \in Leases : l = worker[n].lease
  BY <1>1, SweepShape DEF Types
<1>3. worker[n].kind \in Kinds /\ worker[n].result \in Results /\ worker[n].expires \in Nat
  BY <1>1, SweepShape DEF Types
<1>4. PICK state \in States : state = SettledState(worker[n].kind, worker[n].result)
  BY <1>3, SettledStates
<1>5. PICK x \in Nat : x = IF worker[n].kind = "renew" /\ worker[n].result = "ok"
                           THEN worker[n].expires ELSE row[l].expires
  BY <1>3 DEF Types, Rows
<1>6. PICK t \in Nat : t = IF state = "active" /\ worker[n].kind = "renew" THEN x ELSE 0
  OBVIOUS
<1> DEFINE r == [row[l] EXCEPT !.state = state, !.expires = x, !.next = t, !.owner = NoNode, !.until = 0]
<1>7. r \in Rows /\ r.state = state /\ r.effect = row[l].effect /\ r.owner = NoNode
  BY DEF Types, Rows
<1>8. row' = IF Holds(n, l) THEN [row EXCEPT ![l] = r] ELSE row
  BY <1>2, <1>4, <1>5, <1>6 DEF Settle
<1> HIDE DEF r
<1>9. /\ row' \in [Leases -> Rows]
      /\ \A k \in Leases : k # l => row'[k] = row[k]
      /\ row' = row \/ (Holds(n, l) /\ row'[l] = r)
  BY <1>7, <1>8 DEF Types
<1>10. /\ worker' \in [Nodes -> Sweeps] /\ worker'[n] = Idle
       /\ \A m \in Nodes : m # n => worker'[m] = worker[m]
  BY <1>1, IdleShape DEF Types
<1> QED BY <1>1, <1>2, <1>4, <1>7, <1>9, <1>10 DEF Types

LEMMA CrashDoes ==
  ASSUME Types, NEW n \in Nodes, Crash(n)
  PROVE  /\ Types'
         /\ worker'[n] = Idle
         /\ \A k \in Leases : role'[k].exists => role[k].exists
         /\ \A m \in Nodes : m # n => worker'[m] = worker[m]
         /\ UNCHANGED <<row, mint, prov>>
<1>1. /\ worker' = [worker EXCEPT ![n] = Idle]
      /\ UNCHANGED <<row, mint, prov, auth, requests>>
      /\ role' \in {role} \cup (IF worker[n].phase = "call" /\ Applicable(n) THEN {Effect(n)} ELSE {})
  BY DEF Crash
<1>2. role' = role \/ (worker[n].phase = "call" /\ role' = Effect(n))
  BY <1>1
<1>3. /\ role' \in [Leases -> [exists : BOOLEAN, until : Nat]]
      /\ \A k \in Leases : role'[k].exists => role[k].exists
  <2>1. CASE role' = role
    BY <2>1 DEF Types
  <2>2. CASE worker[n].phase = "call" /\ role' = Effect(n)
    BY <2>2, EffectTypes
  <2> QED BY <1>2, <2>1, <2>2
<1>4. faults' \in 0..MaxFaults
  BY LeaseConstants DEF Crash, Fault, Types
<1> QED BY <1>1, <1>3, <1>4, IdleShape DEF Types
LEMMA EnqueuedIs ==
  ASSUME NEW r \in Rows, NEW state \in States
  PROVE  /\ Enqueued(r, state) \in Rows /\ Enqueued(r, state).state = state
         /\ Enqueued(r, state).effect = r.effect /\ Enqueued(r, state).owner = NoNode
BY DEF Enqueued, Rows

(* RevokeLease, RenewLease and SettleLease: a queued transition ends any   *)
(* claim.                                                                  *)
LEMMA QueueDoes ==
  ASSUME Types, NEW l \in Leases, RevokeLease(l) \/ RenewLease(l) \/ SettleLease(l)
  PROVE  /\ Types'
         /\ row'[l].owner = NoNode /\ row'[l].effect = row[l].effect
         /\ \/ /\ row[l].state \notin Terminal \cup {"none"} /\ row'[l].state = "revoking"
               /\ RevokeMinting \/ ~MintRunning(l)
            \/ row[l].state = "active" /\ row'[l].state = "renewing"
            \/ row[l].state = "unknown" /\ row'[l].state = "unknown"
         /\ \A k \in Leases : k # l => row'[k] = row[k]
         /\ UNCHANGED <<role, mint, worker, prov>>
<1>1. /\ "revoking" \in States /\ "renewing" \in States /\ "unknown" \in States
      /\ row[l] \in Rows
  BY DEF States, Transient, Types
<1>2. requests' \in 0..MaxRequests
  BY LeaseConstants DEF RevokeLease, RenewLease, SettleLease, Request, Types
<1>3. UNCHANGED <<role, mint, worker, prov, auth, faults>>
  BY DEF RevokeLease, RenewLease, SettleLease
<1>4. CASE RevokeLease(l)
  <2>1. /\ row' = [row EXCEPT ![l] = Enqueued(row[l], "revoking")]
        /\ row[l].state \notin Terminal \cup {"none"}
        /\ RevokeMinting \/ ~MintRunning(l)
    BY <1>4 DEF RevokeLease, MayEnqueue, Types
  <2> QED BY <1>1, <1>2, <1>3, <2>1, EnqueuedIs DEF Types
<1>5. CASE RenewLease(l)
  <2>1. row' = [row EXCEPT ![l] = Enqueued(row[l], "renewing")] /\ row[l].state = "active"
    BY <1>5 DEF RenewLease, MayEnqueue, Types
  <2> QED BY <1>1, <1>2, <1>3, <2>1, EnqueuedIs DEF Types
<1>6. CASE SettleLease(l)
  <2>1. row' = [row EXCEPT ![l] = Enqueued(row[l], "unknown")] /\ row[l].state = "unknown"
    BY <1>6 DEF SettleLease, MayEnqueue, Types
  <2> QED BY <1>1, <1>2, <1>3, <2>1, EnqueuedIs DEF Types
<1> QED BY <1>4, <1>5, <1>6

LEMMA DeleteProviderDoes ==
  ASSUME Types, NEW revokeAll \in BOOLEAN, DeleteProvider(revokeAll)
  PROVE  /\ Types'
         /\ RevokeMinting \/ \A l \in Leases : ~MintRunning(l)
         /\ \A l \in Leases :
              \/ row'[l] = row[l] /\ row[l].state \in Terminal \cup {"none", "revoking"}
              \/ /\ row[l].state \notin Terminal \cup {"none"} /\ row'[l].state = "revoking"
                 /\ row'[l].effect = row[l].effect /\ row'[l].owner = NoNode
         /\ UNCHANGED <<role, mint, worker>>
<1>1. /\ RevokeMinting \/ \A l \in Leases : ~MintRunning(l)
      /\ row' = [l \in Leases |-> IF l \in LiveLeases /\ row[l].state # "revoking"
                                  THEN Enqueued(row[l], "revoking") ELSE row[l]]
      /\ UNCHANGED <<role, mint, worker, auth, faults>>
  BY DEF DeleteProvider
<1>2. requests' \in 0..MaxRequests
  BY LeaseConstants DEF DeleteProvider, Request, Types
<1>3. prov' \in [active : BOOLEAN, credential : BOOLEAN]
  <2>1. prov' = [prov EXCEPT !.active = FALSE]
    BY DEF DeleteProvider
  <2> QED BY <2>1 DEF Types
<1>4. "revoking" \in States /\ \A l \in Leases : row[l] \in Rows
  BY DEF States, Transient, Types
<1>5. \A l \in Leases :
        \/ row'[l] = row[l] /\ row[l].state \in Terminal \cup {"none", "revoking"}
        \/ row'[l] = Enqueued(row[l], "revoking") /\ row[l].state \notin Terminal \cup {"none"}
  BY <1>1 DEF LiveLeases
<1>6. row' \in [Leases -> Rows]
  <2>1. \A l \in Leases : row'[l] \in Rows
    BY <1>4, <1>5, EnqueuedIs
  <2> QED BY <1>1, <2>1
<1> QED BY <1>1, <1>2, <1>3, <1>4, <1>5, <1>6, EnqueuedIs DEF Types

LEMMA CustodyDoes ==
  ASSUME Types, RevokeCredential \/ ReplaceCredential \/ WithdrawAuthority
  PROVE  /\ Types'
         /\ prov'.active = prov.active
         /\ UNCHANGED <<row, role, mint, worker>>
<1>1. UNCHANGED <<row, role, mint, worker, faults>>
  BY DEF RevokeCredential, ReplaceCredential, WithdrawAuthority
<1>2. requests' \in 0..MaxRequests
  BY LeaseConstants DEF RevokeCredential, ReplaceCredential, WithdrawAuthority, Request, Types
<1>3. prov' \in [active : BOOLEAN, credential : BOOLEAN] /\ prov'.active = prov.active
  <2>1. prov' \in {prov, [prov EXCEPT !.credential = FALSE], [prov EXCEPT !.credential = TRUE]}
    BY DEF RevokeCredential, ReplaceCredential, WithdrawAuthority
  <2> QED BY <2>1 DEF Types
<1>4. auth' \in {"full", "read", "none"}
  BY DEF RevokeCredential, ReplaceCredential, WithdrawAuthority, Types
<1> QED BY <1>1, <1>2, <1>3, <1>4 DEF Types

LEMMA LessIs ==
  ASSUME NEW t \in Nat
  PROVE  Less(t) \in Nat /\ Less(t) <= t /\ (t > 1 => Less(t) > 0)
BY DEF Less

(* Time changes deadlines only. *)
LEMMA TickDoes ==
  ASSUME Types, Tick
  PROVE  /\ Types'
         /\ SlowMint \/ MintsTimely
         /\ \A l \in Leases : /\ row'[l].state = row[l].state /\ row'[l].effect = row[l].effect
                              /\ row'[l].owner = row[l].owner
                              /\ row'[l].until > 0 => row[l].until > 0
                              /\ row[l].next > 1 => row'[l].next > 0
                              /\ role'[l].exists = role[l].exists
                              /\ \/ mint'[l] = mint[l]
                                 \/ /\ mint[l].phase = "created" /\ mint'[l].phase = "created"
                                    /\ mint'[l].result = mint[l].result
         /\ \A n \in Nodes : \/ worker'[n] = worker[n]
                             \/ /\ worker[n].phase \in {"call", "answered"}
                                /\ worker'[n].phase = worker[n].phase
                                /\ worker'[n].lease = worker[n].lease
                                /\ worker'[n].kind = worker[n].kind
                                /\ worker[n].phase = "answered" => worker'[n].result = worker[n].result
         /\ prov' = prov
<1>1. /\ Suspension
      /\ row' = [l \in Leases |-> [row[l] EXCEPT !.next = Less(@), !.expires = Less(@),
                                                 !.until = Less(@)]]
      /\ role' = [l \in Leases |-> [role[l] EXCEPT !.until = Less(@)]]
      /\ mint' = [l \in Leases |-> IF mint[l].phase = "created"
                                   THEN [mint[l] EXCEPT !.expires = Less(@)] ELSE mint[l]]
      /\ worker' = [n \in Nodes |-> IF "expires" \in DOMAIN worker[n]
                                    THEN [worker[n] EXCEPT !.expires = Less(@)] ELSE worker[n]]
      /\ UNCHANGED <<prov, auth, requests>>
  BY DEF Tick
<1>2. (SlowMint \/ MintsTimely) /\ faults' \in 0..MaxFaults
  <2>1. SlowMint \/ MintsTimely
    BY <1>1, Zenon DEF Suspension
  <2>2. faults' = faults \/ (faults < MaxFaults /\ faults' = faults + 1)
    BY <1>1, Zenon DEF Suspension, Fault
  <2>3. faults' \in 0..MaxFaults
    BY <2>2, LeaseConstants DEF Types
  <2> QED BY <2>1, <2>3
<1>3. ASSUME NEW l \in Leases
      PROVE  /\ row'[l] \in Rows
             /\ row'[l].state = row[l].state /\ row'[l].effect = row[l].effect
             /\ row'[l].owner = row[l].owner
             /\ row'[l].until > 0 => row[l].until > 0
             /\ row[l].next > 1 => row'[l].next > 0
  <2>1. row[l] \in Rows
    BY DEF Types
  <2>2. /\ Less(row[l].next) \in Nat /\ Less(row[l].expires) \in Nat /\ Less(row[l].until) \in Nat
        /\ Less(row[l].until) <= row[l].until
        /\ row[l].next > 1 => Less(row[l].next) > 0
    BY <2>1, LessIs DEF Rows
  <2>3. row'[l] = [row[l] EXCEPT !.next = Less(row[l].next), !.expires = Less(row[l].expires),
                                 !.until = Less(row[l].until)]
    BY <1>1, <2>1 DEF Rows
  <2>4. /\ row'[l].state = row[l].state /\ row'[l].effect = row[l].effect
        /\ row'[l].owner = row[l].owner
        /\ row'[l].until = Less(row[l].until) /\ row'[l].next = Less(row[l].next)
    BY <2>1, <2>3 DEF Rows
  <2>5. row'[l] \in Rows
    BY <2>1, <2>2, <2>3 DEF Rows
  <2>6. row[l].until \in Nat
    BY <2>1 DEF Rows
  <2> QED BY <2>2, <2>4, <2>5, <2>6
<1>4. ASSUME NEW l \in Leases
      PROVE  role'[l] \in [exists : BOOLEAN, until : Nat] /\ role'[l].exists = role[l].exists
  <2>1. role[l] \in [exists : BOOLEAN, until : Nat]
    BY DEF Types
  <2>2. Less(role[l].until) \in Nat
    BY <2>1, LessIs
  <2> QED BY <1>1, <2>1, <2>2
<1>5. ASSUME NEW l \in Leases
      PROVE  /\ mint'[l] \in Mints
             /\ \/ mint'[l] = mint[l]
                \/ /\ mint[l].phase = "created" /\ mint'[l].phase = "created"
                   /\ mint'[l].result = mint[l].result
  <2>1. CASE mint[l].phase # "created"
    BY <1>1, <2>1 DEF Types
  <2>2. CASE mint[l].phase = "created"
    <3>1. mint[l] \in [phase : {"created"}, result : Results \ {"denied"}, expires : Nat]
      BY <2>2 DEF Types, Mints
    <3>2. Less(mint[l].expires) \in Nat
      BY <3>1, LessIs
    <3>3. mint'[l] = [mint[l] EXCEPT !.expires = Less(mint[l].expires)]
      BY <1>1, <2>2, <3>1
    <3>4. /\ mint'[l] \in [phase : {"created"}, result : Results \ {"denied"}, expires : Nat]
          /\ mint'[l].phase = "created" /\ mint'[l].result = mint[l].result
      BY <3>1, <3>2, <3>3
    <3> QED BY <2>2, <3>4 DEF Mints
  <2> QED BY <2>1, <2>2
<1>6. ASSUME NEW n \in Nodes
      PROVE  /\ worker'[n] \in Sweeps
             /\ \/ worker'[n] = worker[n]
                \/ /\ worker[n].phase \in {"call", "answered"}
                   /\ worker'[n].phase = worker[n].phase
                   /\ worker'[n].lease = worker[n].lease
                   /\ worker'[n].kind = worker[n].kind
                   /\ worker[n].phase = "answered" => worker'[n].result = worker[n].result
  <2>1. CASE "expires" \notin DOMAIN worker[n]
    BY <1>1, <2>1 DEF Types
  <2>2. CASE "expires" \in DOMAIN worker[n]
    <3>1. worker[n] \in TimedSweeps
      BY <2>2 DEF Types, Sweeps, Idle, ClaimedSweeps, PlainSweeps
    <3>2. worker[n].expires \in Nat
      BY <3>1 DEF TimedSweeps
    <3>3. Less(worker[n].expires) \in Nat
      BY <3>2, LessIs
    <3>4. worker'[n] = [worker[n] EXCEPT !.expires = Less(worker[n].expires)]
      BY <1>1, <2>2
    <3>5. /\ worker'[n] \in TimedSweeps
          /\ worker[n].phase \in {"call", "answered"}
          /\ worker'[n].phase = worker[n].phase
          /\ worker'[n].lease = worker[n].lease
          /\ worker'[n].kind = worker[n].kind
          /\ worker[n].phase = "answered" => worker'[n].result = worker[n].result
      BY <3>1, <3>3, <3>4 DEF TimedSweeps
    <3> QED BY <3>5 DEF Sweeps
  <2> QED BY <2>1, <2>2
<1>7. Types'
  BY <1>1, <1>2, <1>3, <1>4, <1>5, <1>6 DEF Types
<1> QED BY <1>1, <1>2, <1>3, <1>4, <1>5, <1>6, <1>7
-----------------------------------------------------------------------------
(* The fence.                                                              *)

(* What a sweep that holds its claim knows of the row.                     *)
Informed(n, l) ==
    /\ row[l].state \in Open
    /\ worker[n].phase = "claimed" => worker[n].state = row[l].state
    /\ worker[n].phase # "claimed" => worker[n].kind = DeriveKind(l, row[l].state)
    /\ worker[n].phase \notin {"claimed", "open"} => row[l].effect = worker[n].kind

LEMMA FencedIs ==
  Types => (Fenced <=> \A n \in Nodes, l \in Leases :
              worker[n].phase # "idle" /\ worker[n].lease = l /\ Holds(n, l) => Informed(n, l))
<1> SUFFICES ASSUME Types
             PROVE  Fenced <=> \A n \in Nodes, l \in Leases :
              worker[n].phase # "idle" /\ worker[n].lease = l /\ Holds(n, l) => Informed(n, l)
  OBVIOUS
<1>1. \A n \in Nodes : worker[n].phase # "idle" => worker[n].lease \in Leases
  BY SweepShape DEF Types
<1> QED BY <1>1 DEF Fenced, Informed

LEMMA FencedIsPrime ==
  (Types => (Fenced <=> \A n \in Nodes, l \in Leases :
              worker[n].phase # "idle" /\ worker[n].lease = l /\ Holds(n, l) => Informed(n, l)))'
BY FencedIs, PTL

(* The sweep of n is where it was, but for the time it has left.           *)
SweepKept(n) ==
    \/ worker'[n] = worker[n]
    \/ /\ worker[n].phase \in {"call", "answered"}
       /\ worker'[n].phase = worker[n].phase
       /\ worker'[n].lease = worker[n].lease
       /\ worker'[n].kind = worker[n].kind
       /\ worker[n].phase = "answered" => worker'[n].result = worker[n].result

(* Whoever holds l held it before, in the same state.                      *)
ClaimKept(n, l) ==
    Holds(n, l)' => /\ Holds(n, l)
                    /\ row'[l].state = row[l].state /\ row'[l].effect = row[l].effect

LEMMA InformedKept ==
  ASSUME NEW n \in Nodes, NEW l \in Leases, Informed(n, l), SweepKept(n),
         row'[l].state = row[l].state, row'[l].effect = row[l].effect
  PROVE  Informed(n, l)'
<1>1. DeriveKind(l, row[l].state)' = DeriveKind(l, row[l].state)
  BY DEF DeriveKind
<1> QED BY <1>1 DEF Informed, SweepKept

LEMMA FenceKept ==
  ASSUME Types, Types', Fenced,
         \A n \in Nodes : worker'[n].phase = "idle" \/ SweepKept(n),
         \A n \in Nodes, l \in Leases : ClaimKept(n, l)
  PROVE  Fenced'
<1> SUFFICES ASSUME NEW n \in Nodes, NEW l \in Leases,
                    worker'[n].phase # "idle", worker'[n].lease = l, Holds(n, l)'
             PROVE  Informed(n, l)'
  BY FencedIsPrime
<1>1. SweepKept(n) /\ worker[n].phase # "idle" /\ worker[n].lease = l
  BY DEF SweepKept
<1>2. Holds(n, l) /\ row'[l].state = row[l].state /\ row'[l].effect = row[l].effect
  BY DEF ClaimKept
<1>3. Informed(n, l)
  BY <1>1, <1>2, FencedIs
<1> QED BY <1>1, <1>2, <1>3, InformedKept

(* A row nobody holds afterwards, and the rows a step leaves alone.        *)
LEMMA ClaimsKept ==
  ASSUME Types, Types', NEW l \in Leases,
         \A k \in Leases : k # l => row'[k] = row[k],
         \/ row'[l].owner = NoNode
         \/ row'[l] = row[l]
  PROVE  \A n \in Nodes, k \in Leases : ClaimKept(n, k)
BY LeaseConstants DEF ClaimKept, Holds

LInv == Types /\ Fenced

LEMMA InitLInv == Init => LInv
<1> SUFFICES ASSUME Init PROVE LInv
  OBVIOUS
<1>1. NoRow \in Rows /\ NoRole \in [exists : BOOLEAN, until : Nat]
  <2>1. "none" \in States
    BY DEF States
  <2> QED BY <2>1 DEF NoRow, NoRole, Rows
<1>2. \A n \in Nodes : worker[n].phase = "idle"
  BY IdleShape DEF Init
<1> QED BY <1>1, <1>2, IdleShape, LeaseConstants DEF Init, LInv, Types, Fenced

(* Every step is fenced, and moves the rows as it may.                     *)
LEMMA MintFenced ==
  ASSUME LInv, NEW l \in Leases, MintStep(l) \/ MintLost(l)
  PROVE  LInv' /\ \A k \in Leases : RowMoves(k)
<1> USE DEF LInv
<1>1. CASE MintStart(l)
  BY <1>1, MintStartDoes, ClaimsKept, FenceKept DEF SweepKept, RowMoves
<1>2. CASE MintCreate(l)
  BY <1>2, MintCreateDoes, ClaimsKept, FenceKept DEF SweepKept, RowMoves
<1>3. CASE MintFinish(l)
  BY <1>3, MintFinishDoes, ClaimsKept, FenceKept DEF SweepKept, RowMoves
<1>4. CASE MintLost(l)
  BY <1>4, MintLostDoes, ClaimsKept, FenceKept DEF SweepKept, RowMoves
<1> QED BY <1>1, <1>2, <1>3, <1>4 DEF MintStep
LEMMA SweepFenced ==
  ASSUME LInv, NEW n \in Nodes, WorkerStep(n) \/ Crash(n)
  PROVE  LInv' /\ \A k \in Leases : RowMoves(k)
<1> USE DEF LInv
<1>0. IdleShape!1 /\ \A m \in Nodes \ {n} : worker'[m] = worker[m] => SweepKept(m)
  BY IdleShape DEF SweepKept
<1>1. ASSUME NEW l \in Leases, ClaimDueLease(n, l)
      PROVE  LInv' /\ \A k \in Leases : RowMoves(k)
  <2>1. /\ Types' /\ row[l].state \in Open
        /\ row'[l].state = row[l].state /\ row'[l].effect = row[l].effect /\ row'[l].owner = n
        /\ \A k \in Leases : k # l => row'[k] = row[k]
        /\ worker'[n] = [phase |-> "claimed", lease |-> l, state |-> row[l].state]
        /\ \A m \in Nodes : m # n => worker'[m] = worker[m]
    BY <1>1, ClaimDoes
  <2>2. Fenced'
    <3> SUFFICES ASSUME NEW m \in Nodes, NEW k \in Leases,
                        worker'[m].phase # "idle", worker'[m].lease = k, Holds(m, k)'
                 PROVE  Informed(m, k)'
      BY <2>1, FencedIsPrime
    <3>1. CASE m = n
      BY <2>1, <3>1 DEF Informed
    <3>2. CASE m # n
      <4>1. k # l /\ worker'[m] = worker[m] /\ row'[k] = row[k]
        BY <2>1, <3>2 DEF Holds
      <4>2. Informed(m, k)
        BY <4>1, FencedIs DEF Holds
      <4> QED BY <4>1, <4>2, InformedKept DEF SweepKept
    <3> QED BY <3>1, <3>2
  <2>3. \A k \in Leases : RowMoves(k)
    BY <2>1 DEF RowMoves
  <2> QED BY <2>1, <2>2, <2>3
<1>2. CASE OpenProvider(n)
  <2>1. PICK l \in Leases : l = worker[n].lease
    BY <1>2, OpenProviderDoes
  <2>2. /\ Types' /\ worker[n].phase = "claimed"
        /\ \/ row' = row /\ worker'[n] = [phase |-> "open", lease |-> l,
                                          kind |-> DeriveKind(l, worker[n].state)]
           \/ /\ worker'[n] = Idle
              /\ \/ row' = row
                 \/ /\ Holds(n, l) /\ row'[l].owner = NoNode
                    /\ row'[l].state = row[l].state /\ row'[l].effect = row[l].effect
        /\ \A k \in Leases : k # l => row'[k] = row[k]
        /\ \A m \in Nodes : m # n => worker'[m] = worker[m]
    BY <1>2, <2>1, OpenProviderDoes
  <2>3. CASE worker'[n] = Idle
    BY <1>0, <2>2, <2>3, ClaimsKept, FenceKept, IdleShape DEF SweepKept, RowMoves
  <2>4. CASE /\ row' = row /\ worker'[n] = [phase |-> "open", lease |-> l,
                                            kind |-> DeriveKind(l, worker[n].state)]
    <3>1. Fenced'
      <4> SUFFICES ASSUME NEW m \in Nodes, NEW k \in Leases,
                          worker'[m].phase # "idle", worker'[m].lease = k, Holds(m, k)'
                   PROVE  Informed(m, k)'
        BY <2>2, FencedIsPrime
      <4>1. Holds(m, k)
        BY <2>4 DEF Holds
      <4>2. CASE m = n
        <5>1. k = l /\ Informed(n, l)
          BY <2>1, <2>2, <2>4, <4>1, <4>2, FencedIs
        <5>2. worker[n].state = row[l].state /\ row[l].state \in Open
          BY <2>2, <5>1 DEF Informed
        <5>3. DeriveKind(l, row[l].state)' = DeriveKind(l, worker[n].state)
          BY <2>4, <5>2 DEF DeriveKind
        <5> QED BY <2>4, <4>2, <5>1, <5>2, <5>3 DEF Informed
      <4>3. CASE m # n
        <5>1. worker'[m] = worker[m]
          BY <2>2, <4>3
        <5>2. Informed(m, k)
          BY <4>1, <5>1, FencedIs
        <5> QED BY <2>4, <5>1, <5>2, InformedKept DEF SweepKept
      <4> QED BY <4>2, <4>3
    <3> QED BY <2>2, <2>4, <3>1 DEF RowMoves
  <2> QED BY <2>2, <2>3, <2>4
<1>3. CASE RecordIntent(n)
  <2>1. PICK l \in Leases : l = worker[n].lease
    BY <1>3, RecordIntentDoes
  <2>2. /\ Types' /\ worker[n].phase = "open"
        /\ \/ /\ Holds(n, l)
              /\ row'[l].state = row[l].state /\ row'[l].effect = worker[n].kind
              /\ row'[l].owner = row[l].owner /\ row'[l].until = row[l].until
              /\ worker'[n].phase \in {"gate", "call"}
              /\ worker'[n].lease = l /\ worker'[n].kind = worker[n].kind
           \/ row' = row /\ worker'[n] = Idle
        /\ \A k \in Leases : k # l => row'[k] = row[k]
        /\ \A m \in Nodes : m # n => worker'[m] = worker[m]
    BY <1>3, <2>1, RecordIntentDoes
  <2>3. CASE row' = row /\ worker'[n] = Idle
    BY <1>0, <2>2, <2>3, ClaimsKept, FenceKept, IdleShape DEF SweepKept, RowMoves
  <2>4. CASE /\ Holds(n, l)
             /\ row'[l].state = row[l].state /\ row'[l].effect = worker[n].kind
             /\ row'[l].owner = row[l].owner /\ row'[l].until = row[l].until
             /\ worker'[n].phase \in {"gate", "call"}
             /\ worker'[n].lease = l /\ worker'[n].kind = worker[n].kind
    <3>1. /\ row[l].state \in Open /\ worker[n].kind = DeriveKind(l, row[l].state)
          /\ worker[n].kind \in Kinds
      BY <2>1, <2>2, <2>4, FencedIs, SweepShape DEF Informed, Types
    <3>2. DeriveKind(l, row[l].state)' = worker[n].kind
      BY <2>4, <3>1 DEF DeriveKind, Kinds, Open, Transient
    <3>3. Fenced'
      <4> SUFFICES ASSUME NEW m \in Nodes, NEW k \in Leases,
                          worker'[m].phase # "idle", worker'[m].lease = k, Holds(m, k)'
                   PROVE  Informed(m, k)'
        BY <2>2, FencedIsPrime
      <4>1. CASE m = n
        BY <2>4, <3>1, <3>2, <4>1 DEF Informed
      <4>2. CASE m # n
        <5>1. k # l /\ worker'[m] = worker[m] /\ row'[k] = row[k]
          BY <2>2, <2>4, <4>2 DEF Holds
        <5>2. Informed(m, k)
          BY <5>1, FencedIs DEF Holds
        <5> QED BY <5>1, <5>2, InformedKept DEF SweepKept
      <4> QED BY <4>1, <4>2
    <3> QED BY <2>2, <2>4, <3>1, <3>3 DEF RowMoves
  <2> QED BY <2>2, <2>3, <2>4
<1>4. CASE Reauthorize(n) \/ CallProvider(n)
  <2>1. /\ Types' /\ worker[n].phase \in {"gate", "call"} /\ worker'[n].phase \in {"call", "answered"}
        /\ worker'[n].lease = worker[n].lease /\ worker'[n].kind = worker[n].kind
        /\ \A m \in Nodes : m # n => worker'[m] = worker[m]
        /\ row' = row
    BY <1>4, ReauthorizeDoes, CallProviderDoes
  <2>2. Fenced'
    <3> SUFFICES ASSUME NEW m \in Nodes, NEW k \in Leases,
                        worker'[m].phase # "idle", worker'[m].lease = k, Holds(m, k)'
                 PROVE  Informed(m, k)'
      BY <2>1, FencedIsPrime
    <3>1. Holds(m, k) /\ worker[m].phase # "idle" /\ worker[m].lease = k
      BY <2>1 DEF Holds
    <3>2. Informed(m, k)
      BY <3>1, FencedIs
    <3>3. DeriveKind(k, row[k].state)' = DeriveKind(k, row[k].state)
      BY <2>1 DEF DeriveKind
    <3> QED BY <2>1, <3>2, <3>3 DEF Informed
  <2> QED BY <2>1, <2>2 DEF RowMoves
<1>5. CASE Settle(n)
  <2>1. PICK l \in Leases : l = worker[n].lease
    BY <1>5, SettleDoes
  <2>2. /\ Types' /\ worker[n].phase = "answered"
        /\ \/ row' = row
           \/ /\ Holds(n, l) /\ row'[l].owner = NoNode
              /\ row'[l].state = SettledState(worker[n].kind, worker[n].result)
              /\ row'[l].effect = row[l].effect
        /\ \A k \in Leases : k # l => row'[k] = row[k]
        /\ worker'[n] = Idle
        /\ \A m \in Nodes : m # n => worker'[m] = worker[m]
    BY <1>5, <2>1, SettleDoes
  <2>3. Fenced'
    BY <1>0, <2>2, ClaimsKept, FenceKept, IdleShape DEF SweepKept
  <2>4. RowMoves(l)
    <3>1. CASE row' = row
      BY <3>1 DEF RowMoves
    <3>2. CASE /\ Holds(n, l)
               /\ row'[l].state = SettledState(worker[n].kind, worker[n].result)
               /\ row'[l].effect = row[l].effect
      <4>1. /\ row[l].state \in Open /\ worker[n].kind = DeriveKind(l, row[l].state)
            /\ row[l].effect = worker[n].kind
        BY <2>1, <2>2, <3>2, FencedIs DEF Informed
      <4>2. worker[n].kind \in Kinds /\ worker[n].result \in Results
        BY <2>2, SweepShape DEF Types
      <4>3. row'[l].state \in {Done[row[l].effect], Kept[row[l].effect], "unknown"}
        BY <3>2, <4>1, <4>2, SettledStates
      <4> QED BY <3>2, <4>1, <4>3 DEF RowMoves
    <3> QED BY <2>2, <3>1, <3>2
  <2> QED BY <2>2, <2>3, <2>4 DEF RowMoves
<1>6. CASE Crash(n)
  <2>1. Types' /\ row' = row /\ worker'[n] = Idle /\ \A m \in Nodes : m # n => worker'[m] = worker[m]
    BY <1>6, CrashDoes
  <2>2. \A m \in Nodes, k \in Leases : ClaimKept(m, k)
    BY <2>1 DEF ClaimKept, Holds
  <2> QED BY <2>1, <2>2, FenceKept, IdleShape DEF SweepKept, RowMoves
<1> QED BY <1>1, <1>2, <1>3, <1>4, <1>5, <1>6 DEF WorkerStep
(* A lease that is over, or that only a revocation can move.               *)
Cleanup(l) ==
    \/ row[l].state \in Terminal \cup {"none", "revoking"}
    \/ row[l].state = "unknown" /\ row[l].effect = "revoke"

(* A lease whose revocation was accepted.                                  *)
Revoked(l) ==
    \/ row[l].state \in {"revoking", "revoked"}
    \/ row[l].state = "unknown" /\ row[l].effect = "revoke"

LEMMA StepMoves ==
  ASSUME LInv, [Next]_vars
  PROVE  /\ LInv'
         /\ \A l \in Leases : RowMoves(l)
         /\ prov'.active = prov.active \/ \A l \in Leases : Cleanup(l)'
<1>1. ASSUME NEW l \in Leases, MintStep(l) \/ MintLost(l)
      PROVE  /\ LInv' /\ (\A k \in Leases : RowMoves(k)) /\ prov'.active = prov.active
  <2>1. prov' = prov
    BY <1>1 DEF MintStep, MintStart, MintCreate, MintFinish, MintLost
  <2> QED BY <1>1, <2>1, MintFenced
<1>2. ASSUME NEW n \in Nodes, WorkerStep(n) \/ Crash(n)
      PROVE  /\ LInv' /\ (\A k \in Leases : RowMoves(k)) /\ prov'.active = prov.active
  <2>1. prov' = prov
    BY <1>2 DEF WorkerStep, ClaimDueLease, OpenProvider, RecordIntent, Reauthorize, CallProvider,
                Settle, Crash
  <2> QED BY <1>2, <2>1, SweepFenced
<1>3. ASSUME NEW l \in Leases, RevokeLease(l) \/ RenewLease(l) \/ SettleLease(l)
      PROVE  /\ LInv' /\ (\A k \in Leases : RowMoves(k)) /\ prov'.active = prov.active
  <2>1. /\ Types' /\ row'[l].owner = NoNode /\ row'[l].effect = row[l].effect
        /\ \/ row[l].state \notin Terminal \cup {"none"} /\ row'[l].state = "revoking"
           \/ row[l].state = "active" /\ row'[l].state = "renewing"
           \/ row[l].state = "unknown" /\ row'[l].state = "unknown"
        /\ \A k \in Leases : k # l => row'[k] = row[k]
        /\ UNCHANGED <<worker, prov>>
    BY <1>3, QueueDoes DEF LInv
  <2>2. Fenced'
    BY <2>1, ClaimsKept, FenceKept DEF LInv, SweepKept
  <2> QED BY <2>1, <2>2 DEF LInv, RowMoves
<1>4. ASSUME NEW revokeAll \in BOOLEAN, DeleteProvider(revokeAll)
      PROVE  /\ LInv' /\ (\A k \in Leases : RowMoves(k)) /\ (\A k \in Leases : Cleanup(k)')
  <2>1. /\ Types' /\ worker' = worker
        /\ \A l \in Leases :
             \/ row'[l] = row[l] /\ row[l].state \in Terminal \cup {"none", "revoking"}
             \/ /\ row[l].state \notin Terminal \cup {"none"} /\ row'[l].state = "revoking"
                /\ row'[l].effect = row[l].effect /\ row'[l].owner = NoNode
    BY <1>4, DeleteProviderDoes DEF LInv
  <2>2. \A n \in Nodes, l \in Leases : ClaimKept(n, l)
    BY <2>1, LeaseConstants DEF ClaimKept, Holds
  <2>3. Fenced'
    BY <2>1, <2>2, FenceKept DEF LInv, SweepKept
  <2> QED BY <2>1, <2>3 DEF LInv, RowMoves, Cleanup
<1>5. CASE RevokeCredential \/ ReplaceCredential \/ WithdrawAuthority
  <2>1. Types' /\ prov'.active = prov.active /\ UNCHANGED <<row, worker>>
    BY <1>5, CustodyDoes DEF LInv
  <2>2. \A n \in Nodes, l \in Leases : ClaimKept(n, l)
    BY <2>1 DEF ClaimKept, Holds
  <2> QED BY <2>1, <2>2, FenceKept DEF LInv, SweepKept, RowMoves
<1>6. CASE Tick
  <2>1. /\ Types' /\ prov' = prov
        /\ \A l \in Leases : /\ row'[l].state = row[l].state /\ row'[l].effect = row[l].effect
                             /\ row'[l].owner = row[l].owner
                             /\ row'[l].until > 0 => row[l].until > 0
        /\ \A n \in Nodes : SweepKept(n)
    BY <1>6, TickDoes DEF LInv, SweepKept
  <2>2. \A n \in Nodes, l \in Leases : ClaimKept(n, l)
    BY <2>1 DEF ClaimKept, Holds
  <2> QED BY <2>1, <2>2, FenceKept DEF LInv, RowMoves
<1>7. CASE UNCHANGED vars
  <2>1. Types' /\ prov' = prov /\ UNCHANGED <<row, worker>>
    BY <1>7 DEF vars, LInv, Types
  <2>2. \A n \in Nodes, l \in Leases : ClaimKept(n, l)
    BY <2>1 DEF ClaimKept, Holds
  <2> QED BY <2>1, <2>2, FenceKept DEF LInv, SweepKept, RowMoves
<1> QED BY <1>1, <1>2, <1>3, <1>4, <1>5, <1>6, <1>7 DEF Next

LEMMA LInvAlways == Spec => []LInv
<1>1. LInv /\ [Next]_vars => LInv'
  BY StepMoves
<1> QED BY <1>1, InitLInv, PTL DEF Spec

(* What a row that only a revocation can move becomes.                     *)
LEMMA RevocationMoves ==
  ASSUME NEW l \in Leases, RowMoves(l), row[l].state # "none" \/ ~prov.active
  PROVE  /\ Cleanup(l) => Cleanup(l)'
         /\ Revoked(l) => Revoked(l)'
<1>1. /\ Done["revoke"] = "revoked" /\ Kept["revoke"] = "revoking"
  BY DEF Done, Kept
<1>2. ASSUME row[l].state \in Open, Cleanup(l) \/ Revoked(l)
      PROVE  Revoked(l) /\ DeriveKind(l, row[l].state) = "revoke"
  BY <1>2 DEF Cleanup, Revoked, DeriveKind, Open, Transient, Terminal
<1>3. ASSUME Cleanup(l) \/ Revoked(l)
      PROVE  \/ row'[l].state = row[l].state /\ row'[l].effect = row[l].effect
             \/ Revoked(l)' /\ row[l].state \in Open
             \/ row'[l].state = "revoking"
  BY <1>1, <1>2, <1>3 DEF RowMoves, Cleanup, Revoked, Open, Transient, Terminal
<1> QED BY <1>3 DEF Cleanup, Revoked, Terminal

TombstoneInv == LInv /\ TombstonedIsCleanup

LEMMA TombstonedIs ==
  TombstonedIsCleanup <=> (~prov.active => \A l \in Leases : Cleanup(l))
BY DEF TombstonedIsCleanup, Cleanup

LEMMA TypesOK == Types => TypeOK
<1> SUFFICES ASSUME Types PROVE TypeOK
  OBVIOUS
<1>1. \A l \in Leases : mint[l].phase \in {"idle", "started", "created", "done", "disclosed"}
  BY MintShape DEF Types
<1>2. \A n \in Nodes : worker[n] # Idle =>
        /\ worker[n].phase \in {"claimed", "open", "gate", "call", "answered"}
        /\ worker[n].lease \in Leases
        /\ worker[n].phase # "claimed" => worker[n].kind \in Kinds
  BY SweepShape DEF Types
<1> QED BY <1>1, <1>2 DEF Types, TypeOK, Rows

(* The lease rows are sound: of a deleted provider only cleanup is left,   *)
(* whatever mint, sweep or queued transition was under way when it was     *)
(* deleted (Delete with revokeAll, and the fence of the settling UPDATEs). *)
THEOREM RowsAlwaysSound == Spec => []RowsSound
<1>1. Init => TombstoneInv
  BY InitLInv DEF TombstoneInv, TombstonedIsCleanup, Init
<1>2. TombstoneInv /\ [Next]_vars => TombstoneInv'
  <2> SUFFICES ASSUME TombstoneInv, [Next]_vars PROVE TombstoneInv'
    OBVIOUS
  <2>1. /\ LInv' /\ \A l \in Leases : RowMoves(l)
        /\ prov'.active = prov.active \/ \A l \in Leases : Cleanup(l)'
    BY StepMoves DEF TombstoneInv
  <2>2. ~prov'.active => \A l \in Leases : Cleanup(l)'
    BY <2>1, TombstonedIs, RevocationMoves DEF TombstoneInv
  <2> QED BY <2>1, <2>2 DEF TombstoneInv, TombstonedIsCleanup, Cleanup
<1>3. TombstoneInv => RowsSound
  BY TypesOK DEF TombstoneInv, LInv, RowsSound
<1> QED BY <1>1, <1>2, <1>3, PTL DEF Spec

(* A revocation that was accepted is never undone, although an unknown     *)
(* lease resumes whatever effect was recorded last: no sweep, claimed      *)
(* before or after, renews, reactivates or merely expires the lease.       *)
THEOREM RevocationIsFinal == Spec => RevocationSticks
<1> SUFFICES ASSUME NEW l \in Leases
             PROVE  Spec => [](row[l].state = "revoking" =>
                               [](row[l].state \in {"revoking", "unknown", "revoked"}))
  BY DEF RevocationSticks
<1>1. LInv /\ Revoked(l) /\ [Next]_vars => Revoked(l)'
  <2> SUFFICES ASSUME LInv, Revoked(l), [Next]_vars PROVE Revoked(l)'
    OBVIOUS
  <2> QED BY StepMoves, RevocationMoves DEF Revoked
<1>2. row[l].state = "revoking" => Revoked(l)
  BY DEF Revoked
<1>3. Revoked(l) => row[l].state \in {"revoking", "unknown", "revoked"}
  BY DEF Revoked
<1> QED BY <1>1, <1>2, <1>3, LInvAlways, PTL DEF Spec
-----------------------------------------------------------------------------
(* No role is left behind.                                                 *)

RoleInv(l) == LInv /\ Undisturbed(l) /\ MintTrue(l) /\ DropsLast(l) /\ Gone(l)

RoleTrue(l) == MintTrue(l) /\ DropsLast(l) /\ Gone(l)

LEMMA InitRoleInv == ASSUME NEW l \in Leases PROVE Init => RoleInv(l)
<1> SUFFICES ASSUME Init PROVE Undisturbed(l) /\ RoleTrue(l)
  BY InitLInv DEF RoleInv, RoleTrue
<1>1. mint[l].phase = "idle" /\ row[l].state = "none" /\ ~role[l].exists
  BY IdleShape DEF Init, NoRow, NoRole
<1>2. \A n \in Nodes : worker[n].phase = "idle"
  BY IdleShape DEF Init
<1> QED BY <1>1, <1>2 DEF Undisturbed, MintRunning, RoleTrue, MintTrue, DropsLast, Gone

MintKept(l) ==
    \/ mint'[l] = mint[l]
    \/ /\ mint[l].phase = "created" /\ mint'[l].phase = "created"
       /\ mint'[l].result = mint[l].result

(* A step that creates no role of l, starts or ends no request of l,       *)
(* settles nothing and starts or answers no sweep of l.                    *)
LEMMA RoleKept ==
  ASSUME NEW l \in Leases, RoleInv(l), MintKept(l), role'[l].exists => role[l].exists,
         row'[l].state = row[l].state \/ (row[l].state # "none" /\ row'[l].state \notin Terminal),
         \A n \in Nodes : \/ worker'[n].phase = "idle" \/ SweepKept(n)
                          \/ worker[n].phase # "idle" /\ worker[n].lease # l
                               /\ worker'[n].lease = worker[n].lease
  PROVE  RoleTrue(l)'
<1>1. MintTrue(l)'
  BY DEF RoleInv, MintTrue, MintKept
<1>2. DropsLast(l)'
  BY DEF RoleInv, DropsLast, MintKept, SweepKept
<1>3. Gone(l)'
  BY DEF RoleInv, Gone
<1> QED BY <1>1, <1>2, <1>3 DEF RoleTrue

LEMMA MintLeavesNoRole ==
  ASSUME NEW l \in Leases, RoleInv(l), NEW k \in Leases, MintStep(k) \/ MintLost(k)
  PROVE  RoleTrue(l)'
<1> USE DEF RoleInv, LInv
<1>1. worker' = worker
  BY MintStartDoes, MintCreateDoes, MintFinishDoes, MintLostDoes DEF MintStep
<1>2. CASE k # l
  <2>1. row'[l] = row[l] /\ mint'[l] = mint[l] /\ role'[l] = role[l]
    BY <1>2, MintStartDoes, MintCreateDoes, MintFinishDoes, MintLostDoes DEF MintStep
  <2> QED BY <1>1, <2>1, RoleKept DEF MintKept, SweepKept
<1>3. CASE k = l /\ MintStart(l)
  <2>1. /\ mint[l].phase = "idle" /\ role' = role
        /\ row'[l].state = "minting" /\ mint'[l].phase = "started"
    BY <1>3, MintStartDoes
  <2> QED BY <1>1, <2>1 DEF RoleTrue, MintTrue, DropsLast, Gone, Terminal
<1>4. CASE k = l /\ MintCreate(l)
  <2>1. /\ mint[l].phase = "started" /\ mint'[l].phase = "created" /\ row' = row
        /\ mint'[l].result \in {"unreachable", "refused"} => role' = role
    BY <1>4, MintCreateDoes
  <2> QED BY <1>1, <2>1 DEF RoleTrue, Undisturbed, MintRunning, MintTrue, DropsLast, Gone, Terminal
<1>5. CASE k = l /\ MintFinish(l)
  <2>1. /\ mint[l].phase = "created" /\ mint'[l].phase \in {"done", "disclosed"} /\ role' = role
        /\ \/ row' = row
           \/ row'[l].state \in Terminal => mint[l].result \in {"unreachable", "refused"}
    BY <1>5, MintFinishDoes
  <2> QED BY <1>1, <2>1 DEF RoleTrue, MintTrue, DropsLast, Gone
<1>6. CASE k = l /\ MintLost(l)
  <2>1. MintRunning(l) /\ mint'[l].phase = "done" /\ row' = row
    BY <1>6, MintLostDoes
  <2> QED BY <1>1, <2>1
          DEF RoleTrue, Undisturbed, MintRunning, MintTrue, DropsLast, Gone, Terminal
<1> QED BY <1>2, <1>3, <1>4, <1>5, <1>6 DEF MintStep

LEMMA SweepLeavesNoRole ==
  ASSUME NEW l \in Leases, RoleInv(l), Undisturbed(l)', NEW n \in Nodes, WorkerStep(n) \/ Crash(n)
  PROVE  RoleTrue(l)'
<1> USE DEF RoleInv, LInv
<1>1. ASSUME NEW k \in Leases, ClaimDueLease(n, k) PROVE RoleTrue(l)'
  <2>1. /\ row[k].state \in Open /\ row'[k].state = row[k].state /\ row'[k].owner = n
        /\ \A h \in Leases : h # k => row'[h] = row[h]
        /\ worker'[n] = [phase |-> "claimed", lease |-> k, state |-> row[k].state]
        /\ \A m \in Nodes : m # n => worker'[m] = worker[m]
        /\ UNCHANGED <<role, mint>>
    BY <1>1, ClaimDoes
  <2>2. k = l => mint[l].phase \in {"done", "disclosed"}
    <3> SUFFICES ASSUME k = l PROVE mint[l].phase \in {"done", "disclosed"}
      OBVIOUS
    <3>1. mint[l].phase # "idle"
      BY <2>1 DEF MintTrue, Open, Transient
    <3>2. ~MintRunning(l)
      BY <2>1, LeaseConstants DEF Undisturbed, MintRunning
    <3> QED BY <3>1, <3>2, MintShape DEF MintRunning, Types
  <2>3. DropsLast(l)'
    BY <2>1, <2>2 DEF DropsLast
  <2>4. MintTrue(l)' /\ Gone(l)'
    BY <2>1 DEF MintTrue, Gone
  <2> QED BY <2>3, <2>4 DEF RoleTrue
<1>2. CASE OpenProvider(n) \/ RecordIntent(n) \/ Settle(n)
  <2>1. PICK k \in Leases : k = worker[n].lease
    BY <1>2, OpenProviderDoes, RecordIntentDoes, SettleDoes
  <2>2. /\ \A h \in Leases : h # k => row'[h] = row[h]
        /\ worker[n].phase # "idle"
        /\ worker'[n].phase \in {"idle", "open", "gate", "call"}
        /\ worker'[n].phase = "idle" \/ worker'[n].lease = k
        /\ \A m \in Nodes : m # n => worker'[m] = worker[m]
        /\ UNCHANGED <<role, mint>>
        /\ \/ row'[k].state = row[k].state
           \/ /\ worker[n].phase = "answered"
              /\ row'[k].state = SettledState(worker[n].kind, worker[n].result)
    <3>1. CASE OpenProvider(n)
      <4>1. /\ worker[n].phase = "claimed"
            /\ \/ row' = row /\ worker'[n] = [phase |-> "open", lease |-> k,
                                              kind |-> DeriveKind(k, worker[n].state)]
               \/ worker'[n] = Idle /\ (row' = row \/ row'[k].state = row[k].state)
            /\ \A h \in Leases : h # k => row'[h] = row[h]
            /\ \A m \in Nodes : m # n => worker'[m] = worker[m]
            /\ UNCHANGED <<role, mint>>
        BY <2>1, <3>1, OpenProviderDoes
      <4> QED BY <4>1, IdleShape
    <3>2. CASE RecordIntent(n)
      BY <2>1, <3>2, RecordIntentDoes, IdleShape
    <3>3. CASE Settle(n)
      BY <2>1, <3>3, SettleDoes, IdleShape
    <3> QED BY <1>2, <3>1, <3>2, <3>3
  <2>3. k = l => mint[l].phase \in {"done", "disclosed"}
    BY <2>1, <2>2 DEF DropsLast
  <2>4. DropsLast(l)'
    BY <2>1, <2>2, <2>3 DEF DropsLast
  <2>5. MintTrue(l)'
    BY <2>2, <2>3 DEF MintTrue
  <2>6. row'[k].state \in Terminal =>
          \/ row'[k].state = row[k].state
          \/ /\ worker[n].phase = "answered"
             /\ worker[n].kind # "renew" /\ worker[n].result = "ok"
    <3>1. worker[n].phase = "answered" => worker[n].kind \in Kinds /\ worker[n].result \in Results
      BY SweepShape DEF Types
    <3>2. CASE row'[k].state = row[k].state
      BY <3>2
    <3>3. CASE /\ worker[n].phase = "answered"
               /\ row'[k].state = SettledState(worker[n].kind, worker[n].result)
      <4>1. worker[n].kind \in Kinds /\ worker[n].result \in Results
        BY <3>1, <3>3
      <4>2. SettledState(worker[n].kind, worker[n].result) \in Terminal =>
              worker[n].kind # "renew" /\ worker[n].result = "ok"
        BY <4>1, SettledStates
      <4> QED BY <3>3, <4>2
    <3> QED BY <2>2, <3>2, <3>3
  <2>7. Gone(l)'
    BY <2>1, <2>2, <2>6 DEF Gone, DropsLast
  <2> QED BY <2>4, <2>5, <2>7 DEF RoleTrue
<1>3. CASE Reauthorize(n) \/ CallProvider(n) \/ Crash(n)
  <2>1. /\ \A k \in Leases : role'[k].exists => role[k].exists
        /\ \A m \in Nodes : m # n => worker'[m] = worker[m]
        /\ UNCHANGED <<row, mint>>
        /\ \/ worker'[n].phase = "idle"
           \/ /\ worker[n].phase # "idle" /\ worker'[n].lease = worker[n].lease
              /\ worker'[n].kind # "renew" /\ worker'[n].result = "ok" =>
                   ~role'[worker[n].lease].exists
    BY <1>3, ReauthorizeDoes, CallProviderDoes, CrashDoes, IdleShape
  <2>2. DropsLast(l)'
    BY <2>1 DEF DropsLast
  <2>3. MintTrue(l)' /\ Gone(l)'
    BY <2>1 DEF MintTrue, Gone
  <2> QED BY <2>2, <2>3 DEF RoleTrue
<1> QED BY <1>1, <1>2, <1>3 DEF WorkerStep

(* Whatever happens to a lease whose mint is not overtaken, its row says   *)
(* the truth about its role.                                               *)
LEMMA StepRoleInv ==
  ASSUME NEW l \in Leases
  PROVE  RoleInv(l) /\ [Next]_vars /\ Undisturbed(l)' => RoleInv(l)'
<1> SUFFICES ASSUME RoleInv(l), [Next]_vars, Undisturbed(l)' PROVE RoleTrue(l)'
  BY StepMoves DEF RoleInv, RoleTrue
<1>0. Types
  BY DEF RoleInv, LInv
<1>1. ASSUME NEW k \in Leases, MintStep(k) \/ MintLost(k) PROVE RoleTrue(l)'
  BY <1>1, MintLeavesNoRole
<1>2. ASSUME NEW n \in Nodes, WorkerStep(n) \/ Crash(n) PROVE RoleTrue(l)'
  BY <1>2, SweepLeavesNoRole
<1>3. ASSUME NEW k \in Leases, RevokeLease(k) \/ RenewLease(k) \/ SettleLease(k)
      PROVE  RoleTrue(l)'
  <2>1. /\ row'[l] = row[l] \/ (row[l].state # "none" /\ row'[l].state \notin Terminal)
        /\ UNCHANGED <<role, mint, worker>>
    BY <1>0, <1>3, QueueDoes DEF Terminal
  <2> QED BY <2>1, RoleKept DEF MintKept, SweepKept
<1>4. ASSUME NEW revokeAll \in BOOLEAN, DeleteProvider(revokeAll) PROVE RoleTrue(l)'
  <2>1. /\ row'[l] = row[l] \/ (row[l].state # "none" /\ row'[l].state \notin Terminal)
        /\ UNCHANGED <<role, mint, worker>>
    BY <1>0, <1>4, DeleteProviderDoes DEF Terminal
  <2> QED BY <2>1, RoleKept DEF MintKept, SweepKept
<1>5. CASE RevokeCredential \/ ReplaceCredential \/ WithdrawAuthority \/ UNCHANGED vars
  <2>1. UNCHANGED <<row, role, mint, worker>>
    BY <1>0, <1>5, CustodyDoes DEF vars
  <2> QED BY <2>1, RoleKept DEF MintKept, SweepKept
<1>6. CASE Tick
  <2>1. /\ row'[l].state = row[l].state /\ role'[l].exists = role[l].exists /\ MintKept(l)
        /\ \A n \in Nodes : SweepKept(n)
    BY <1>0, <1>6, TickDoes DEF MintKept, SweepKept
  <2> QED BY <2>1, RoleKept
<1> QED BY <1>1, <1>2, <1>3, <1>4, <1>5, <1>6 DEF Next

(* Only a mint that was overtaken leaves a role behind: a lease whose      *)
(* request was neither revoked nor recovered while it ran, however slow it *)
(* was and whatever sweeps stalled, crashed or lost their answers, has no  *)
(* role once it is revoked, expired or failed.  This is for each lease by  *)
(* itself, whatever became of the others.                                  *)
THEOREM OnlyOvertakenMintsOrphan ==
  ASSUME NEW l \in Leases
  PROVE  Spec /\ []Undisturbed(l) => [](row[l].state \in Terminal => ~role[l].exists)
<1>1. RoleInv(l) => (row[l].state \in Terminal => ~role[l].exists)
  BY DEF RoleInv, Gone
<1> QED BY <1>1, InitRoleInv, StepRoleInv, PTL DEF Spec
=============================================================================
