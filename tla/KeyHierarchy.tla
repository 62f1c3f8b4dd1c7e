---------------------------- MODULE KeyHierarchy ----------------------------
(***************************************************************************)
(* The upper tiers of the key hierarchy: the operator's root key wraps the *)
(* master key, the master wraps every tier-3 key.  `rotate-master-key`,    *)
(* the phases of `rotate-root-key` (service/rotation.go), the creation of  *)
(* tier-3 keys beside them (store/keyring), and what a process holds in    *)
(* memory (crypto/keyring.go) over the rows of store/keys_mutations.go.    *)
(*                                                                         *)
(* Key material is abstracted to who minted it: two processes that prepare *)
(* the same master version mint different keys.  Each write transaction    *)
(* takes the hierarchy fence and is one step; preparing is another.        *)
(***************************************************************************)
EXTENDS Integers

CONSTANTS Nodes,       \* processes over one datastore
          Keys,        \* tier-3 keys (project DEK versions, instance, token)
          First,       \* who minted master version 1 and the keys under it
          MaxVersion,  \* bound: master versions
          MaxEpoch,    \* bound: root key epochs
          LostAcks,    \* a commit may apply although its answer is an error
          FullStop     \* operators rotate the root with one process running

ASSUME KeyHierarchyAssumption ==
  /\ MaxVersion \in Nat \ {0} /\ MaxEpoch \in Nat \ {0}
  /\ LostAcks \in BOOLEAN /\ FullStop \in BOOLEAN

VARIABLES wrappers,   \* active master_keys rows: a master under a root epoch
          tier3,      \* master each tier-3 row is wrapped under while openable
          installed,  \* epoch of the root at the primary source
          held,       \* per node: masterSet, the versions held and the active one
          up,         \* per node: serving
          op,         \* per node: the one master or root rotation in flight
          mint        \* per node: a tier-3 key sealed and not yet created

vars == <<wrappers, tier3, installed, held, up, op, mint>>

Versions == 1..MaxVersion
Epochs   == 1..MaxEpoch
Minters  == Nodes \cup {First}

Masters  == [version : Versions, by : Minters]
NoMaster == [version |-> 0, by |-> First]
Wrappers == [master : Masters, epoch : Epochs]

NoOp   == [kind |-> "idle", master |-> NoMaster, epoch |-> 0, keys |-> {}]
NoMint == [key |-> "none", master |-> NoMaster]

Retired  == [version |-> 0, by |-> "retired"]    \* a tier-3 row no one opens any more

(* The openable tier-3 rows, active or retiring. *)
Present == {k \in Keys : tier3[k] \notin {NoMaster, Retired}}

Only(w)     == wrappers = {w}                               \* one active wrapper
Dual(o, n)  == wrappers = {o, n} /\ o.epoch < n.epoch       \* dual-wrapped

(* masterSet.at: unwrapTier3 needs the very key the row is wrapped under. *)
Unwraps(n) == \A k \in Present : tier3[k] \in held[n].keys

Holds(n, v) == \E mk \in held[n].keys : mk.version = v

-----------------------------------------------------------------------------
Init ==
  LET m1 == [version |-> 1, by |-> First]
  IN /\ wrappers = {[master |-> m1, epoch |-> 1]}
     /\ tier3 \in [Keys -> {NoMaster, m1}]
     /\ installed = 1
     /\ held = [n \in Nodes |-> [active |-> m1, keys |-> {m1}]]
     /\ up = [n \in Nodes |-> TRUE]
     /\ op = [n \in Nodes |-> NoOp]
     /\ mint = [n \in Nodes |-> NoMint]

-----------------------------------------------------------------------------
\* Mutation: the new master is not resolvable before it is active.
MasterPrepareUnresolved(n) ==
  \E w \in wrappers :
    LET new == [version |-> w.master.version + 1, by |-> n]
    IN /\ up[n] /\ op[n] = NoOp
       /\ Only(w) /\ w.epoch = installed
       /\ Unwraps(n)
       /\ new.version <= MaxVersion
       /\ op' = [op EXCEPT ![n] = [kind |-> "master", master |-> new,
                                   epoch |-> w.epoch, keys |-> Present]]
       /\ UNCHANGED <<wrappers, tier3, installed, held, up, mint>>

(* PrepareMasterKeyRotation: one wrapper, opened with the re-read root;    *)
(* every openable key is re-wrapped; addMaster makes the new key resolvable.*)
MasterPrepare(n) ==
  \E w \in wrappers :
    LET new == [version |-> w.master.version + 1, by |-> n]
    IN /\ up[n] /\ op[n] = NoOp
       /\ Only(w) /\ w.epoch = installed
       /\ Unwraps(n)
       /\ new.version <= MaxVersion
       /\ op' = [op EXCEPT ![n] = [kind |-> "master", master |-> new,
                                   epoch |-> w.epoch, keys |-> Present]]
       /\ held' = [held EXCEPT ![n].keys = IF Holds(n, new.version) THEN @ ELSE @ \cup {new}]
       /\ UNCHANGED <<wrappers, tier3, installed, up, mint>>

(* removeMaster: what abort() leaves of the held set. *)
Aborted(n) ==
  IF held[n].active.version = op[n].master.version THEN held[n]
  ELSE [held[n] EXCEPT !.keys = {mk \in @ : mk.version # op[n].master.version}]

\* Mutation: no zero-reference check over the tier-3 keys.
MasterAcceptedUncounted(n) ==
  \E w \in wrappers : Only(w) /\ op[n].master.version = w.master.version + 1

(* rotateMasterKey's checks inside the hierarchy fence.  Rows are never    *)
(* deleted, and one that was retired meanwhile is re-wrapped for nothing.  *)
MasterAccepted(n) ==
  /\ \E w \in wrappers : Only(w) /\ op[n].master.version = w.master.version + 1
  /\ Present \subseteq op[n].keys   \* none stranded under the old master

MasterCommit(n) ==
  /\ up[n] /\ op[n].kind = "master"
  /\ MasterAccepted(n)
  /\ wrappers' = {[master |-> op[n].master, epoch |-> op[n].epoch]}
  /\ tier3' = [k \in Keys |-> IF k \in op[n].keys \cap Present THEN op[n].master ELSE tier3[k]]
  /\ \/ op' = [op EXCEPT ![n].kind = "adopt"] /\ UNCHANGED held
     \/ /\ LostAcks
        /\ op' = [op EXCEPT ![n] = NoOp]
        /\ held' = [held EXCEPT ![n] = Aborted(n)]
  /\ UNCHANGED <<installed, up, mint>>

MasterRefused(n) ==
  /\ up[n] /\ op[n].kind = "master"
  /\ ~MasterAccepted(n)
  /\ op' = [op EXCEPT ![n] = NoOp]
  /\ held' = [held EXCEPT ![n] = Aborted(n)]
  /\ UNCHANGED <<wrappers, tier3, installed, up, mint>>

(* activateMaster, monotonic. *)
MasterAdopt(n) ==
  /\ up[n] /\ op[n].kind = "adopt"
  /\ held' = [held EXCEPT ![n].active = IF op[n].master.version > @.version
                                        THEN op[n].master ELSE @]
  /\ op' = [op EXCEPT ![n] = NoOp]
  /\ UNCHANGED <<wrappers, tier3, installed, up, mint>>

-----------------------------------------------------------------------------
Alone(n) == \A m \in Nodes \ {n} : ~up[m]

\* Mutation: the new wrapper skips an epoch.
RootPrepareSkip(n) ==
  \E w \in wrappers :
    /\ up[n] /\ op[n] = NoOp
    /\ FullStop => Alone(n)
    /\ Only(w) /\ held[n].active.version = w.master.version
    /\ w.epoch < MaxEpoch
    /\ op' = [op EXCEPT ![n] = [kind |-> "root", master |-> held[n].active,
                                epoch |-> w.epoch + MaxEpoch, keys |-> {}]]
    /\ UNCHANGED <<wrappers, tier3, installed, held, up, mint>>

(* PrepareRootKeyRotation: the node's active master under the next epoch. *)
RootPrepare(n) ==
  \E w \in wrappers :
    /\ up[n] /\ op[n] = NoOp
    /\ FullStop => Alone(n)
    /\ Only(w) /\ held[n].active.version = w.master.version
    /\ w.epoch < MaxEpoch
    /\ op' = [op EXCEPT ![n] = [kind |-> "root", master |-> held[n].active,
                                epoch |-> w.epoch + 1, keys |-> {}]]
    /\ UNCHANGED <<wrappers, tier3, installed, held, up, mint>>

(* rootKeyRotatePrepare's check inside the fence. *)
RootAccepted(n) ==
  \E w \in wrappers : /\ Only(w)
                      /\ w.master.version = op[n].master.version
                      /\ w.epoch + 1 = op[n].epoch

RootPrepareCommit(n) ==
  /\ up[n] /\ op[n].kind = "root"
  /\ wrappers' = IF RootAccepted(n)
                 THEN wrappers \cup {[master |-> op[n].master, epoch |-> op[n].epoch]}
                 ELSE wrappers
  /\ op' = [op EXCEPT ![n] = NoOp]
  /\ UNCHANGED <<tier3, installed, held, up, mint>>

(* The operator puts the prepared root at the primary source. *)
InstallRoot ==
  \E o, w \in wrappers :
    /\ Dual(o, w)
    /\ installed' = w.epoch
    /\ UNCHANGED <<wrappers, tier3, held, up, op, mint>>

\* Mutation: finalize does not check which root is installed.
VerifiedAnyRoot(n) ==
  \E o, w \in wrappers : Dual(o, w) /\ w.master = held[n].active

(* VerifyRootKeyRotation, which finalize repeats: the primary root opens   *)
(* the newest wrapper, to the master this process has active.              *)
Verified(n) ==
  \E o, w \in wrappers : Dual(o, w) /\ installed = w.epoch /\ w.master = held[n].active

FinalizeVerify(n) ==
  /\ up[n] /\ op[n] = NoOp
  /\ FullStop => Alone(n)
  /\ Verified(n)
  /\ op' = [op EXCEPT ![n] = [NoOp EXCEPT !.kind = "finalize"]]
  /\ UNCHANGED <<wrappers, tier3, installed, held, up, mint>>

(* rootKeyRotateFinalize: with two wrappers the older epoch is retired.    *)
(* It may also be refused while a configuration rollout is open.           *)
FinalizeCommit(n) ==
  /\ up[n] /\ op[n].kind = "finalize"
  /\ \/ \E o, w \in wrappers : Dual(o, w) /\ wrappers' = {w}
     \/ UNCHANGED wrappers
  /\ op' = [op EXCEPT ![n] = NoOp]
  /\ UNCHANGED <<tier3, installed, held, up, mint>>

-----------------------------------------------------------------------------
(* mintTier3At: a new key is sealed under the node's active master. *)
MintSeal(n, k) ==
  /\ up[n] /\ mint[n] = NoMint
  /\ tier3[k] = NoMaster
  /\ mint' = [mint EXCEPT ![n] = [key |-> k, master |-> held[n].active]]
  /\ UNCHANGED <<wrappers, tier3, installed, held, up, op>>

(* CreateTier3 / rotateDEK / insertInitialProjectDEK: assertActiveMaster   *)
(* inside the fence, and the key must not exist.                           *)
MintAccepted(n) ==
  /\ \A w \in wrappers : w.master.version = mint[n].master.version
  /\ tier3[mint[n].key] = NoMaster

MintCommit(n) ==
  /\ up[n] /\ mint[n] # NoMint
  /\ tier3' = IF MintAccepted(n) THEN [tier3 EXCEPT ![mint[n].key] = mint[n].master] ELSE tier3
  /\ mint' = [mint EXCEPT ![n] = NoMint]
  /\ UNCHANGED <<wrappers, installed, held, up, op>>

(* retireRetiringTier3: no ciphertext refers to the row any more.          *)
RetireKey(k) ==
  /\ k \in Present
  /\ tier3' = [tier3 EXCEPT ![k] = Retired]
  /\ UNCHANGED <<wrappers, installed, held, up, op, mint>>

-----------------------------------------------------------------------------
Crash(n) ==
  /\ up[n]
  /\ up' = [up EXCEPT ![n] = FALSE]
  /\ op' = [op EXCEPT ![n] = NoOp]
  /\ mint' = [mint EXCEPT ![n] = NoMint]
  /\ UNCHANGED <<wrappers, tier3, installed, held>>

RootRotating == \/ \E o, w \in wrappers : Dual(o, w)
                \/ \E m \in Nodes : op[m].kind \in {"root", "finalize"}

(* LoadKeyring: any wrapper the installed root opens gives the master. *)
Boot(n) ==
  \E w \in wrappers :
    /\ ~up[n]
    /\ FullStop /\ RootRotating => Alone(n)
    /\ w.epoch = installed
    /\ held' = [held EXCEPT ![n] = [active |-> w.master, keys |-> {w.master}]]
    /\ up' = [up EXCEPT ![n] = TRUE]
    /\ UNCHANGED <<wrappers, tier3, installed, op, mint>>

NodeStep(n) ==
  \/ MasterPrepare(n) \/ MasterCommit(n) \/ MasterRefused(n) \/ MasterAdopt(n)
  \/ RootPrepare(n) \/ RootPrepareCommit(n) \/ FinalizeVerify(n) \/ FinalizeCommit(n)
  \/ (\E k \in Keys : MintSeal(n, k)) \/ MintCommit(n)
  \/ Crash(n) \/ Boot(n)

Next == (\E n \in Nodes : NodeStep(n)) \/ InstallRoot \/ (\E k \in Keys : RetireKey(k))

Spec == Init /\ [][Next]_vars

\* A committed rotation goes on to adopt; a process that is down is started.
FairSpec == Spec /\ \A n \in Nodes : WF_vars(MasterAdopt(n)) /\ WF_vars(Boot(n))

-----------------------------------------------------------------------------
TypeOK ==
  /\ wrappers \subseteq Wrappers
  /\ tier3 \in [Keys -> Masters \cup {NoMaster, Retired}]
  /\ installed \in Epochs
  /\ held \in [Nodes -> [active : Masters, keys : SUBSET Masters]]
  /\ up \in [Nodes -> BOOLEAN]
  /\ op \in [Nodes -> [kind : {"idle", "master", "adopt", "root", "finalize"},
                       master : Masters \cup {NoMaster}, epoch : 0..MaxEpoch, keys : SUBSET Keys]]
  /\ mint \in [Nodes -> [key : Keys \cup {"none"}, master : Masters \cup {NoMaster}]]

(* Master rotation completeness and "either root boots": every active      *)
(* wrapper, under the old root and the new one alike, holds the very       *)
(* master that every openable tier-3 key is wrapped under, whatever keys   *)
(* are created or retired and rotations race on other processes.           *)
MasterCovers == \A w \in wrappers : \A k \in Present : tier3[k] = w.master

(* Crash-safe root rotation: the root at the primary source always opens   *)
(* an active wrapper, so a crash at any point leaves a bootable instance.  *)
InstalledRootBoots == \E w \in wrappers : w.epoch = installed

(* A running process can unwrap every tier-3 key the store holds, also     *)
(* between the commit of a master rotation and its adoption, and after a   *)
(* rotation that failed.                                                   *)
NodeUnwraps == \A n \in Nodes : up[n] => Unwraps(n)

(* Between the commit of a master rotation and its adoption in memory      *)
(* every tier-3 row is already under the new master: unless another        *)
(* process has rotated again, the process that committed can unwrap them,  *)
(* so no read fails in that window.                                        *)
AdoptingUnwraps ==
  \A n \in Nodes :
    up[n] /\ op[n].kind = "adopt" /\ (\E w \in wrappers : w.master = op[n].master) => Unwraps(n)

(* A process left behind by a master rotation on another one gets to       *)
(* unwrap tier-3 keys again.                                               *)
UnwrapsAgain == \A n \in Nodes : (up[n] /\ ~Unwraps(n)) ~> Unwraps(n)
=============================================================================
