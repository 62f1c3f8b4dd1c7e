-------------------------- MODULE KeyHierarchyProofs --------------------------
(***************************************************************************)
(* Proofs about KeyHierarchy for any processes, keys, versions and epochs, *)
(* with lost answers: completeness of master rotation, and, with the root  *)
(* rotated under a full stop, that the installed root always boots.        *)
(***************************************************************************)
EXTENDS KeyHierarchy, TLAPS

\* Whatever is in flight past its preparation is a real master.
InFlight ==
  \A n \in Nodes :
    /\ op[n].kind \in {"master", "adopt", "root"} => op[n].master \in Masters /\ op[n].epoch \in Epochs
    /\ mint[n] # NoMint => mint[n].key \in Keys /\ mint[n].master \in Masters

\* A master that never gets ahead of the store's and, at its version, is it.
Known(mk) ==
  \A w \in wrappers : /\ mk.version <= w.master.version
                      /\ mk.version = w.master.version => mk = w.master

OneMaster == \A w \in wrappers : Known(w.master)

MastersKnown ==
  \A n \in Nodes : /\ Known(held[n].active)
                   /\ op[n].kind \in {"adopt", "root"} => Known(op[n].master)
                   /\ mint[n] # NoMint => Known(mint[n].master)

IInv == TypeOK /\ InFlight /\ OneMaster /\ MastersKnown /\ MasterCovers

LEMMA InitIInv == Init => IInv
<1> SUFFICES ASSUME Init PROVE IInv
  OBVIOUS
<1> USE KeyHierarchyAssumption
<1> DEFINE m1 == [version |-> 1, by |-> First]
<1>1. m1 \in Masters /\ 1 \in Epochs /\ [master |-> m1, epoch |-> 1] \in Wrappers
  BY DEF Masters, Wrappers, Versions, Minters, Epochs
<1>2. /\ wrappers = {[master |-> m1, epoch |-> 1]}
      /\ tier3 \in [Keys -> {NoMaster, m1}]
      /\ \A n \in Nodes : held[n].active = m1 /\ op[n] = NoOp /\ mint[n] = NoMint
  BY DEF Init
<1>3. TypeOK
  BY <1>1 DEF Init, TypeOK, NoOp, NoMint
<1>4. InFlight
  <2>0. NoOp.kind = "idle"
    BY DEF NoOp
  <2>1. \A n \in Nodes : op[n].kind = "idle"
    BY <1>2, <2>0
  <2> QED BY <1>2, <2>1 DEF InFlight
<1>5. OneMaster /\ MastersKnown
  BY <1>2 DEF OneMaster, MastersKnown, Known, NoOp
<1>6. MasterCovers
  BY <1>2 DEF MasterCovers, Present
<1> QED BY <1>3, <1>4, <1>5, <1>6 DEF IInv

(* A step whose wrappers hold masters that were wrapped before keeps what  *)
(* is known.                                                               *)
LEMMA KnownKept ==
  ASSUME \A x \in wrappers' : \E w \in wrappers : x.master = w.master
  PROVE  /\ \A mk : Known(mk) => Known(mk)'
         /\ OneMaster => OneMaster'
BY DEF Known, OneMaster

(* A step that rewraps no tier-3 key keeps the invariant when the masters  *)
(* it wraps, holds, starts with or seals under are known.                  *)
LEMMA LocalStep ==
  ASSUME IInv, TypeOK', UNCHANGED tier3,
         \A x \in wrappers' : \E w \in wrappers : x.master = w.master,
         NEW n \in Nodes,
         \A m \in Nodes \ {n} : held'[m] = held[m] /\ op'[m] = op[m] /\ mint'[m] = mint[m],
         Known(held'[n].active),
         \/ op'[n] = op[n]
         \/ op'[n].kind \notin {"master", "adopt", "root"}
         \/ op'[n].master \in Masters /\ op'[n].epoch \in Epochs /\ op'[n].kind = "master"
         \/ op'[n].master \in Masters /\ op'[n].epoch \in Epochs /\ Known(op'[n].master),
         \/ mint'[n] \in {mint[n], NoMint}
         \/ mint'[n].key \in Keys /\ mint'[n].master \in Masters /\ Known(mint'[n].master)
  PROVE  IInv'
<1>1. InFlight'
  BY DEF IInv, InFlight
<1>2. MastersKnown'
  BY KnownKept DEF IInv, MastersKnown
<1>3. MasterCovers'
  BY DEF IInv, MasterCovers, Present
<1> QED BY <1>1, <1>2, <1>3, KnownKept DEF IInv

LEMMA NodeStepIInv ==
  ASSUME IInv, NEW n \in Nodes, NodeStep(n)
  PROVE  IInv'
<1> USE KeyHierarchyAssumption
<1>0. /\ held[n].active \in Masters /\ held[n].keys \subseteq Masters /\ Known(held[n].active)
      /\ wrappers \subseteq Wrappers
      /\ \A w \in wrappers : w.master \in Masters /\ w.epoch \in Epochs /\ Known(w.master)
  BY DEF IInv, TypeOK, MastersKnown, OneMaster, Wrappers
<1>1. CASE MasterPrepare(n)
  <2>1. PICK w \in wrappers : MasterPrepare(n)!(w)
    BY <1>1 DEF MasterPrepare
  <2> DEFINE new == [version |-> w.master.version + 1, by |-> n]
  <2>2. new \in Masters /\ Present \subseteq Keys
    BY <1>0, <2>1 DEF Masters, Versions, Minters, Present
  <2>3. held'[n].active = held[n].active /\ held'[n] \in [active : Masters, keys : SUBSET Masters]
    BY <1>0, <2>1, <2>2 DEF IInv, TypeOK
  <2>4. TypeOK'
    BY <1>0, <2>1, <2>2, <2>3 DEF IInv, TypeOK, Epochs
  <2>5. op'[n] = [kind |-> "master", master |-> new, epoch |-> w.epoch, keys |-> Present]
    BY <2>1 DEF IInv, TypeOK
  <2> QED BY <1>0, <2>1, <2>2, <2>3, <2>4, <2>5, LocalStep DEF IInv, TypeOK
<1>2. CASE MasterCommit(n)
  <2>0. PICK M \in Masters : M = op[n].master
    BY <1>2 DEF MasterCommit, IInv, InFlight
  <2>1. PICK w \in wrappers : Only(w) /\ M.version = w.master.version + 1
    BY <1>2, <2>0 DEF MasterCommit, MasterAccepted
  <2>2. M \in Masters /\ op[n].epoch \in Epochs /\ Present \subseteq op[n].keys
    BY <1>2 DEF MasterCommit, MasterAccepted, IInv, InFlight
  <2>3. wrappers' = {[master |-> M, epoch |-> op[n].epoch]}
    BY <1>2, <2>0 DEF MasterCommit
  <2>4. /\ tier3' = [k \in Keys |-> IF k \in Present THEN M ELSE tier3[k]]
        /\ mint' = mint
        /\ held'[n].active = held[n].active
        /\ held'[n] \in [active : Masters, keys : SUBSET Masters]
        /\ held' = [held EXCEPT ![n] = held'[n]]
        /\ op' = [op EXCEPT ![n].kind = "adopt"] \/ op' = [op EXCEPT ![n] = NoOp]
    <3>1. CASE op' = [op EXCEPT ![n].kind = "adopt"] /\ UNCHANGED held
      BY <1>2, <2>0, <2>2, <3>1 DEF MasterCommit, IInv, TypeOK
    <3>2. CASE op' = [op EXCEPT ![n] = NoOp] /\ held' = [held EXCEPT ![n] = Aborted(n)]
      <4>1. /\ Aborted(n).active = held[n].active
            /\ Aborted(n) \in [active : Masters, keys : SUBSET Masters]
        BY <1>0 DEF Aborted, IInv, TypeOK
      <4> QED BY <1>2, <2>0, <2>2, <3>2, <4>1 DEF MasterCommit, IInv, TypeOK
    <3> QED BY <1>2, <3>1, <3>2 DEF MasterCommit
  <2>5. ASSUME NEW mk \in Masters, Known(mk) PROVE Known(mk)'
    BY <1>0, <2>1, <2>2, <2>3, <2>5 DEF Known, Masters, Versions, Only
  <2>6. Known(M)' /\ OneMaster'
    BY <2>2, <2>3 DEF Known, OneMaster, Masters, Versions
  <2>7. TypeOK'
    <3>1. held' \in [Nodes -> [active : Masters, keys : SUBSET Masters]]
      BY <2>4 DEF IInv, TypeOK
    <3>2. wrappers' \subseteq Wrappers /\ tier3' \in [Keys -> Masters \cup {NoMaster, Retired}]
      BY <2>2, <2>3, <2>4 DEF Wrappers, IInv, TypeOK
    <3>3. op' \in [Nodes -> [kind : {"idle", "master", "adopt", "root", "finalize"},
                             master : Masters \cup {NoMaster}, epoch : 0..MaxEpoch, keys : SUBSET Keys]]
      <4>1. NoOp \in [kind : {"idle", "master", "adopt", "root", "finalize"},
                      master : Masters \cup {NoMaster}, epoch : 0..MaxEpoch, keys : SUBSET Keys]
        BY DEF NoOp
      <4>2. CASE op' = [op EXCEPT ![n].kind = "adopt"]
        <5>1. op[n] \in [kind : {"idle", "master", "adopt", "root", "finalize"},
                         master : Masters \cup {NoMaster}, epoch : 0..MaxEpoch, keys : SUBSET Keys]
          BY DEF IInv, TypeOK
        <5>2. [op[n] EXCEPT !.kind = "adopt"]
                \in [kind : {"idle", "master", "adopt", "root", "finalize"},
                    master : Masters \cup {NoMaster}, epoch : 0..MaxEpoch, keys : SUBSET Keys]
          BY <5>1
        <5>3. op' = [op EXCEPT ![n] = [op[n] EXCEPT !.kind = "adopt"]]
          BY <4>2 DEF IInv, TypeOK
        <5> QED BY <5>2, <5>3 DEF IInv, TypeOK
      <4>3. CASE op' = [op EXCEPT ![n] = NoOp]
        BY <4>1, <4>3 DEF IInv, TypeOK
      <4> QED BY <2>4, <4>2, <4>3
    <3> QED BY <1>2, <3>1, <3>2, <3>3 DEF MasterCommit, IInv, TypeOK
  <2>8. InFlight'
    <3>1. NoOp.kind = "idle"
      BY DEF NoOp
    <3>2. \A m \in Nodes : \/ op'[m] = op[m]
                           \/ op'[m].kind = "idle"
                           \/ op'[m].master = M /\ op'[m].epoch = op[n].epoch
      BY <2>0, <2>4, <3>1 DEF IInv, TypeOK
    <3> QED BY <2>2, <2>4, <3>2 DEF IInv, InFlight
  <2>9. MastersKnown'
    <3> SUFFICES ASSUME NEW m \in Nodes
                 PROVE  /\ Known(held[m].active)'
                        /\ op'[m].kind \in {"adopt", "root"} => Known(op[m].master)'
                        /\ mint'[m] # NoMint => Known(mint[m].master)'
      BY DEF MastersKnown
    <3>1. held[m].active \in Masters /\ held'[m].active = held[m].active /\ Known(held[m].active)
      BY <2>4 DEF IInv, TypeOK, MastersKnown
    <3>2. mint'[m] # NoMint => mint[m].master \in Masters /\ Known(mint[m].master)
      BY <2>4 DEF IInv, MastersKnown, InFlight
    <3>3. op'[m] = op[m] \/ op'[m].master = M \/ op'[m].kind = "idle"
      BY <2>0, <2>4 DEF IInv, TypeOK, NoOp
    <3>4. op[m].kind \in {"adopt", "root"} => op[m].master \in Masters /\ Known(op[m].master)
      BY DEF IInv, InFlight, MastersKnown
    <3>5. op'[m].kind \in {"adopt", "root"} => Known(op[m].master)'
      BY <2>5, <2>6, <3>3, <3>4 DEF Known
    <3> QED BY <2>4, <2>5, <3>1, <3>2, <3>5 DEF Known
  <2>10. MasterCovers'
    BY <2>3, <2>4 DEF MasterCovers, Present
  <2> QED BY <2>6, <2>7, <2>8, <2>9, <2>10 DEF IInv
<1>3. CASE MasterRefused(n)
  <2>1. Aborted(n).active = held[n].active /\ Aborted(n) \in [active : Masters, keys : SUBSET Masters]
    BY <1>0 DEF Aborted, IInv, TypeOK
  <2>2. TypeOK'
    BY <1>3, <2>1 DEF MasterRefused, IInv, TypeOK, NoOp
  <2>3. op'[n].kind = "idle" /\ held'[n].active = held[n].active
    BY <1>3, <2>1 DEF MasterRefused, IInv, TypeOK, NoOp
  <2> QED BY <1>0, <1>3, <2>2, <2>3, LocalStep DEF MasterRefused, IInv, TypeOK
<1>4. CASE MasterAdopt(n)
  <2>1. op[n].master \in Masters /\ Known(op[n].master)
    BY <1>4 DEF MasterAdopt, IInv, InFlight, MastersKnown
  <2>2. held'[n].active \in {held[n].active, op[n].master} /\ held'[n].keys = held[n].keys
    BY <1>4 DEF MasterAdopt, IInv, TypeOK
  <2>3. TypeOK'
    <3>1. held' \in [Nodes -> [active : Masters, keys : SUBSET Masters]]
      <4>1. held'[n] \in [active : Masters, keys : SUBSET Masters]
        BY <1>0, <1>4, <2>1, <2>2 DEF MasterAdopt, IInv, TypeOK
      <4>2. held' = [held EXCEPT ![n] = held'[n]]
        BY <1>4 DEF MasterAdopt, IInv, TypeOK
      <4> QED BY <4>1, <4>2 DEF IInv, TypeOK
    <3> QED BY <1>4, <3>1 DEF MasterAdopt, IInv, TypeOK, NoOp
  <2>4. op'[n].kind = "idle"
    BY <1>4 DEF MasterAdopt, IInv, TypeOK, NoOp
  <2> QED BY <1>0, <1>4, <2>1, <2>2, <2>3, <2>4, LocalStep DEF MasterAdopt, IInv, TypeOK
<1>5. CASE RootPrepare(n)
  <2>1. PICK w \in wrappers : RootPrepare(n)!(w)
    BY <1>5 DEF RootPrepare
  <2>2. w.epoch + 1 \in Epochs
    BY <1>0, <2>1 DEF Epochs
  <2>3. op'[n] = [kind |-> "root", master |-> held[n].active, epoch |-> w.epoch + 1, keys |-> {}]
    BY <2>1 DEF IInv, TypeOK
  <2>4. TypeOK'
    BY <1>0, <2>1, <2>2 DEF IInv, TypeOK, Epochs
  <2> QED BY <1>0, <2>1, <2>2, <2>3, <2>4, LocalStep DEF IInv, TypeOK
<1>6. CASE RootPrepareCommit(n)
  <2>1. op[n].master \in Masters /\ op[n].epoch \in Epochs /\ Known(op[n].master)
    BY <1>6 DEF RootPrepareCommit, IInv, InFlight, MastersKnown
  <2>2. \A x \in wrappers' : x \in Wrappers /\ \E w \in wrappers : x.master = w.master
    BY <1>0, <1>6, <2>1 DEF RootPrepareCommit, RootAccepted, Only, Known, Wrappers
  <2>3. TypeOK'
    BY <1>6, <2>2 DEF RootPrepareCommit, IInv, TypeOK, NoOp
  <2>4. op'[n].kind = "idle"
    BY <1>6 DEF RootPrepareCommit, IInv, TypeOK, NoOp
  <2> QED BY <1>0, <1>6, <2>2, <2>3, <2>4, LocalStep DEF RootPrepareCommit, IInv, TypeOK
<1>7. CASE FinalizeVerify(n)
  <2>1. TypeOK'
    BY <1>7 DEF FinalizeVerify, IInv, TypeOK, NoOp
  <2>2. op'[n].kind = "finalize"
    BY <1>7 DEF FinalizeVerify, IInv, TypeOK, NoOp
  <2> QED BY <1>0, <1>7, <2>1, <2>2, LocalStep DEF FinalizeVerify, IInv, TypeOK
<1>8. CASE FinalizeCommit(n)
  <2>1. wrappers' \subseteq wrappers
    BY <1>8 DEF FinalizeCommit
  <2>2. TypeOK'
    BY <1>8, <2>1 DEF FinalizeCommit, IInv, TypeOK, NoOp
  <2>3. op'[n].kind = "idle"
    BY <1>8 DEF FinalizeCommit, IInv, TypeOK, NoOp
  <2> QED BY <1>0, <1>8, <2>1, <2>2, <2>3, LocalStep DEF FinalizeCommit, IInv, TypeOK
<1>9. ASSUME NEW k \in Keys, MintSeal(n, k) PROVE IInv'
  <2>1. mint'[n] = [key |-> k, master |-> held[n].active]
    BY <1>9 DEF MintSeal, IInv, TypeOK
  <2>2. TypeOK'
    BY <1>0, <1>9 DEF MintSeal, IInv, TypeOK
  <2> QED BY <1>0, <1>9, <2>1, <2>2, LocalStep DEF MintSeal, IInv, TypeOK
<1>10. CASE MintCommit(n)
  <2>1. mint[n].key \in Keys /\ mint[n].master \in Masters /\ Known(mint[n].master)
    BY <1>10 DEF MintCommit, IInv, InFlight, MastersKnown
  <2>2. TypeOK'
    BY <1>10, <2>1 DEF MintCommit, IInv, TypeOK, NoMint
  <2>3. InFlight'
    BY <1>10 DEF MintCommit, IInv, TypeOK, InFlight
  <2>4. MastersKnown' /\ OneMaster'
    BY <1>10 DEF MintCommit, IInv, TypeOK, MastersKnown, Known, OneMaster
  <2>5. MasterCovers'
    BY <1>10, <2>1 DEF MintCommit, MintAccepted, IInv, TypeOK, MasterCovers, Present, Known
  <2> QED BY <2>2, <2>3, <2>4, <2>5 DEF IInv
<1>11. CASE Crash(n)
  <2>1. TypeOK'
    BY <1>11 DEF Crash, IInv, TypeOK, NoOp, NoMint
  <2>2. op'[n].kind = "idle" /\ mint'[n] = NoMint
    BY <1>11 DEF Crash, IInv, TypeOK, NoOp
  <2> QED BY <1>0, <1>11, <2>1, <2>2, LocalStep DEF Crash, IInv, TypeOK
<1>12. CASE Boot(n)
  <2>1. PICK w \in wrappers : Boot(n)!(w)
    BY <1>12 DEF Boot
  <2>2. TypeOK'
    BY <1>0, <2>1 DEF IInv, TypeOK
  <2>3. held'[n].active = w.master
    BY <2>1 DEF IInv, TypeOK
  <2> QED BY <1>0, <2>1, <2>2, <2>3, LocalStep DEF IInv, TypeOK
<1> QED BY <1>1, <1>2, <1>3, <1>4, <1>5, <1>6, <1>7, <1>8, <1>9, <1>10, <1>11, <1>12 DEF NodeStep

LEMMA StepIInv == IInv /\ [Next]_vars => IInv'
<1> SUFFICES ASSUME IInv, [Next]_vars PROVE IInv'
  OBVIOUS
<1>1. CASE InstallRoot
  <2>1. installed' \in Epochs
    BY <1>1 DEF InstallRoot, IInv, TypeOK, Wrappers
  <2>2. UNCHANGED <<wrappers, tier3, held, up, op, mint>>
    BY <1>1 DEF InstallRoot
  <2> QED BY <2>1, <2>2 DEF IInv, TypeOK, InFlight, OneMaster, MastersKnown, Known, MasterCovers, Present
<1>2. ASSUME NEW k \in Keys, RetireKey(k) PROVE IInv'
  <2>1. tier3' \in [Keys -> Masters \cup {NoMaster, Retired}] /\ MasterCovers'
    BY <1>2 DEF RetireKey, IInv, TypeOK, MasterCovers, Present
  <2> QED BY <1>2, <2>1 DEF RetireKey, IInv, TypeOK, InFlight, OneMaster, MastersKnown, Known
<1>3. CASE UNCHANGED vars
  BY <1>3 DEF vars, IInv, TypeOK, InFlight, OneMaster, MastersKnown, Known, MasterCovers, Present
<1> QED BY <1>1, <1>2, <1>3, NodeStepIInv DEF Next

LEMMA IInvAlways == Spec => []IInv
BY InitIInv, StepIInv, PTL DEF Spec

(* Type correctness of wrappers, held masters and rotations in flight.     *)
THEOREM HierarchyTypes == Spec => []TypeOK
<1>1. IInv => TypeOK
  BY DEF IInv
<1> QED BY <1>1, IInvAlways, PTL

(* Master rotation is complete whatever races it: the zero-reference check *)
(* and assertActiveMaster leave no openable key under another master.      *)
THEOREM MasterRotationComplete == Spec => []MasterCovers
<1>1. IInv => MasterCovers
  BY DEF IInv
<1> QED BY <1>1, IInvAlways, PTL

-----------------------------------------------------------------------------
\* Only a running process has a rotation in flight.
OpsUp == \A n \in Nodes : op[n].kind # "idle" => up[n]

\* The full stop: one process while the root is being rotated.
StoppedForRoot == RootRotating => \A n, m \in Nodes : up[n] /\ up[m] => n = m

\* One wrapper under the installed root, or two of which one is.
WrapperShape ==
  \/ \E w \in wrappers : Only(w) /\ w.epoch = installed
  \/ \E o, w \in wrappers : Dual(o, w) /\ installed \in {o.epoch, w.epoch}

\* A prepared master rotation keeps the root it was prepared under, and a
\* verified finalization keeps the newer root installed.
PreparedUnderRoot ==
  \A n \in Nodes :
    /\ op[n].kind = "master" => op[n].epoch = installed /\ \E w \in wrappers : Only(w)
    /\ op[n].kind = "finalize" => \A o, w \in wrappers : Dual(o, w) => installed = w.epoch

RInv == IInv /\ OpsUp /\ StoppedForRoot /\ WrapperShape /\ PreparedUnderRoot

LEMMA InitRInv == Init => RInv
<1> SUFFICES ASSUME Init PROVE RInv
  OBVIOUS
<1>1. \A n \in Nodes : op[n].kind = "idle"
  BY DEF Init, NoOp
<1>2. wrappers = {[master |-> [version |-> 1, by |-> First], epoch |-> 1]} /\ installed = 1
  BY DEF Init
<1>3. ~RootRotating
  BY <1>1, <1>2 DEF RootRotating, Dual
<1> QED BY <1>1, <1>2, <1>3, InitIInv DEF RInv, OpsUp, StoppedForRoot, WrapperShape, Only, PreparedUnderRoot

LEMMA DualFacts ==
  ASSUME IInv
  PROVE  /\ \A w, o, x \in wrappers : Only(w) => ~Dual(o, x)
         /\ \A o, w, o2, w2 \in wrappers : Dual(o, w) /\ Dual(o2, w2) => o = o2 /\ w = w2
<1>1. \A w \in wrappers : w.epoch \in Int
  BY DEF IInv, TypeOK, Wrappers, Epochs
<1> QED BY <1>1 DEF Only, Dual

LEMMA OthersIdle ==
  ASSUME RInv, RootRotating, NEW n \in Nodes, up[n]
  PROVE  \A m \in Nodes \ {n} : op[m].kind = "idle" /\ ~up[m]
BY DEF RInv, StoppedForRoot, OpsUp

(* A step that touches neither the wrappers nor the installed root, starts *)
(* no rotation and no process keeps the invariant.                         *)
LEMMA QuietStep ==
  ASSUME RInv, IInv', UNCHANGED <<wrappers, installed>>,
         \A m \in Nodes : \/ op'[m] = op[m] /\ up'[m] = up[m]
                          \/ op'[m].kind = "idle" /\ (up'[m] => up[m])
                          \/ op'[m].kind = "adopt" /\ up'[m] /\ up[m]
  PROVE  RInv'
<1>1. RootRotating' => RootRotating
  BY DEF RootRotating, Dual
<1>2. OpsUp' /\ StoppedForRoot'
  BY <1>1 DEF RInv, OpsUp, StoppedForRoot
<1>3. WrapperShape'
  BY DEF RInv, WrapperShape, Only, Dual
<1>4. PreparedUnderRoot'
  BY DEF RInv, PreparedUnderRoot, Only, Dual
<1> QED BY <1>2, <1>3, <1>4 DEF RInv

LEMMA NodeStepRInv ==
  ASSUME FullStop, RInv, NEW n \in Nodes, NodeStep(n), IInv'
  PROVE  RInv'
<1>0. NoOp.kind = "idle" /\ TypeOK
  BY DEF NoOp, RInv, IInv
<1>1. CASE MasterPrepare(n)
  <2>1. PICK w \in wrappers : MasterPrepare(n)!(w)
    BY <1>1 DEF MasterPrepare
  <2>2. op'[n].kind = "master" /\ op'[n].epoch = installed /\ up[n]
    BY <1>0, <2>1 DEF TypeOK
  <2>3. /\ \A m \in Nodes \ {n} : op'[m] = op[m]
        /\ UNCHANGED <<wrappers, installed, up>>
    BY <1>0, <2>1 DEF TypeOK
  <2>4. RootRotating' => RootRotating
    BY <2>2, <2>3 DEF RootRotating, Dual
  <2>5. OpsUp' /\ StoppedForRoot'
    BY <2>2, <2>3, <2>4 DEF RInv, OpsUp, StoppedForRoot
  <2>6. WrapperShape'
    BY <2>3 DEF RInv, WrapperShape, Only, Dual
  <2>7. PreparedUnderRoot'
    BY <2>1, <2>2, <2>3 DEF RInv, PreparedUnderRoot, Only, Dual
  <2> QED BY <2>5, <2>6, <2>7 DEF RInv
<1>2. CASE MasterCommit(n)
  <2> DEFINE x == [master |-> op[n].master, epoch |-> op[n].epoch]
  <2>1. op[n].kind = "master" /\ up[n] /\ wrappers' = {x} /\ UNCHANGED <<installed, up>>
    BY <1>2 DEF MasterCommit
  <2>2. op[n].epoch = installed
    BY <2>1 DEF RInv, PreparedUnderRoot
  <2>3. op'[n].kind \in {"adopt", "idle"} /\ \A m \in Nodes \ {n} : op'[m] = op[m]
    BY <1>0, <1>2 DEF MasterCommit, TypeOK
  <2>4. \A o, w \in wrappers' : ~Dual(o, w)'
    <3>1. \A o, w \in wrappers' : o = w /\ o.epoch = installed
      BY <2>1, <2>2
    <3>2. installed \in Int
      BY <1>0 DEF TypeOK, Epochs
    <3> QED BY <3>1, <3>2 DEF Dual
  <2>5. RootRotating' => RootRotating
    BY <2>3, <2>4 DEF RootRotating
  <2>6. OpsUp' /\ StoppedForRoot'
    BY <2>1, <2>3, <2>5 DEF RInv, OpsUp, StoppedForRoot
  <2>7. x \in wrappers' /\ wrappers' = {x} /\ x.epoch = installed'
    BY <2>1, <2>2
  <2>8. WrapperShape'
    BY <2>7 DEF WrapperShape, Only
  <2>9. PreparedUnderRoot'
    BY <2>1, <2>3, <2>4, <2>7 DEF RInv, PreparedUnderRoot, Only
  <2> QED BY <2>6, <2>8, <2>9 DEF RInv
<1>3. CASE MasterRefused(n)
  BY <1>0, <1>3, QuietStep DEF MasterRefused, TypeOK
<1>4. CASE MasterAdopt(n)
  BY <1>0, <1>4, QuietStep DEF MasterAdopt, TypeOK
<1>5. CASE RootPrepare(n)
  <2>1. op'[n].kind = "root" /\ \A m \in Nodes \ {n} : op'[m] = op[m] /\ ~up[m]
    BY <1>0, <1>5 DEF RootPrepare, Alone, TypeOK
  <2>2. up[n] /\ UNCHANGED <<wrappers, installed, up>>
    BY <1>5 DEF RootPrepare
  <2>3. OpsUp' /\ StoppedForRoot'
    BY <2>1, <2>2 DEF RInv, OpsUp, StoppedForRoot
  <2>4. WrapperShape'
    BY <2>2 DEF RInv, WrapperShape, Only, Dual
  <2>5. PreparedUnderRoot'
    BY <2>1, <2>2 DEF RInv, PreparedUnderRoot, Only, Dual
  <2> QED BY <2>3, <2>4, <2>5 DEF RInv
<1>6. CASE RootPrepareCommit(n)
  <2>1. up[n] /\ RootRotating /\ UNCHANGED <<installed, up>>
    BY <1>6 DEF RootPrepareCommit, RootRotating
  <2>2. \A m \in Nodes : op'[m].kind = "idle"
    BY <1>0, <1>6, <2>1, OthersIdle DEF RootPrepareCommit, TypeOK
  <2>3. OpsUp' /\ PreparedUnderRoot'
    BY <2>2 DEF OpsUp, PreparedUnderRoot
  <2>4. StoppedForRoot'
    BY <2>1 DEF RInv, StoppedForRoot
  <2>5. WrapperShape'
    <3>1. CASE RootAccepted(n)
      <4>1. PICK w \in wrappers : Only(w) /\ w.epoch + 1 = op[n].epoch
        BY <3>1 DEF RootAccepted
      <4>2. PICK x : wrappers' = {w, x} /\ x.epoch = w.epoch + 1
        <5> DEFINE y == [master |-> op[n].master, epoch |-> op[n].epoch]
        <5>1. wrappers' = {w, y} /\ y.epoch = w.epoch + 1
          BY <1>6, <3>1, <4>1 DEF RootPrepareCommit, Only
        <5> QED BY <5>1
      <4>3. w.epoch = installed /\ w.epoch \in Int
        BY <1>0, <4>1, DualFacts DEF RInv, WrapperShape, Only, TypeOK, Wrappers, Epochs
      <4>4. w \in wrappers' /\ x \in wrappers' /\ Dual(w, x)'
        BY <4>2, <4>3 DEF Dual
      <4> QED BY <2>1, <4>3, <4>4 DEF WrapperShape
    <3>2. CASE ~RootAccepted(n)
      BY <1>6, <3>2 DEF RootPrepareCommit, RInv, WrapperShape, Only, Dual
    <3> QED BY <3>1, <3>2
  <2> QED BY <2>3, <2>4, <2>5 DEF RInv
<1>7. CASE FinalizeVerify(n)
  <2>1. op'[n].kind = "finalize" /\ \A m \in Nodes \ {n} : op'[m] = op[m] /\ ~up[m]
    BY <1>0, <1>7 DEF FinalizeVerify, Alone, TypeOK, NoOp
  <2>2. up[n] /\ UNCHANGED <<wrappers, installed, up>>
    BY <1>7 DEF FinalizeVerify
  <2>3. OpsUp' /\ StoppedForRoot'
    BY <2>1, <2>2 DEF RInv, OpsUp, StoppedForRoot
  <2>4. WrapperShape'
    BY <2>2 DEF RInv, WrapperShape, Only, Dual
  <2>5. PICK o, w \in wrappers : Dual(o, w) /\ installed = w.epoch
    BY <1>7 DEF FinalizeVerify, Verified
  <2>6. PreparedUnderRoot'
    BY <2>1, <2>2, <2>5, DualFacts DEF RInv, PreparedUnderRoot, Only, Dual
  <2> QED BY <2>3, <2>4, <2>6 DEF RInv
<1>8. CASE FinalizeCommit(n)
  <2>1. up[n] /\ RootRotating /\ UNCHANGED <<installed, up>>
    BY <1>8 DEF FinalizeCommit, RootRotating
  <2>2. \A m \in Nodes : op'[m].kind = "idle"
    BY <1>0, <1>8, <2>1, OthersIdle DEF FinalizeCommit, TypeOK
  <2>3. OpsUp' /\ PreparedUnderRoot'
    BY <2>2 DEF OpsUp, PreparedUnderRoot
  <2>4. StoppedForRoot'
    BY <2>1 DEF RInv, StoppedForRoot
  <2>5. WrapperShape'
    <3>1. CASE \E o, w \in wrappers : Dual(o, w) /\ wrappers' = {w}
      <4>1. PICK o, w \in wrappers : Dual(o, w) /\ wrappers' = {w}
        BY <3>1
      <4>2. installed = w.epoch
        BY <1>8, <4>1 DEF FinalizeCommit, RInv, PreparedUnderRoot
      <4> QED BY <2>1, <4>1, <4>2 DEF WrapperShape, Only
    <3>2. CASE UNCHANGED wrappers
      BY <2>1, <3>2 DEF RInv, WrapperShape, Only, Dual
    <3> QED BY <1>8, <3>1, <3>2 DEF FinalizeCommit
  <2> QED BY <2>3, <2>4, <2>5 DEF RInv
<1>9. ASSUME NEW k \in Keys, MintSeal(n, k) PROVE RInv'
  BY <1>9, QuietStep DEF MintSeal
<1>10. CASE MintCommit(n)
  BY <1>10, QuietStep DEF MintCommit
<1>11. CASE Crash(n)
  BY <1>0, <1>11, QuietStep DEF Crash, TypeOK
<1>12. CASE Boot(n)
  <2>1. /\ RootRotating => Alone(n)
        /\ UNCHANGED <<wrappers, installed, op>> /\ ~up[n]
        /\ up' = [up EXCEPT ![n] = TRUE]
    BY <1>12 DEF Boot
  <2>2. RootRotating' <=> RootRotating
    BY <2>1 DEF RootRotating, Dual
  <2>3. OpsUp'
    BY <1>0, <2>1 DEF RInv, OpsUp, TypeOK
  <2>4. StoppedForRoot'
    BY <1>0, <2>1, <2>2 DEF StoppedForRoot, Alone, TypeOK
  <2>5. WrapperShape' /\ PreparedUnderRoot'
    BY <2>1 DEF RInv, WrapperShape, PreparedUnderRoot, Only, Dual
  <2> QED BY <2>3, <2>4, <2>5 DEF RInv
<1> QED BY <1>1, <1>2, <1>3, <1>4, <1>5, <1>6, <1>7, <1>8, <1>9, <1>10, <1>11, <1>12 DEF NodeStep

LEMMA StepRInv == ASSUME FullStop PROVE RInv /\ [Next]_vars => RInv'
<1> SUFFICES ASSUME RInv, [Next]_vars PROVE RInv'
  OBVIOUS
<1>0. IInv'
  BY StepIInv DEF RInv
<1>1. ASSUME NEW n \in Nodes, NodeStep(n) PROVE RInv'
  BY <1>0, <1>1, NodeStepRInv
<1>2. CASE InstallRoot
  <2>1. PICK o, w \in wrappers : Dual(o, w) /\ installed' = w.epoch
    BY <1>2 DEF InstallRoot
  <2>2. UNCHANGED <<wrappers, up, op>>
    BY <1>2 DEF InstallRoot
  <2>3. OpsUp' /\ StoppedForRoot'
    BY <2>2 DEF RInv, OpsUp, StoppedForRoot, RootRotating, Dual
  <2>4. WrapperShape'
    BY <2>1, <2>2 DEF WrapperShape, Dual
  <2>5. PreparedUnderRoot'
    <3>1. \A m \in Nodes : op[m].kind # "master"
      BY <2>1, DualFacts DEF RInv, PreparedUnderRoot
    <3>2. \A o2, w2 \in wrappers : Dual(o2, w2) => w2 = w
      BY <2>1, DualFacts DEF RInv
    <3> QED BY <2>1, <2>2, <3>1, <3>2 DEF PreparedUnderRoot, Dual
  <2> QED BY <1>0, <2>3, <2>4, <2>5 DEF RInv
<1>3. ASSUME NEW k \in Keys, RetireKey(k) PROVE RInv'
  BY <1>0, <1>3, QuietStep DEF RetireKey
<1>4. CASE UNCHANGED vars
  BY <1>0, <1>4, QuietStep DEF vars
<1> QED BY <1>1, <1>2, <1>3, <1>4 DEF Next

(* With the root rotated under a full stop, a crash at any point of either *)
(* rotation leaves the installed root with a wrapper it opens.             *)
THEOREM InstalledRootAlwaysBoots == ASSUME FullStop PROVE Spec => []InstalledRootBoots
<1>1. RInv => InstalledRootBoots
  BY DEF RInv, WrapperShape, InstalledRootBoots
<1> QED BY <1>1, InitRInv, StepRInv, PTL DEF Spec
-----------------------------------------------------------------------------
(* A running process keeps the master of the rotation it has in flight     *)
(* resolvable, and holds nothing else beyond its active one: what a failed *)
(* rotation added is gone, so the next one's key is never taken for one    *)
(* that is already there.                                                  *)
Reserved ==
  \A n \in Nodes :
    /\ op[n].kind \in {"master", "adopt"} => up[n] /\ op[n].master \in held[n].keys
    /\ up[n] => \A mk \in held[n].keys :
         \/ mk.version <= held[n].active.version
         \/ op[n].kind \in {"master", "adopt"} /\ mk = op[n].master

HInv == IInv /\ Reserved

LEMMA InitHInv == Init => HInv
<1> SUFFICES ASSUME Init PROVE Reserved
  BY InitIInv DEF HInv
<1>1. \A n \in Nodes : /\ op[n].kind = "idle"
                       /\ held[n].active = [version |-> 1, by |-> First]
                       /\ held[n].keys = {[version |-> 1, by |-> First]}
  BY DEF Init, NoOp
<1>2. [version |-> 1, by |-> First].version <= [version |-> 1, by |-> First].version
  OBVIOUS
<1> QED BY <1>1, <1>2 DEF Reserved

(* A step in which every process keeps what it holds, and its rotation or  *)
(* one that reserves nothing, keeps the reservations.                      *)
LEMMA HeldStep ==
  ASSUME Reserved, UNCHANGED held,
         \A m \in Nodes :
           \/ op'[m] = op[m] /\ up'[m] = up[m]
           \/ op'[m].kind = "adopt" /\ op[m].kind = "master" /\ op'[m].master = op[m].master /\ up'[m] = up[m]
           \/ /\ op'[m].kind \notin {"master", "adopt"}
              /\ up'[m] => up[m] /\ op[m].kind \notin {"master", "adopt"}
  PROVE  Reserved'
BY DEF Reserved

(* So does one in which a single process settles, where what it holds      *)
(* afterwards is settled by itself.                                        *)
LEMMA SettledStep ==
  ASSUME Reserved, NEW n \in Nodes, UNCHANGED up,
         \A m \in Nodes \ {n} : held'[m] = held[m] /\ op'[m] = op[m],
         op'[n].kind \notin {"master", "adopt"},
         \A mk \in held'[n].keys : mk.version <= held'[n].active.version
  PROVE  Reserved'
BY DEF Reserved

(* abort leaves nothing beyond the active master.                          *)
LEMMA AbortedSettles ==
  ASSUME HInv, NEW n \in Nodes, up[n], op[n].kind = "master",
         held' = [held EXCEPT ![n] = Aborted(n)], op' = [op EXCEPT ![n] = NoOp], UNCHANGED up
  PROVE  Reserved'
<1>1. held'[n] = Aborted(n) /\ op'[n].kind = "idle"
  BY DEF HInv, IInv, TypeOK, NoOp
<1>2. /\ held[n].active \in Masters /\ held[n].keys \subseteq Masters
      /\ \A mk \in held[n].keys : mk.version <= held[n].active.version \/ mk = op[n].master
  BY DEF HInv, IInv, TypeOK, Reserved
<1>3. /\ Aborted(n).active = held[n].active
      /\ Aborted(n).keys \subseteq held[n].keys
      /\ \/ held[n].active.version = op[n].master.version
         \/ \A mk \in Aborted(n).keys : mk.version # op[n].master.version
  BY <1>2 DEF Aborted, HInv, IInv, TypeOK
<1>4. \A mk \in Aborted(n).keys : mk.version <= Aborted(n).active.version
  BY <1>2, <1>3 DEF Masters, Versions
<1>5. \A m \in Nodes \ {n} : held'[m] = held[m] /\ op'[m] = op[m]
  BY DEF HInv, IInv, TypeOK
<1> QED BY <1>1, <1>4, <1>5, SettledStep DEF HInv

LEMMA NodeStepReserved ==
  ASSUME HInv, NEW n \in Nodes, NodeStep(n)
  PROVE  Reserved'
<1> USE DEF HInv
<1>0. TypeOK /\ NoOp.kind = "idle"
  BY DEF IInv, NoOp
<1>1. CASE MasterPrepare(n)
  <2>1. PICK w \in wrappers : MasterPrepare(n)!(w)
    BY <1>1 DEF MasterPrepare
  <2> DEFINE new == [version |-> w.master.version + 1, by |-> n]
  <2>2. /\ w.master \in Masters /\ held[n].active \in Masters /\ held[n].keys \subseteq Masters
        /\ held[n].active.version <= w.master.version
    BY <1>0 DEF TypeOK, Wrappers, IInv, MastersKnown, Known
  <2>3. \A mk \in held[n].keys : mk.version <= held[n].active.version
    BY <1>0, <2>1 DEF Reserved
  <2>4. ~Holds(n, new.version)
    BY <2>2, <2>3 DEF Holds, Masters, Versions
  <2>5. /\ held'[n].keys = held[n].keys \cup {new} /\ held'[n].active = held[n].active
        /\ op'[n].kind = "master" /\ op'[n].master = new
    BY <1>0, <2>1, <2>4 DEF TypeOK
  <2>6. \A m \in Nodes \ {n} : held'[m] = held[m] /\ op'[m] = op[m]
    BY <1>0, <2>1 DEF TypeOK
  <2> QED BY <2>1, <2>3, <2>5, <2>6 DEF Reserved
<1>2. CASE MasterCommit(n)
  <2>1. CASE op' = [op EXCEPT ![n].kind = "adopt"] /\ UNCHANGED held
    BY <1>0, <1>2, <2>1, HeldStep DEF MasterCommit, TypeOK
  <2>2. CASE op' = [op EXCEPT ![n] = NoOp] /\ held' = [held EXCEPT ![n] = Aborted(n)]
    BY <1>2, <2>2, AbortedSettles DEF MasterCommit
  <2> QED BY <1>2, <2>1, <2>2 DEF MasterCommit
<1>3. CASE MasterRefused(n)
  BY <1>3, AbortedSettles DEF MasterRefused
<1>4. CASE MasterAdopt(n)
  <2>1. /\ op[n].master \in Masters /\ held[n].active \in Masters /\ held[n].keys \subseteq Masters
        /\ \A mk \in held[n].keys : mk.version <= held[n].active.version \/ mk = op[n].master
    BY <1>0, <1>4 DEF MasterAdopt, IInv, InFlight, TypeOK, Reserved
  <2>2. /\ held'[n].keys = held[n].keys
        /\ held'[n].active = IF op[n].master.version > held[n].active.version
                             THEN op[n].master ELSE held[n].active
        /\ op'[n].kind = "idle"
    BY <1>0, <1>4 DEF MasterAdopt, TypeOK
  <2>3. \A mk \in held'[n].keys : mk.version <= held'[n].active.version
    BY <2>1, <2>2 DEF Masters, Versions
  <2>4. UNCHANGED up /\ \A m \in Nodes \ {n} : held'[m] = held[m] /\ op'[m] = op[m]
    BY <1>0, <1>4 DEF MasterAdopt, TypeOK
  <2> QED BY <2>2, <2>3, <2>4, SettledStep
<1>5. CASE RootPrepare(n)
  BY <1>0, <1>5, HeldStep DEF RootPrepare, TypeOK
<1>6. CASE RootPrepareCommit(n)
  BY <1>0, <1>6, HeldStep DEF RootPrepareCommit, TypeOK
<1>7. CASE FinalizeVerify(n)
  <2>1. op[n].kind = "idle" /\ op'[n].kind = "finalize"
    BY <1>0, <1>7 DEF FinalizeVerify, TypeOK, NoOp
  <2> QED BY <1>0, <1>7, <2>1, HeldStep DEF FinalizeVerify, TypeOK
<1>8. CASE FinalizeCommit(n)
  BY <1>0, <1>8, HeldStep DEF FinalizeCommit, TypeOK
<1>9. ASSUME NEW k \in Keys, MintSeal(n, k) PROVE Reserved'
  BY <1>9, HeldStep DEF MintSeal
<1>10. CASE MintCommit(n)
  BY <1>10, HeldStep DEF MintCommit
<1>11. CASE Crash(n)
  BY <1>0, <1>11, HeldStep DEF Crash, TypeOK
<1>12. CASE Boot(n)
  <2>1. PICK w \in wrappers : Boot(n)!(w)
    BY <1>12 DEF Boot
  <2>2. /\ held'[n].active = w.master /\ held'[n].keys = {w.master}
        /\ \A m \in Nodes \ {n} : held'[m] = held[m] /\ up'[m] = up[m]
        /\ op' = op /\ op[n].kind \notin {"master", "adopt"}
        /\ w.master.version \in Int
    BY <1>0, <2>1 DEF TypeOK, Wrappers, Masters, Versions, Reserved
  <2>3. \A mk \in held'[n].keys : mk.version <= held'[n].active.version
    BY <2>2
  <2> QED BY <2>2, <2>3 DEF Reserved
<1> QED BY <1>1, <1>2, <1>3, <1>4, <1>5, <1>6, <1>7, <1>8, <1>9, <1>10, <1>11, <1>12 DEF NodeStep

LEMMA StepHInv == HInv /\ [Next]_vars => HInv'
<1> SUFFICES ASSUME HInv, [Next]_vars PROVE Reserved'
  BY StepIInv DEF HInv
<1>1. CASE InstallRoot
  BY <1>1, HeldStep DEF HInv, InstallRoot
<1>2. ASSUME NEW k \in Keys, RetireKey(k) PROVE Reserved'
  BY <1>2, HeldStep DEF HInv, RetireKey
<1>3. CASE UNCHANGED vars
  BY <1>3, HeldStep DEF HInv, vars
<1> QED BY <1>1, <1>2, <1>3, NodeStepReserved DEF Next

(* A process that has committed a master rotation can unwrap every tier-3  *)
(* key before it has adopted the new master, although addMaster keeps a    *)
(* key it already holds at that version: none is left there by a rotation  *)
(* that was refused, or whose commit applied with its answer lost.         *)
THEOREM AdoptingAlwaysUnwraps == Spec => []AdoptingUnwraps
<1>1. HInv => AdoptingUnwraps
  <2> SUFFICES ASSUME HInv, NEW n \in Nodes, up[n], op[n].kind = "adopt",
                      NEW w \in wrappers, w.master = op[n].master
               PROVE  Unwraps(n)
    BY DEF AdoptingUnwraps
  <2>1. op[n].master \in held[n].keys
    BY DEF HInv, Reserved
  <2> QED BY <2>1 DEF HInv, IInv, MasterCovers, Unwraps
<1> QED BY <1>1, InitHInv, StepHInv, PTL DEF Spec
=============================================================================
