--------------------------- MODULE RetentionProofs ---------------------------
(***************************************************************************)
(* What may go and what must stay, for every value of the constants.       *)
(*                                                                         *)
(* First the versions of a DEK (Reencryption): for any number of nodes,    *)
(* rows, versions and any chunk size, on one node or under HA, with or     *)
(* without lost answers, no version is retired that a row is sealed under. *)
(*                                                                         *)
(* Then the payloads of snapshots (SnapshotRetention): for any             *)
(* environments, workloads, policies, batch size and bounds, no            *)
(* interleaving of sweeps, pins, publications and policy changes takes     *)
(* away a payload somebody was promised.  The invariant adds to            *)
(* FetchIsServed that the newest revision is present also where nobody     *)
(* fetches, and that every live pin's is.                                  *)
(***************************************************************************)
EXTENDS Reencryption, SnapshotRetention, FiniteSetTheorems, TLAPS

-----------------------------------------------------------------------------
(* Versions of a key.                                                      *)
\* Every stored version is at most the active one, of which there is at most
\* one; a scope with a stored version has an active one.
Ordered ==
  /\ \A v, w \in Versions : IsActive(v) /\ vstate[w] # "none" => w <= v
  /\ (\E v \in Versions : vstate[v] # "none") => \E v \in Versions : IsActive(v)

\* A set names only stored versions, and a project set whose active version
\* is still active carries every openable version.
Covers(set) ==
  /\ set.active # 0 => vstate[set.active] # "none"
  /\ IsActive(set.active) => Openable \subseteq set.versions

SetsCover == ~Instance => \A n \in Nodes : Covers(cache[n]) /\ Covers(walk[n].set)

InstanceMinted == Instance => Openable # {}

\* Only the instance set is ever reloaded.
ReloadsInstance == ~Instance => \A n \in Nodes : reload[n] = NoSet

IInv == TypeOK /\ Ordered /\ NothingStranded /\ SetsCover /\ InstanceMinted /\ ReloadsInstance

(* The set a rebuild reads is typed, its active version is the store's and *)
(* it carries every openable version.                                      *)
LEMMA BuildFacts ==
  ASSUME TypeOK, Ordered, Openable # {}
  PROVE  /\ Build \in VersionSets
         /\ IsActive(Build.active)
         /\ Build.versions = Openable
         /\ Covers(Build)
<1>1. PICK v \in Versions : IsActive(v)
  BY DEF Ordered, Openable
<1>2. v \in Openable /\ \A w \in Openable : w <= v
  BY <1>1 DEF Openable, Ordered, IsActive
<1>3. Newest(Openable) = v
  <2>1. Newest(Openable) \in Openable /\ \A w \in Openable : w <= Newest(Openable)
    BY <1>2 DEF Newest
  <2>2. \A w \in Openable : w \in Int
    BY DEF Openable, Versions
  <2> QED BY <1>2, <2>1, <2>2
<1>4. Build = [active |-> v, versions |-> Openable]
  BY <1>3 DEF Build
<1>5. v \in 0..MaxVersion /\ Openable \subseteq Versions /\ vstate[v] # "none"
  BY <1>1, ReencryptionAssumption DEF Versions, Openable, IsActive
<1> QED BY <1>1, <1>4, <1>5 DEF VersionSets, Covers

(* A fetch keeps the invariant's parts about versions, returns a set that  *)
(* covers, and leaves every set that covered covering.                     *)
LEMMA FetchFacts ==
  ASSUME IInv, NEW n \in Nodes, NEW set \in VersionSets, Fetch(n, set), UNCHANGED row
  PROVE  /\ vstate' \in [Versions -> {"none", "active", "retiring", "retired"}]
         /\ cache' \in [Nodes -> VersionSets]
         /\ Ordered' /\ NothingStranded' /\ InstanceMinted'
         /\ \A m \in Nodes : cache'[m] \in {cache[m], set}
         /\ ~Instance => /\ Covers(set)'
                         /\ \A s \in VersionSets : Covers(s) => Covers(s)'
<1> USE ReencryptionAssumption
<1>1. CASE Trusted(n) /\ set = cache[n] /\ UNCHANGED <<vstate, cache>>
  <2>1. Openable' = Openable /\ \A v : IsActive(v)' <=> IsActive(v)
    BY <1>1 DEF Openable, IsActive
  <2>2. Ordered' /\ NothingStranded' /\ InstanceMinted'
    BY <1>1, <2>1 DEF IInv, Ordered, NothingStranded, InstanceMinted
  <2>3. \A s \in VersionSets : Covers(s) => Covers(s)'
    BY <1>1, <2>1 DEF Covers
  <2>4. ~Instance => Covers(set)
    BY <1>1 DEF IInv, SetsCover
  <2> QED BY <1>1, <2>2, <2>3, <2>4 DEF IInv, TypeOK
<1>2. CASE /\ ~Trusted(n) /\ Openable # {}
           /\ set = Build /\ cache' = [cache EXCEPT ![n] = Build] /\ UNCHANGED vstate
  <2>1. Openable' = Openable /\ \A v : IsActive(v)' <=> IsActive(v)
    BY <1>2 DEF Openable, IsActive
  <2>2. Ordered' /\ NothingStranded' /\ InstanceMinted'
    BY <1>2, <2>1 DEF IInv, Ordered, NothingStranded, InstanceMinted
  <2>3. \A s \in VersionSets : Covers(s) => Covers(s)'
    BY <1>2, <2>1 DEF Covers
  <2>4. Covers(set)
    BY <1>2, BuildFacts DEF IInv
  <2>5. cache' = [cache EXCEPT ![n] = set]
    BY <1>2
  <2> QED BY <1>2, <2>2, <2>3, <2>4, <2>5 DEF IInv, TypeOK
<1>3. CASE /\ ~Trusted(n) /\ Openable = {}
           /\ set = [active |-> 1, versions |-> {1}]
           /\ vstate' = [vstate EXCEPT ![1] = "active"] /\ cache' = [cache EXCEPT ![n] = set]
  <2>0. 1 \in Versions /\ ~ (0 \in Versions)
    BY DEF Versions
  <2>1. vstate' \in [Versions -> {"none", "active", "retiring", "retired"}]
    BY <1>3, <2>0 DEF IInv, TypeOK
  <2>2. Openable' = {1} /\ \A v \in Versions : IsActive(v)' <=> v = 1
    BY <1>3, <2>0 DEF Openable, IsActive, IInv, TypeOK
  <2>3. \A v \in Versions : vstate[v] = "none"
    BY <1>3 DEF Openable, IInv, Ordered, IsActive
  <2>4. ~Instance /\ \A r \in Rows : row[r] = 0
    BY <1>3 DEF IInv, InstanceMinted, NothingStranded
  <2>5. \A w \in Versions : vstate'[w] # "none" => w = 1
    BY <1>3, <2>3 DEF IInv, TypeOK
  <2>6. Ordered'
    BY <2>0, <2>2, <2>5 DEF Ordered, Versions
  <2>7. NothingStranded' /\ InstanceMinted'
    BY <2>4 DEF NothingStranded, InstanceMinted
  <2>8. ASSUME NEW s \in VersionSets, Covers(s) PROVE Covers(s)'
    <3>1. s.active = 0
      BY <2>3, <2>8 DEF Covers, VersionSets, Versions
    <3> QED BY <2>0, <3>1 DEF Covers, IsActive
  <2>9. Covers(set)'
    BY <1>3, <2>0, <2>2 DEF Covers, IInv, TypeOK
  <2> QED BY <1>3, <2>1, <2>6, <2>7, <2>8, <2>9 DEF IInv, TypeOK
<1> QED BY <1>1, <1>2, <1>3 DEF Fetch

(* So a fetch whose result may also become a walk's set keeps the cover.   *)
LEMMA FetchCovers ==
  ASSUME IInv, NEW n \in Nodes, NEW set \in VersionSets, Fetch(n, set), UNCHANGED row,
         \A m \in Nodes : walk'[m].set \in {walk[m].set, set}
  PROVE  SetsCover'
<1> SUFFICES ASSUME ~Instance, NEW m \in Nodes PROVE Covers(cache[m])' /\ Covers(walk[m].set)'
  BY DEF SetsCover
<1>1. /\ Covers(set)'
      /\ \A s \in VersionSets : Covers(s) => Covers(s)'
      /\ cache'[m] \in {cache[m], set}
  BY FetchFacts
<1>2. cache[m] \in VersionSets /\ walk[m].set \in VersionSets
  BY DEF IInv, TypeOK
<1>3. Covers(cache[m]) /\ Covers(walk[m].set)
  BY DEF IInv, SetsCover
<1> QED BY <1>1, <1>2, <1>3 DEF Covers

(* A step that changes neither the version states nor a ciphertext keeps   *)
(* the parts of the invariant about them.                                  *)
LEMMA VersionsKept ==
  ASSUME IInv, UNCHANGED vstate
  PROVE  /\ Ordered' /\ InstanceMinted'
         /\ Openable' = Openable
         /\ \A v : IsActive(v)' <=> IsActive(v)
         /\ \A s : Covers(s) => (s.active # 0 => vstate'[s.active] # "none")
                                /\ (IsActive(s.active)' => Openable' \subseteq s.versions)
<1>1. Openable' = Openable /\ \A v : IsActive(v)' <=> IsActive(v)
  BY DEF Openable, IsActive
<1>2. Ordered'
  <2> USE <1>1 DEF IInv, Ordered
  <2>1. \A v, w \in Versions : IsActive(v)' /\ vstate'[w] # "none" => w <= v
    OBVIOUS
  <2>2. (\E v \in Versions : vstate'[v] # "none") => \E v \in Versions : IsActive(v)'
    OBVIOUS
  <2> QED BY <2>1, <2>2
<1> QED BY <1>1, <1>2 DEF IInv, InstanceMinted, Covers

(* NoSet covers vacuously. *)
LEMMA NoSetFacts == NoSet \in VersionSets /\ Covers(NoSet) /\ Covers(NoSet)'
<1>1. ~ (0 \in Versions)
  BY DEF Versions
<1> QED BY <1>1, ReencryptionAssumption DEF NoSet, VersionSets, Covers, IsActive, Versions

LEMMA InitIInv == Init => IInv
<1> SUFFICES ASSUME Init PROVE IInv
  OBVIOUS
<1> USE ReencryptionAssumption
<1>0. 1 \in Versions /\ ~ (0 \in Versions)
  BY DEF Versions
<1>1. [active |-> 1, versions |-> {1}] \in VersionSets /\ NoSet \in VersionSets
  BY <1>0, NoSetFacts DEF VersionSets, Versions
<1>2. TypeOK
  BY <1>0, <1>1 DEF Init, TypeOK, NoRot, NoWalk
<1>3. Ordered
  BY <1>0 DEF Init, Ordered, IsActive, Versions
<1>4. NothingStranded
  BY DEF Init, NothingStranded
<1>5. SetsCover
  BY NoSetFacts DEF Init, SetsCover, NoWalk
<1>6. InstanceMinted
  BY <1>0 DEF Init, InstanceMinted, Openable
<1>7. ReloadsInstance
  BY DEF Init, ReloadsInstance
<1> QED BY <1>2, <1>3, <1>4, <1>5, <1>6, <1>7 DEF IInv

(* The type invariant's and the cover's parts about one node's sets, for a *)
(* step that leaves the version states alone and installs covering sets.   *)
LEMMA SetsStep ==
  ASSUME IInv, UNCHANGED vstate, NEW n \in Nodes,
         \A m \in Nodes \ {n} : cache'[m] = cache[m] /\ walk'[m].set = walk[m].set,
         ~Instance => Covers(cache'[n]) /\ Covers(walk'[n].set)
  PROVE  SetsCover'
<1> SUFFICES ASSUME ~Instance, NEW m \in Nodes
             PROVE  Covers(cache[m])' /\ Covers(walk[m].set)'
  BY DEF SetsCover
<1>1. Covers(cache'[m]) /\ Covers(walk'[m].set)
  BY DEF IInv, SetsCover
<1> QED BY <1>1, VersionsKept DEF Covers

(* Every step of a node preserves the invariant. *)
LEMMA NodeStepIInv ==
  ASSUME IInv, NEW n \in Nodes, NodeStep(n)
  PROVE  IInv'
<1> USE ReencryptionAssumption
<1>0. ReloadsInstance'
  <2>1. UNCHANGED reload \/ ReloadRead(n) \/ ReloadStore(n) \/ Restart(n)
    BY DEF NodeStep, WriterSeal, WriterRefused, WriterCommit, RotatePrepare, RotateCommit,
           RotateRefused, RotateAdopt, WalkStart, WalkChunk, WalkAbort, Retire, WalkEvict, CacheEvict
  <2>2. CASE UNCHANGED reload
    BY <2>2 DEF IInv, ReloadsInstance
  <2>3. CASE ReloadRead(n)
    BY <2>3 DEF ReloadRead, ReloadsInstance
  <2>4. CASE ReloadStore(n)
    BY <2>4 DEF ReloadStore, IInv, ReloadsInstance, TypeOK
  <2>5. CASE Restart(n)
    BY <2>5 DEF Restart, IInv, ReloadsInstance, TypeOK
  <2> QED BY <2>1, <2>2, <2>3, <2>4, <2>5
<1>1. CASE WriterSeal(n)
  <2>1. PICK set \in VersionSets : Fetch(n, set) /\ writer' = [writer EXCEPT ![n] = set.active]
    BY <1>1 DEF WriterSeal
  <2>2. UNCHANGED <<row, rot, walk, reload>>
    BY <1>1 DEF WriterSeal
  <2>3. /\ vstate' \in [Versions -> {"none", "active", "retiring", "retired"}]
        /\ cache' \in [Nodes -> VersionSets]
        /\ Ordered' /\ NothingStranded' /\ InstanceMinted' /\ SetsCover'
    BY <2>1, <2>2, FetchFacts, FetchCovers
  <2>4. set.active \in 0..MaxVersion
    BY DEF VersionSets
  <2> QED BY <1>0, <2>1, <2>2, <2>3, <2>4 DEF IInv, TypeOK
<1>2. CASE WriterRefused(n)
  <2>1. SetsCover'
    BY <1>2, VersionsKept DEF WriterRefused, IInv, SetsCover, Covers
  <2> QED BY <1>0, <1>2, <2>1, VersionsKept DEF WriterRefused, IInv, TypeOK, NothingStranded
<1>3. ASSUME NEW r \in Rows, WriterCommit(n, r) PROVE IInv'
  <2>1. writer[n] \in Openable /\ writer[n] \in 0..MaxVersion
    BY <1>3 DEF WriterCommit, IsActive, Openable, IInv, TypeOK
  <2>2. NothingStranded'
    BY <1>3, <2>1, VersionsKept DEF WriterCommit, IInv, TypeOK, NothingStranded
  <2>3. SetsCover'
    BY <1>3, VersionsKept DEF WriterCommit, IInv, SetsCover, Covers
  <2> QED BY <1>0, <1>3, <2>1, <2>2, <2>3, VersionsKept DEF WriterCommit, IInv, TypeOK
<1>4. CASE RotatePrepare(n)
  <2>1. PICK set \in VersionSets :
          /\ Fetch(n, set) /\ set.active < MaxVersion
          /\ rot' = [rot EXCEPT ![n] = [phase |-> "prepared", version |-> set.active + 1]]
    BY <1>4 DEF RotatePrepare
  <2>2. UNCHANGED <<row, writer, walk, reload>>
    BY <1>4 DEF RotatePrepare
  <2>3. /\ vstate' \in [Versions -> {"none", "active", "retiring", "retired"}]
        /\ cache' \in [Nodes -> VersionSets]
        /\ Ordered' /\ NothingStranded' /\ InstanceMinted' /\ SetsCover'
    BY <2>1, <2>2, FetchFacts, FetchCovers
  <2>4. set.active + 1 \in 0..MaxVersion
    BY <2>1 DEF VersionSets
  <2> QED BY <1>0, <2>1, <2>2, <2>3, <2>4 DEF IInv, TypeOK
<1>5. CASE RotateCommit(n)
  <2> DEFINE old == rot[n].version - 1
             new == rot[n].version
  <2>1. old \in Versions /\ new \in Versions /\ new = old + 1 /\ vstate[old] = "active"
    BY <1>5 DEF RotateCommit, IsActive, IInv, TypeOK, Versions
  <2>2. vstate[new] = "none"
    BY <2>1 DEF IInv, Ordered, IsActive, Versions
  <2>3. /\ vstate' \in [Versions -> {"none", "active", "retiring", "retired"}]
        /\ vstate'[new] = "active" /\ vstate'[old] = "retiring"
        /\ \A v \in Versions \ {old, new} : vstate'[v] = vstate[v]
    <3>1. vstate' = [vstate EXCEPT ![old] = "retiring", ![new] = "active"]
      BY <1>5 DEF RotateCommit
    <3>2. vstate \in [Versions -> {"none", "active", "retiring", "retired"}] /\ old # new
      BY <2>1 DEF IInv, TypeOK, Versions
    <3> HIDE DEF old, new
    <3> QED BY <2>1, <3>1, <3>2
  <2>4. \A v \in Versions : vstate[v] # "none" => v <= old
    BY <2>1 DEF IInv, Ordered, IsActive
  <2>5. \A v \in Versions : IsActive(v)' <=> v = new
    BY <2>1, <2>3, <2>4 DEF IInv, Ordered, IsActive, Versions
  <2>6. \A v \in Versions : vstate'[v] # "none" => v <= new
    BY <2>1, <2>3, <2>4 DEF Versions
  <2>7. Ordered'
    BY <2>1, <2>5, <2>6 DEF Ordered
  <2>8. Openable \subseteq Openable'
    BY <2>1, <2>2, <2>3 DEF Openable
  <2>9. NothingStranded' /\ InstanceMinted'
    BY <1>5, <2>8 DEF RotateCommit, IInv, NothingStranded, InstanceMinted
  <2>10. walk' = walk /\ cache' = cache
    BY <1>5 DEF RotateCommit
  <2>11. ASSUME NEW s \in VersionSets, Covers(s)
         PROVE  /\ s.active # 0 => vstate'[s.active] # "none"
                /\ ~IsActive(s.active)'
    <3>1. s.active # new
      BY <2>1, <2>2, <2>11 DEF Covers, Versions
    <3>2. s.active # 0 => s.active \in Versions
      BY DEF VersionSets, Versions
    <3>3. s.active # 0 => vstate'[s.active] # "none"
      BY <2>3, <2>11, <3>1, <3>2 DEF Covers
    <3>4. ~IsActive(s.active)'
      BY <2>5, <3>1 DEF IsActive
    <3> QED BY <3>3, <3>4
  <2>12. SetsCover'
    <3> SUFFICES ASSUME ~Instance, NEW m \in Nodes PROVE Covers(cache[m])' /\ Covers(walk[m].set)'
      BY DEF SetsCover
    <3>1. cache[m] \in VersionSets /\ walk[m].set \in VersionSets
      BY DEF IInv, TypeOK
    <3>2. Covers(cache[m]) /\ Covers(walk[m].set)
      BY DEF IInv, SetsCover
    <3> QED BY <2>10, <2>11, <3>1, <3>2 DEF Covers
  <2>13. rot' \in [Nodes -> [phase : {"idle", "prepared", "committed"}, version : 0..MaxVersion]]
    <3>1. \/ rot' = [rot EXCEPT ![n].phase = "committed"]
          \/ rot' = [rot EXCEPT ![n] = NoRot]
      BY <1>5 DEF RotateCommit
    <3> QED BY <3>1 DEF IInv, TypeOK, NoRot
  <2> QED BY <1>0, <1>5, <2>3, <2>7, <2>9, <2>12, <2>13 DEF RotateCommit, IInv, TypeOK
<1>6. CASE RotateRefused(n)
  <2>1. SetsCover'
    BY <1>6, VersionsKept DEF RotateRefused, IInv, SetsCover, Covers
  <2> QED BY <1>0, <1>6, <2>1, VersionsKept DEF RotateRefused, IInv, TypeOK, NothingStranded, NoRot
<1>7. CASE RotateAdopt(n)
  <2>1. Adopted(n) \in VersionSets
    <3>1. rot[n].version \in 0..MaxVersion /\ cache[n] \in VersionSets
      BY DEF IInv, TypeOK
    <3>2. CASE Instance /\ ~(rot[n].version <= cache[n].active)
      <4>1. rot[n].version \in Versions
        BY <3>1, <3>2 DEF VersionSets, Versions
      <4> QED BY <3>1, <3>2, <4>1 DEF Adopted, VersionSets
    <3> QED BY <3>1, <3>2, NoSetFacts DEF Adopted
  <2>2. ~Instance => Covers(Adopted(n))
    BY NoSetFacts DEF Adopted
  <2>3. cache' = [cache EXCEPT ![n] = Adopted(n)] /\ UNCHANGED <<vstate, row, writer, walk, reload>>
    BY <1>7 DEF RotateAdopt
  <2>4. SetsCover'
    <3>1. cache'[n] = Adopted(n) /\ \A m \in Nodes \ {n} : cache'[m] = cache[m]
      BY <2>3 DEF IInv, TypeOK
    <3>2. ~Instance => Covers(walk[n].set)
      BY DEF IInv, SetsCover
    <3> QED BY <2>2, <2>3, <3>1, <3>2, SetsStep
  <2>5. cache' \in [Nodes -> VersionSets]
    BY <2>1, <2>3 DEF IInv, TypeOK
  <2> QED BY <1>0, <1>7, <2>3, <2>4, <2>5, VersionsKept DEF RotateAdopt, IInv, TypeOK, NothingStranded, NoRot
<1>8. CASE WalkStart(n)
  <2>1. PICK set \in VersionSets :
          /\ Fetch(n, set)
          /\ walk' = [walk EXCEPT ![n] = [phase |-> "walking", set |-> set, cursor |-> 0]]
    BY <1>8 DEF WalkStart
  <2>2. UNCHANGED <<row, writer, rot, reload>>
    BY <1>8 DEF WalkStart
  <2>3. walk' \in [Nodes -> [phase : {"idle", "walking", "dry", "retired"},
                            set : VersionSets, cursor : 0..NRows]]
    BY <2>1 DEF IInv, TypeOK
  <2>4. \A m \in Nodes : walk'[m].set \in {walk[m].set, set}
    BY <2>1 DEF IInv, TypeOK
  <2>5. /\ vstate' \in [Versions -> {"none", "active", "retiring", "retired"}]
        /\ cache' \in [Nodes -> VersionSets]
        /\ Ordered' /\ NothingStranded' /\ InstanceMinted' /\ SetsCover'
    BY <2>1, <2>2, <2>4, FetchFacts, FetchCovers
  <2> QED BY <1>0, <2>2, <2>3, <2>5 DEF IInv, TypeOK
<1>9. CASE WalkChunk(n)
  <2> DEFINE target == walk[n].set.active
             page   == Page(walk[n].cursor)
  <2>1. target \in Openable /\ target \in 0..MaxVersion
    BY <1>9 DEF WalkChunk, IsActive, Openable, Versions
  <2>2. row' = [r \in Rows |-> IF r \in page THEN target ELSE row[r]]
    BY <1>9 DEF WalkChunk
  <2>3. row' \in [Rows -> 0..MaxVersion] /\ NothingStranded'
    <3>1. Openable' = Openable
      BY <1>9 DEF WalkChunk, Openable
    <3> HIDE DEF page, target
    <3> QED BY <2>1, <2>2, <3>1 DEF IInv, TypeOK, NothingStranded
  <2>4. PICK c \in 0..NRows :
          walk' = [walk EXCEPT ![n].cursor = c,
                               ![n].phase = IF Cardinality(page) < Chunk THEN "dry" ELSE "walking"]
    BY <1>9 DEF WalkChunk
  <2>5. /\ walk' \in [Nodes -> [phase : {"idle", "walking", "dry", "retired"},
                                set : VersionSets, cursor : 0..NRows]]
        /\ \A m \in Nodes : walk'[m].set = walk[m].set
    <3> HIDE DEF page
    <3> QED BY <2>4 DEF IInv, TypeOK
  <2>6. SetsCover'
    BY <1>9, <2>5, VersionsKept DEF WalkChunk, IInv, SetsCover, Covers
  <2> QED BY <1>0, <1>9, <2>3, <2>5, <2>6, VersionsKept DEF WalkChunk, IInv, TypeOK
<1>10. CASE WalkAbort(n)
  <2>1. walk' \in [Nodes -> [phase : {"idle", "walking", "dry", "retired"},
                             set : VersionSets, cursor : 0..NRows]]
    BY <1>10, NoSetFacts DEF WalkAbort, IInv, TypeOK, NoWalk
  <2>2. SetsCover'
    <3>1. walk'[n].set = NoSet /\ \A m \in Nodes \ {n} : walk'[m].set = walk[m].set
      BY <1>10 DEF WalkAbort, IInv, TypeOK, NoWalk
    <3>2. ~Instance => Covers(cache[n])
      BY DEF IInv, SetsCover
    <3> QED BY <1>10, <3>1, <3>2, NoSetFacts, SetsStep DEF WalkAbort
  <2> QED BY <1>0, <1>10, <2>1, <2>2, VersionsKept DEF WalkAbort, IInv, TypeOK, NothingStranded
<1>11. CASE Retire(n)
  <2> DEFINE v0 == walk[n].set.active
  <2>1. v0 \in Versions /\ vstate[v0] = "active" /\ \A r \in Rows : row[r] \in {0, v0}
    BY <1>11 DEF Retire, IsActive, Dry
  <2>2. vstate' = [v \in Versions |-> IF vstate[v] = "retiring" THEN "retired" ELSE vstate[v]]
    BY <1>11 DEF Retire
  <2>3. /\ vstate' \in [Versions -> {"none", "active", "retiring", "retired"}]
        /\ \A v \in Versions : IsActive(v)' <=> IsActive(v)
        /\ \A v \in Versions : vstate'[v] = "none" <=> vstate[v] = "none"
    BY <2>2 DEF IInv, TypeOK, IsActive
  <2>4. Ordered'
    BY <2>3 DEF IInv, Ordered
  <2>5. Openable' \subseteq Openable /\ v0 \in Openable'
    BY <2>1, <2>2 DEF Openable
  <2>6. NothingStranded' /\ InstanceMinted'
    BY <1>11, <2>1, <2>5 DEF Retire, NothingStranded, InstanceMinted
  <2>7. ASSUME NEW s \in VersionSets, Covers(s) PROVE Covers(s)'
    <3>1. s.active # 0 => s.active \in Versions
      BY DEF VersionSets, Versions
    <3>2. IsActive(s.active)' => IsActive(s.active)
      BY <2>3 DEF IsActive
    <3> QED BY <2>3, <2>5, <2>7, <3>1, <3>2 DEF Covers
  <2>8. /\ walk' \in [Nodes -> [phase : {"idle", "walking", "dry", "retired"},
                                set : VersionSets, cursor : 0..NRows]]
        /\ \A m \in Nodes : walk'[m].set \in {walk[m].set, NoSet}
    <3>1. \/ walk' = [walk EXCEPT ![n].phase = "retired"]
          \/ walk' = [walk EXCEPT ![n] = NoWalk]
      BY <1>11 DEF Retire
    <3>2. CASE walk' = [walk EXCEPT ![n].phase = "retired"]
      BY <3>2 DEF IInv, TypeOK
    <3>3. CASE walk' = [walk EXCEPT ![n] = NoWalk]
      BY <3>3, NoSetFacts DEF IInv, TypeOK, NoWalk
    <3> QED BY <3>1, <3>2, <3>3
  <2>9. SetsCover'
    <3> SUFFICES ASSUME ~Instance, NEW m \in Nodes PROVE Covers(cache[m])' /\ Covers(walk[m].set)'
      BY DEF SetsCover
    <3>1. cache[m] \in VersionSets /\ walk[m].set \in VersionSets /\ cache' = cache
      BY <1>11 DEF IInv, TypeOK, Retire
    <3>2. Covers(cache[m]) /\ Covers(walk[m].set)
      BY DEF IInv, SetsCover
    <3>3. Covers(cache[m])'
      BY <2>7, <3>1, <3>2 DEF Covers
    <3>4. Covers(walk[m].set)'
      BY <2>7, <2>8, <3>1, <3>2, NoSetFacts DEF Covers
    <3> QED BY <3>3, <3>4
  <2> QED BY <1>0, <1>11, <2>3, <2>4, <2>6, <2>8, <2>9 DEF Retire, IInv, TypeOK
<1>12. CASE WalkEvict(n)
  <2>1. /\ walk' \in [Nodes -> [phase : {"idle", "walking", "dry", "retired"},
                                set : VersionSets, cursor : 0..NRows]]
        /\ cache' \in [Nodes -> VersionSets]
    BY <1>12, NoSetFacts DEF WalkEvict, IInv, TypeOK, NoWalk
  <2>2. SetsCover'
    <3>1. /\ walk'[n].set = NoSet /\ cache'[n] = NoSet
          /\ \A m \in Nodes \ {n} : walk'[m].set = walk[m].set /\ cache'[m] = cache[m]
      BY <1>12 DEF WalkEvict, IInv, TypeOK, NoWalk
    <3> QED BY <1>12, <3>1, NoSetFacts, SetsStep DEF WalkEvict
  <2> QED BY <1>0, <1>12, <2>1, <2>2, VersionsKept DEF WalkEvict, IInv, TypeOK, NothingStranded
<1>13. CASE ReloadRead(n)
  <2>1. Build \in VersionSets
    BY <1>13, BuildFacts DEF ReloadRead, IInv, InstanceMinted
  <2>2. /\ walk' \in [Nodes -> [phase : {"idle", "walking", "dry", "retired"},
                                set : VersionSets, cursor : 0..NRows]]
        /\ reload' \in [Nodes -> VersionSets]
    BY <1>13, <2>1, NoSetFacts DEF ReloadRead, IInv, TypeOK, NoWalk
  <2> QED BY <1>0, <1>13, <2>2, VersionsKept DEF ReloadRead, IInv, TypeOK, NothingStranded, SetsCover
<1>14. CASE ReloadStore(n)
  <2>1. Instance
    BY <1>14 DEF ReloadStore, IInv, ReloadsInstance
  <2> QED BY <1>0, <1>14, <2>1, NoSetFacts, VersionsKept DEF ReloadStore, IInv, TypeOK, NothingStranded, SetsCover
<1>15. CASE CacheEvict(n)
  <2>1. SetsCover'
    <3>1. cache'[n] = NoSet /\ \A m \in Nodes \ {n} : cache'[m] = cache[m]
      BY <1>15 DEF CacheEvict, IInv, TypeOK
    <3>2. ~Instance => Covers(walk[n].set)
      BY DEF IInv, SetsCover
    <3> QED BY <1>15, <3>1, <3>2, NoSetFacts, SetsStep DEF CacheEvict
  <2> QED BY <1>0, <1>15, <2>1, NoSetFacts, VersionsKept DEF CacheEvict, IInv, TypeOK, NothingStranded
<1>16. CASE Restart(n)
  <2>1. Instance => Build \in VersionSets
    BY BuildFacts DEF IInv, InstanceMinted
  <2>2. /\ walk' \in [Nodes -> [phase : {"idle", "walking", "dry", "retired"},
                                set : VersionSets, cursor : 0..NRows]]
        /\ cache' \in [Nodes -> VersionSets]
        /\ reload' \in [Nodes -> VersionSets]
        /\ writer' \in [Nodes -> 0..MaxVersion]
        /\ rot' \in [Nodes -> [phase : {"idle", "prepared", "committed"}, version : 0..MaxVersion]]
    BY <1>16, <2>1, NoSetFacts DEF Restart, IInv, TypeOK, NoWalk, NoRot
  <2>3. SetsCover'
    <3>1. /\ walk'[n].set = NoSet /\ (~Instance => cache'[n] = NoSet)
          /\ \A m \in Nodes \ {n} : walk'[m].set = walk[m].set /\ cache'[m] = cache[m]
      BY <1>16 DEF Restart, IInv, TypeOK, NoWalk
    <3> QED BY <1>16, <3>1, NoSetFacts, SetsStep DEF Restart
  <2> QED BY <1>0, <1>16, <2>2, <2>3, VersionsKept DEF Restart, IInv, TypeOK, NothingStranded
<1> QED BY <1>1, <1>2, <1>3, <1>4, <1>5, <1>6, <1>7, <1>8, <1>9, <1>10, <1>11, <1>12,
           <1>13, <1>14, <1>15, <1>16 DEF NodeStep

(* Every step of the specification preserves the invariant. *)
LEMMA StepIInv == IInv /\ [Next]_vars => IInv'
<1> SUFFICES ASSUME IInv, [Next]_vars PROVE IInv'
  OBVIOUS
<1>1. ASSUME NEW r \in Rows, DeleteRow(r) PROVE IInv'
  <2>1. row' \in [Rows -> 0..MaxVersion] /\ NothingStranded'
    BY <1>1, VersionsKept, ReencryptionAssumption DEF DeleteRow, IInv, TypeOK, NothingStranded
  <2>2. SetsCover' /\ ReloadsInstance'
    BY <1>1, VersionsKept DEF DeleteRow, IInv, SetsCover, Covers, ReloadsInstance
  <2> QED BY <1>1, <2>1, <2>2, VersionsKept DEF DeleteRow, IInv, TypeOK
<1>2. CASE UNCHANGED vars
  <2>1. SetsCover' /\ ReloadsInstance'
    BY <1>2, VersionsKept DEF vars, IInv, SetsCover, Covers, ReloadsInstance
  <2> QED BY <1>2, <2>1, VersionsKept DEF vars, IInv, TypeOK, NothingStranded
<1> QED BY <1>1, <1>2, NodeStepIInv DEF Next

LEMMA IInvAlways == Spec => []IInv
BY InitIInv, StepIInv, PTL DEF Spec

(* Type correctness of the key states, caches, rotations and walks. *)
THEOREM ReencryptionTypes == Spec => []TypeOK
<1>1. IInv => TypeOK
  BY DEF IInv
<1> QED BY <1>1, IInvAlways, PTL

(* The writer fence with the retirement's dryness gate never strands a     *)
(* ciphertext under a retired version, for both kinds of scope.            *)
THEOREM NeverStranded == Spec => []NothingStranded
<1>1. IInv => NothingStranded
  BY DEF IInv
<1> QED BY <1>1, IInvAlways, PTL

(* buildVersionSet's "max(version) is active by construction".             *)
THEOREM HighestIsActive == Spec => []NewestIsActive
<1>1. IInv => NewestIsActive
  <2> SUFFICES ASSUME IInv PROVE NewestIsActive
    OBVIOUS
  <2>1. ASSUME NEW v \in Versions, NEW w \in Versions, IsActive(v), IsActive(w) PROVE v = w
    BY <2>1 DEF IInv, Ordered, IsActive, Versions
  <2>2. Openable # {} => IsActive(Newest(Openable))
    BY BuildFacts DEF IInv, Build
  <2> QED BY <2>1, <2>2 DEF NewestIsActive
<1> QED BY <1>1, IInvAlways, PTL

(* On a project scope a sealer that passes the fence opens every row.      *)
THEOREM SealersOpen == ASSUME ~Instance PROVE Spec => []CurrentSealerOpens
<1>1. IInv => CurrentSealerOpens
  BY DEF IInv, SetsCover, Covers, NothingStranded, CurrentSealerOpens
<1> QED BY <1>1, IInvAlways, PTL

(* The stored keys cover the data and the next writer, for any nodes, rows *)
(* and rotations.                                                          *)
THEOREM KeysAlwaysCover == Spec => []KeysCover
<1> QED BY ReencryptionTypes, NeverStranded, HighestIsActive, PTL DEF KeysCover

-----------------------------------------------------------------------------
(* Payloads of snapshots.                                                  *)
NewestPresent == \A e \in Envs : snapshots[e] # << >> => Present(e, Latest(e))

PinnedPresent ==
  \A w \in Workloads, e \in Envs :
    Live(pins[w][e], now) => Present(e, pins[w][e].revision)

RetentionInv ==
  /\ RetentionTypeOK
  /\ NewestPresent
  /\ PinnedPresent
  /\ HeldIsPresent
  /\ OverrideWithinCap

USE PolicyAssumption, PinAssumption, SelfConfiguredAssumption, RetentionBoundsAssumption

\* The policy in force keeps at least one revision.
LEMMA EffectivePositive == RetentionTypeOK => Effective.last \in Nat \ {0}
BY DEF RetentionTypeOK, Effective, Policies

\* A revision out of the window is not the newest.
LEMMA UnretainedIsOlder ==
  ASSUME RetentionTypeOK, NEW e \in Envs, NEW r \in DOMAIN snapshots[e], NEW at \in Nat,
         Unretained(e, r, at)
  PROVE  r # Latest(e)
<1>1. snapshots[e] \in Seq(Headers)
  BY DEF RetentionTypeOK
<1>2. Len(snapshots[e]) \in Nat /\ r \in Nat
  BY <1>1
<1> QED
  BY <1>1, <1>2, EffectivePositive DEF Unretained, OutOfWindow, Latest

LEMMA InitInv == RetentionInit => RetentionInv
<1> SUFFICES ASSUME RetentionInit PROVE RetentionInv
  OBVIOUS
<1>1. \A e \in Envs : /\ snapshots[e] \in Seq(Headers) /\ Len(snapshots[e]) = 1
                      /\ snapshots[e][1].present /\ snapshots[e] # << >>
  BY DEF RetentionInit, Headers
<1>2. RetentionTypeOK
  BY <1>1 DEF RetentionInit, RetentionTypeOK, Policies, Headers
<1>3. NewestPresent
  BY <1>1 DEF NewestPresent, Present, Latest
<1>4. PinnedPresent /\ HeldIsPresent /\ OverrideWithinCap
  BY DEF RetentionInit, PinnedPresent, HeldIsPresent, OverrideWithinCap, Live
<1> QED
  BY <1>2, <1>3, <1>4 DEF RetentionInv

\* Policies move without touching a payload.
LEMMA PolicyStep ==
  ASSUME RetentionInv, NEW p \in Policies, SetOrg(p)
  PROVE  RetentionInv'
<1> USE DEF RetentionInv, SetOrg
<1>1. RetentionTypeOK'
  BY DEF RetentionTypeOK
<1>2. OverrideWithinCap'
  BY DEF OverrideWithinCap, Within
<1>3. NewestPresent' /\ PinnedPresent' /\ HeldIsPresent'
  BY DEF NewestPresent, PinnedPresent, HeldIsPresent, Present, Latest, Live
<1> QED
  BY <1>1, <1>2, <1>3

LEMMA ProjectStep ==
  ASSUME RetentionInv, NEW p \in Bounds \cup {NoOverride}, SetProject(p)
  PROVE  RetentionInv'
<1> USE DEF RetentionInv, SetProject
<1>1. RetentionTypeOK'
  BY DEF RetentionTypeOK
<1>2. OverrideWithinCap'
  BY DEF OverrideWithinCap, Within
<1>3. NewestPresent' /\ PinnedPresent' /\ HeldIsPresent'
  BY DEF NewestPresent, PinnedPresent, HeldIsPresent, Present, Latest, Live
<1> QED
  BY <1>1, <1>2, <1>3

LEMMA PublishStep ==
  ASSUME RetentionInv, NEW e \in Envs, PublishRevision(e)
  PROVE  RetentionInv'
<1> DEFINE h == [at |-> now, present |-> TRUE]
<1>1. h \in Headers
  BY DEF RetentionInv, RetentionTypeOK, Headers
<1>2. \A f \in Envs : snapshots[f] \in Seq(Headers)
  BY DEF RetentionInv, RetentionTypeOK
<1>3. /\ snapshots' \in [Envs -> Seq(Headers)]
      /\ snapshots'[e] = Append(snapshots[e], h)
      /\ \A f \in Envs : f # e => snapshots'[f] = snapshots[f]
  BY <1>1, <1>2 DEF PublishRevision, RetentionInv, RetentionTypeOK
<1>4. \A f \in Envs : \A r \in DOMAIN snapshots[f] :
        r \in DOMAIN snapshots'[f] /\ snapshots'[f][r] = snapshots[f][r]
  <2>1. \A r \in DOMAIN snapshots[e] :
          r \in DOMAIN Append(snapshots[e], h) /\ Append(snapshots[e], h)[r] = snapshots[e][r]
    <3> DEFINE q == snapshots[e]
    <3>1. q \in Seq(Headers) /\ Len(q) \in Nat /\ DOMAIN q = 1..Len(q)
      BY <1>2
    <3>2. Append(q, h) \in Seq(Headers) /\ Len(Append(q, h)) = Len(q) + 1
      BY <1>1, <3>1
    <3>3. DOMAIN Append(q, h) = 1..(Len(q) + 1)
      BY <3>1, <3>2
    <3>4. \A r \in 1..Len(q) : Append(q, h)[r] = q[r]
      BY <1>1, <3>1
    <3> QED
      BY <3>1, <3>3, <3>4
  <2> QED
    BY <1>3, <2>1
<1>5. RetentionTypeOK'
  BY <1>3, <1>4 DEF RetentionInv, RetentionTypeOK, PublishRevision
<1>6. NewestPresent'
  BY <1>1, <1>2, <1>3 DEF RetentionInv, NewestPresent, Present, Latest
<1>7. PinnedPresent' /\ HeldIsPresent' /\ OverrideWithinCap'
  BY <1>4 DEF RetentionInv, RetentionTypeOK, PinnedPresent, HeldIsPresent, OverrideWithinCap,
              Within, Present, Live, PublishRevision
<1> QED
  BY <1>5, <1>6, <1>7 DEF RetentionInv

LEMMA DeleteStep ==
  ASSUME RetentionInv, NEW e \in Envs, DeleteEnvironment(e)
  PROVE  RetentionInv'
<1>1. /\ snapshots' \in [Envs -> Seq(Headers)] /\ snapshots'[e] = << >>
      /\ \A f \in Envs : f # e => snapshots'[f] = snapshots[f]
  BY DEF DeleteEnvironment, RetentionInv, RetentionTypeOK
<1>2. /\ pins' \in [Workloads -> [Envs -> Pins \cup {NoPin}]]
      /\ \A w \in Workloads, f \in Envs : pins'[w][f] = IF f = e THEN NoPin ELSE pins[w][f]
  BY DEF DeleteEnvironment, RetentionInv, RetentionTypeOK
<1>3. \A x \in held : x[1] # e /\ x[1] \in Envs
  BY DEF DeleteEnvironment, RetentionInv, RetentionTypeOK
<1>4. RetentionTypeOK'
  BY <1>1, <1>2, <1>3 DEF DeleteEnvironment, RetentionInv, RetentionTypeOK
<1>5. NewestPresent' /\ PinnedPresent' /\ HeldIsPresent' /\ OverrideWithinCap'
  BY <1>1, <1>2, <1>3 DEF DeleteEnvironment, RetentionInv, NewestPresent, PinnedPresent,
       HeldIsPresent, OverrideWithinCap, Within, Present, Latest, Live
<1> QED
  BY <1>4, <1>5 DEF RetentionInv

LEMMA SetPinStep ==
  ASSUME RetentionInv, NEW w \in Workloads, NEW e \in Envs, NEW r \in Nat, NEW x \in Nat,
         SetPin(w, e, r, x)
  PROVE  RetentionInv'
<1> DEFINE p == [revision |-> r, expires |-> x]
<1>0. p \in Pins /\ p # NoPin
  BY DEF Pins
<1>1. /\ pins' \in [Workloads -> [Envs -> Pins \cup {NoPin}]]
      /\ \A v \in Workloads, f \in Envs : pins'[v][f] = IF v = w /\ f = e THEN p ELSE pins[v][f]
  BY <1>0 DEF SetPin, RetentionInv, RetentionTypeOK
<1>2. r \in DOMAIN snapshots[e] /\ Present(e, r)
  BY DEF SetPin, Pinnable
<1>3. RetentionTypeOK'
  BY <1>0, <1>1, <1>2 DEF SetPin, RetentionInv, RetentionTypeOK
<1>4. PinnedPresent'
  BY <1>0, <1>1, <1>2 DEF SetPin, RetentionInv, PinnedPresent, Present, Live
<1>5. NewestPresent' /\ HeldIsPresent' /\ OverrideWithinCap'
  BY DEF SetPin, RetentionInv, NewestPresent, HeldIsPresent, OverrideWithinCap, Within, Present,
         Latest
<1> QED
  BY <1>3, <1>4, <1>5 DEF RetentionInv

LEMMA ReleasePinStep ==
  ASSUME RetentionInv, NEW w \in Workloads, NEW e \in Envs, ReleasePin(w, e)
  PROVE  RetentionInv'
<1>1. /\ pins' \in [Workloads -> [Envs -> Pins \cup {NoPin}]]
      /\ \A v \in Workloads, f \in Envs :
           pins'[v][f] = IF v = w /\ f = e THEN NoPin ELSE pins[v][f]
  BY DEF ReleasePin, RetentionInv, RetentionTypeOK
<1>2. RetentionTypeOK'
  BY <1>1 DEF ReleasePin, RetentionInv, RetentionTypeOK
<1>3. PinnedPresent'
  BY <1>1 DEF ReleasePin, RetentionInv, PinnedPresent, Present, Live
<1>4. NewestPresent' /\ HeldIsPresent' /\ OverrideWithinCap'
  BY DEF ReleasePin, RetentionInv, NewestPresent, HeldIsPresent, OverrideWithinCap, Within,
         Present, Latest
<1> QED
  BY <1>2, <1>3, <1>4 DEF RetentionInv

LEMMA HoldStep ==
  ASSUME RetentionInv,
         (\E e \in Envs, r \in Nat : Hold(e, r)) \/ (\E h \in held : LetGo(h))
  PROVE  RetentionInv'
<1>1. /\ UNCHANGED <<snapshots, org, override, pins, sweeping, now>>
      /\ \A h \in held' : \/ h \in held
                          \/ /\ h \in SelfConfigured \X Nat /\ h[2] \in DOMAIN snapshots[h[1]]
                             /\ Present(h[1], h[2])
  BY DEF Hold, LetGo
<1>2. RetentionTypeOK'
  BY <1>1 DEF RetentionInv, RetentionTypeOK
<1>3. HeldIsPresent'
  BY <1>1 DEF RetentionInv, HeldIsPresent, Present
<1>4. NewestPresent' /\ PinnedPresent' /\ OverrideWithinCap'
  BY <1>1 DEF RetentionInv, NewestPresent, PinnedPresent, OverrideWithinCap, Within, Present,
              Latest, Live
<1> QED
  BY <1>2, <1>3, <1>4 DEF RetentionInv

\* The heart: a chunk takes neither the newest revision, nor a live pin's, nor a
\* held one, although it works from an old clock reading.
LEMMA SweepStep ==
  ASSUME RetentionInv, NEW at \in Times, SweepChunk(at)
  PROVE  RetentionInv'
<1>0. now \in Nat /\ at \in Nat /\ at <= now
  BY DEF Times, RetentionInv, RetentionTypeOK
<1>1. PICK chunk \in SUBSET Eligible(at) :
        /\ snapshots' = [e \in Envs |-> [r \in DOMAIN snapshots[e] |->
             IF <<e, r>> \in chunk /\ Collectable(e, r, at)
               THEN [snapshots[e][r] EXCEPT !.present = FALSE] ELSE snapshots[e][r]]]
        /\ sweeping' = (Cardinality(chunk) >= Batch)
  BY DEF SweepChunk
<1>2. \A e \in Envs : snapshots[e] \in Seq(Headers) /\ DOMAIN snapshots[e] = 1..Len(snapshots[e])
                      /\ Len(snapshots[e]) \in Nat
  BY DEF RetentionInv, RetentionTypeOK
<1>3. \A e \in Envs : /\ DOMAIN snapshots'[e] = DOMAIN snapshots[e]
                      /\ \A r \in DOMAIN snapshots[e] : snapshots'[e][r] \in Headers
  <2> SUFFICES ASSUME NEW e \in Envs
               PROVE  /\ DOMAIN snapshots'[e] = DOMAIN snapshots[e]
                      /\ \A r \in DOMAIN snapshots[e] : snapshots'[e][r] \in Headers
    OBVIOUS
  <2>1. snapshots'[e] = [r \in DOMAIN snapshots[e] |->
             IF <<e, r>> \in chunk /\ Collectable(e, r, at)
               THEN [snapshots[e][r] EXCEPT !.present = FALSE] ELSE snapshots[e][r]]
    BY <1>1
  <2>2. \A r \in DOMAIN snapshots[e] : snapshots[e][r] \in Headers
    BY <1>2
  <2> QED
    BY <2>1, <2>2 DEF Headers
<1>4. snapshots' \in [Envs -> Seq(Headers)] /\ \A e \in Envs : Len(snapshots'[e]) = Len(snapshots[e])
  <2>1. \A e \in Envs : snapshots'[e] \in Seq(Headers) /\ Len(snapshots'[e]) = Len(snapshots[e])
    <3> SUFFICES ASSUME NEW e \in Envs
                 PROVE  snapshots'[e] \in Seq(Headers) /\ Len(snapshots'[e]) = Len(snapshots[e])
      OBVIOUS
    <3>1. snapshots'[e] = [r \in 1..Len(snapshots[e]) |-> snapshots'[e][r]]
      BY <1>1, <1>2
    <3>2. \A r \in 1..Len(snapshots[e]) : snapshots'[e][r] \in Headers
      BY <1>2, <1>3
    <3> QED
      BY <1>2, <3>1, <3>2
  <2> QED
    BY <1>1, <2>1
<1>5. \A e \in Envs, r \in Nat :
        r \in DOMAIN snapshots[e] /\ snapshots[e][r].present /\ ~snapshots'[e][r].present =>
          <<e, r>> \in Eligible(at) /\ Collectable(e, r, at)
  BY <1>1, <1>2
<1>6. \A e \in Envs, r \in Nat :
        r \in DOMAIN snapshots[e] /\ snapshots[e][r].present /\ ~snapshots'[e][r].present =>
          Unretained(e, r, at)
  BY <1>5 DEF Eligible
<1>7. UNCHANGED <<org, override, pins, held, now>>
  BY DEF SweepChunk
<1>8. RetentionTypeOK'
  BY <1>1, <1>3, <1>4, <1>7 DEF RetentionInv, RetentionTypeOK
<1>9. NewestPresent'
  <2> SUFFICES ASSUME NEW e \in Envs, snapshots'[e] # << >>
               PROVE  snapshots'[e][Len(snapshots'[e])].present
    BY DEF NewestPresent, Present, Latest
  <2>1. Len(snapshots'[e]) = Len(snapshots[e]) /\ snapshots'[e] \in Seq(Headers)
    BY <1>4
  <2>2. snapshots[e] # << >> /\ Len(snapshots[e]) \in DOMAIN snapshots[e]
    BY <1>2, <2>1
  <2>3. snapshots[e][Len(snapshots[e])].present
    BY <2>2 DEF RetentionInv, NewestPresent, Present, Latest
  <2>4. ~Unretained(e, Len(snapshots[e]), at)
    BY <1>0, <2>2, UnretainedIsOlder DEF RetentionInv, Latest
  <2> QED
    BY <1>2, <1>6, <2>1, <2>2, <2>3, <2>4
<1>10. PinnedPresent'
  <2> SUFFICES ASSUME NEW w \in Workloads, NEW e \in Envs, Live(pins[w][e], now)
               PROVE  snapshots'[e][pins[w][e].revision].present
    BY <1>7 DEF PinnedPresent, Present, Live
  <2> DEFINE r == pins[w][e].revision
  <2>1. /\ r \in DOMAIN snapshots[e] /\ r \in Nat /\ pins[w][e] \in Pins
    BY <1>2 DEF RetentionInv, RetentionTypeOK, Live, Pins
  <2>2. Live(pins[w][e], at)
    BY <1>0, <2>1 DEF Live, Pins
  <2>3. ~Collectable(e, r, at)
    BY <2>2 DEF Collectable
  <2>4. snapshots[e][r].present
    BY DEF RetentionInv, PinnedPresent, Present
  <2> QED
    BY <1>5, <2>1, <2>3, <2>4
<1>11. HeldIsPresent'
  <2> SUFFICES ASSUME NEW h \in held PROVE snapshots'[h[1]][h[2]].present
    BY <1>7 DEF HeldIsPresent, Present
  <2>1. /\ h[1] \in Envs /\ h[2] \in Nat /\ h[2] \in DOMAIN snapshots[h[1]]
        /\ h = <<h[1], h[2]>>
    BY DEF RetentionInv, RetentionTypeOK
  <2>2. ~Collectable(h[1], h[2], at)
    BY <2>1 DEF Collectable
  <2>3. snapshots[h[1]][h[2]].present
    BY DEF RetentionInv, HeldIsPresent, Present
  <2> QED
    BY <1>5, <2>1, <2>2, <2>3
<1>12. OverrideWithinCap'
  BY <1>7 DEF RetentionInv, OverrideWithinCap, Within
<1> QED
  BY <1>8, <1>9, <1>10, <1>11, <1>12 DEF RetentionInv

\* Time alone ends pins; nothing else changes.
LEMMA IdleStep ==
  ASSUME RetentionInv, Tick \/ SweepStart \/ SweepFails \/ UNCHANGED retentionVars
  PROVE  RetentionInv'
<1>1. /\ UNCHANGED <<snapshots, org, override, pins, held>>
      /\ sweeping' \in BOOLEAN /\ now' \in Nat /\ now <= now'
  <2>0. now \in Nat /\ sweeping \in BOOLEAN
    BY DEF RetentionInv, RetentionTypeOK
  <2>1. CASE Tick
    BY <2>0, <2>1 DEF Tick
  <2>2. CASE SweepStart
    BY <2>0, <2>2 DEF SweepStart
  <2>3. CASE SweepFails
    <3>1. UNCHANGED <<snapshots, org, override, pins, held, now>> /\ sweeping' = FALSE
      BY <2>3 DEF SweepFails
    <3>2. sweeping' \in BOOLEAN
      BY <3>1, Zenon
    <3>3. now' \in Nat /\ now <= now'
      BY <2>0, <3>1
    <3> QED
      BY <3>1, <3>2, <3>3, Zenon
  <2>4. CASE UNCHANGED retentionVars
    BY <2>0, <2>4 DEF retentionVars
  <2> QED
    BY <2>1, <2>2, <2>3, <2>4
<1>2. RetentionTypeOK'
  BY <1>1 DEF RetentionInv, RetentionTypeOK
<1>3. PinnedPresent'
  <2> SUFFICES ASSUME NEW w \in Workloads, NEW e \in Envs, Live(pins[w][e], now')
               PROVE  Present(e, pins[w][e].revision)
    BY <1>1 DEF PinnedPresent, Live, Present
  <2>1. pins[w][e] \in Pins /\ now \in Nat
    BY DEF Live, RetentionInv, RetentionTypeOK
  <2>2. Live(pins[w][e], now)
    BY <1>1, <2>1 DEF Live, Pins
  <2> QED
    BY <2>2 DEF RetentionInv, PinnedPresent
<1>4. NewestPresent' /\ HeldIsPresent' /\ OverrideWithinCap'
  BY <1>1 DEF RetentionInv, NewestPresent, HeldIsPresent, OverrideWithinCap, Within, Present,
              Latest
<1> QED
  BY <1>2, <1>3, <1>4 DEF RetentionInv

LEMMA NextInv == RetentionInv /\ [RetentionNext]_retentionVars => RetentionInv'
<1> SUFFICES ASSUME RetentionInv, [RetentionNext]_retentionVars PROVE RetentionInv'
  OBVIOUS
<1>0. org \in Policies /\ now \in Nat
  BY DEF RetentionInv, RetentionTypeOK
<1>1. CASE \E p \in Bounds : SetOrg(p) \/ SetProject(p)
  BY <1>1, PolicyStep, ProjectStep DEF Policies
<1>2. CASE SetOrg([org EXCEPT !.unlimited = TRUE])
  <2>1. [org EXCEPT !.unlimited = TRUE] \in Policies
    BY <1>0 DEF Policies
  <2> QED
    BY <1>2, <2>1, PolicyStep
<1>3. CASE SetProject(NoOverride)
  BY <1>3, ProjectStep
<1>4. CASE \E e \in Envs : PublishRevision(e) \/ DeleteEnvironment(e)
  BY <1>4, PublishStep, DeleteStep
<1>5. CASE \E w \in Workloads, e \in Envs : ReleasePin(w, e)
  BY <1>5, ReleasePinStep
<1>6. CASE \E w \in Workloads, e \in Envs, r \in 1..MaxRevision, x \in 1..(now + MaxPinLife) :
             SetPin(w, e, r, x)
  BY <1>0, <1>6, SetPinStep
<1>7. CASE \E e \in Envs, r \in 1..MaxRevision : Hold(e, r)
  BY <1>7, HoldStep
<1>8. CASE \E h \in held : LetGo(h)
  BY <1>8, HoldStep
<1>9. CASE \E at \in Times : SweepChunk(at)
  BY <1>9, SweepStep
<1>10. CASE SweepStart \/ SweepFails \/ Tick \/ UNCHANGED retentionVars
  BY <1>10, IdleStep
<1> QED
  BY <1>1, <1>2, <1>3, <1>4, <1>5, <1>6, <1>7, <1>8, <1>9, <1>10 DEF RetentionNext

LEMMA Inductive == RetentionSpec => []RetentionInv
<1> QED
  BY InitInv, NextInv, PTL DEF RetentionSpec

LEMMA ServedFollows == RetentionInv => FetchIsServed
BY DEF RetentionInv, NewestPresent, PinnedPresent, FetchIsServed, Selected

\* The retention state is well typed: pins and holds name revisions that exist.
THEOREM RetentionTypes == RetentionSpec => []RetentionTypeOK
<1>1. RetentionInv => RetentionTypeOK
  BY DEF RetentionInv
<1> QED
  BY <1>1, Inductive, PTL

\* A fetch without a pin or under a live one is always served, whatever the sweep,
\* the policies and the clock do.
THEOREM Served == RetentionSpec => []FetchIsServed
<1> QED
  BY ServedFollows, Inductive, PTL

\* No snapshot the self-configuration holds is ever collected.
THEOREM HeldStays == RetentionSpec => []HeldIsPresent
<1>1. RetentionInv => HeldIsPresent
  BY DEF RetentionInv
<1> QED
  BY <1>1, Inductive, PTL

\* A project's override stays within the organisation's cap.
THEOREM Capped == RetentionSpec => []OverrideWithinCap
<1>1. RetentionInv => OverrideWithinCap
  BY DEF RetentionInv
<1> QED
  BY <1>1, Inductive, PTL

\* Whatever may be fetched or is held is kept, within the organisation's cap, for
\* any policies, workloads and sweeps.
THEOREM RetentionIsSound == RetentionSpec => []RetentionSound
<1> QED
  BY Served, HeldStays, Capped, PTL DEF RetentionSound
\* No workload pins a revision the self-configuration could hold.
LEMMA PinnedIsNotHeld ==
  ASSUME RetentionTypeOK, NEW w \in Workloads
  PROVE  held = {}
BY DEF RetentionTypeOK

\* What consequence answers: the three branches come down to what the sweep's
\* selection would see without this pin.
LEMMA ConsequenceMeans ==
  ASSUME NEW w \in Workloads, NEW e \in Envs
  PROVE  Consequence(w, e) = "collection_eligible" <=>
           /\ Present(e, pins[w][e].revision)
           /\ Unretained(e, pins[w][e].revision, now)
           /\ \A v \in Workloads \ {w} :
                Live(pins[v][e], now) => pins[v][e].revision # pins[w][e].revision
<1> DEFINE r == pins[w][e].revision
           P == Present(e, r)
           U == Unretained(e, r, now)
           G == \E v \in Workloads \ {w} : Live(pins[v][e], now) /\ pins[v][e].revision = r
<1>1. Consequence(w, e) = CASE ~P -> "already_collected" [] P /\ ~U -> "retained"
                            [] P /\ U /\ G -> "retained" [] OTHER -> "collection_eligible"
  BY DEF Consequence
<1> HIDE DEF P, U, G
<1>2. Consequence(w, e) = "collection_eligible" <=> P /\ U /\ ~G
  BY <1>1
<1> QED
  BY <1>2 DEF P, U, G

\* A release is announced for what it does: the answer computed before it and the
\* selection of a sweep after it agree, for every policy and every other pin.
THEOREM ReleaseIsAnnounced == RetentionSpec => ConsequenceAgrees
<1>1. ASSUME RetentionInv, NEW w \in Workloads, NEW e \in Envs, ReleasePin(w, e)
      PROVE  Consequence(w, e) = "collection_eligible" <=>
               <<e, pins[w][e].revision>> \in Eligible(now)'
  <2>0. RetentionTypeOK
    BY <1>1 DEF RetentionInv
  <2>r. PICK r : r = pins[w][e].revision
    OBVIOUS
  <2>1. /\ pins[w][e] # NoPin /\ UNCHANGED <<snapshots, org, override, held, now>>
        /\ r \in DOMAIN snapshots[e]
    BY <1>1, <2>0, <2>r DEF ReleasePin, RetentionTypeOK
  <2>2. \A v \in Workloads : pins'[v][e] = IF v = w THEN NoPin ELSE pins[v][e]
    BY <1>1, <2>0 DEF ReleasePin, RetentionTypeOK
  <2>3. held' = {}
    BY <2>0, <2>1, PinnedIsNotHeld
  <2>4. <<e, r>> \in Revisions'
    BY <2>1 DEF Revisions
  <2>5. Present(e, r)' <=> Present(e, r)
    BY <2>1 DEF Present
  <2>6. Unretained(e, r, now)' <=> Unretained(e, r, now)
    BY <2>1 DEF Unretained, OutOfWindow, TooOld, Effective, Latest
  <2>7. Guarded(e, r, now)' <=>
          ~ \A v \in Workloads \ {w} : Live(pins[v][e], now) => pins[v][e].revision # r
    BY <2>1, <2>2, <2>3 DEF Guarded, Live
  <2>8. <<e, r>> \in Eligible(now)' <=>
          Present(e, r)' /\ Unretained(e, r, now)' /\ ~Guarded(e, r, now)'
    BY <2>4 DEF Eligible
  <2> QED
    BY <2>r, <2>5, <2>6, <2>7, <2>8, ConsequenceMeans
<1>2. RetentionInv /\ [RetentionNext]_retentionVars =>
        [\A w \in Workloads, e \in Envs :
           ReleasePin(w, e) =>
             (Consequence(w, e) = "collection_eligible"
                <=> <<e, pins[w][e].revision>> \in Eligible(now)')]_retentionVars
  BY <1>1
<1> QED
  BY <1>2, Inductive, PTL DEF RetentionSpec, ConsequenceAgrees

\* What is eligible is collected: the second look of MarkSnapshotCollected, in the
\* same transaction and with the same clock reading, refuses nothing the selection
\* took, so the chunk leaves exactly the rest eligible.
LEMMA ChunkCollects ==
  ASSUME RetentionInv, NEW at \in Times, SweepChunk(at)
  PROVE  \E chunk \in SUBSET Eligible(at) :
           /\ Eligible(at)' = Eligible(at) \ chunk
           /\ sweeping' => chunk # {}
<1>1. PICK chunk \in SUBSET Eligible(at) :
        /\ snapshots' = [e \in Envs |-> [r \in DOMAIN snapshots[e] |->
             IF <<e, r>> \in chunk /\ Collectable(e, r, at)
               THEN [snapshots[e][r] EXCEPT !.present = FALSE] ELSE snapshots[e][r]]]
        /\ sweeping' = (Cardinality(chunk) >= Batch)
  BY DEF SweepChunk
<1>2. UNCHANGED <<org, override, pins, held>>
  BY DEF SweepChunk
<1>3. \A e \in Envs : snapshots[e] \in Seq(Headers) /\ DOMAIN snapshots[e] = 1..Len(snapshots[e])
                      /\ Len(snapshots[e]) \in Nat
  BY DEF RetentionInv, RetentionTypeOK
<1>4. \A e \in Envs : \A r \in DOMAIN snapshots[e] :
        <<e, r>> \in chunk => Collectable(e, r, at)
  BY DEF Eligible, Guarded, Collectable
<1>5. ASSUME NEW e \in Envs
      PROVE  /\ DOMAIN snapshots'[e] = DOMAIN snapshots[e] /\ Latest(e)' = Latest(e)
             /\ \A r \in DOMAIN snapshots[e] :
                  /\ snapshots'[e][r].at = snapshots[e][r].at
                  /\ Present(e, r)' <=> Present(e, r) /\ <<e, r>> \notin chunk
  <2>1. snapshots'[e] = [r \in 1..Len(snapshots[e]) |->
             IF <<e, r>> \in chunk /\ Collectable(e, r, at)
               THEN [snapshots[e][r] EXCEPT !.present = FALSE] ELSE snapshots[e][r]]
    BY <1>1, <1>3
  <2>2. \A r \in 1..Len(snapshots[e]) : snapshots[e][r] \in Headers
    BY <1>3
  <2>3. DOMAIN snapshots'[e] = 1..Len(snapshots[e]) /\ Len(snapshots'[e]) = Len(snapshots[e])
    BY <1>3, <2>1
  <2>4. \A r \in 1..Len(snapshots[e]) :
          /\ snapshots'[e][r].at = snapshots[e][r].at
          /\ snapshots'[e][r].present <=> snapshots[e][r].present /\ <<e, r>> \notin chunk
    BY <1>3, <1>4, <2>1, <2>2 DEF Headers
  <2> QED
    BY <1>3, <2>3, <2>4 DEF Present, Latest
<1>6. \A e \in Envs : \A r \in DOMAIN snapshots[e] :
        /\ Unretained(e, r, at)' <=> Unretained(e, r, at)
        /\ Guarded(e, r, at)' <=> Guarded(e, r, at)
  BY <1>2, <1>5 DEF Unretained, OutOfWindow, TooOld, Effective, Guarded, Live
<1>7. Revisions' = Revisions
  BY <1>5 DEF Revisions
<1>8. \A s \in Revisions : s[1] \in Envs /\ s[2] \in DOMAIN snapshots[s[1]] /\ s = <<s[1], s[2]>>
  BY DEF Revisions
<1>9. Eligible(at)' = Eligible(at) \ chunk
  BY <1>5, <1>6, <1>7, <1>8 DEF Eligible
<1>10. sweeping' => chunk # {}
  <2>1. Cardinality({}) = 0
    BY FS_EmptySet
  <2>2. 0 >= Batch <=> FALSE
    BY PinAssumption
  <2> QED
    BY <1>1, <2>1, <2>2, Zenon
<1> QED
  BY <1>9, <1>10

\* Every chunk makes progress (Retention.Sweep): it makes nothing eligible,
\* and unless it is the last one it leaves strictly less than it found.  With
\* finitely many snapshots this is why a sweep ends; that it does is SweepEnds.
THEOREM ChunksMakeProgress ==
  RetentionSpec =>
    [][\A at \in Times : SweepChunk(at) =>
         /\ Eligible(at)' \subseteq Eligible(at)
         /\ sweeping' => Eligible(at)' # Eligible(at)]_retentionVars
<1>1. RetentionInv /\ [RetentionNext]_retentionVars =>
        [\A at \in Times : SweepChunk(at) =>
           /\ Eligible(at)' \subseteq Eligible(at)
           /\ sweeping' => Eligible(at)' # Eligible(at)]_retentionVars
  <2> SUFFICES ASSUME RetentionInv, NEW at \in Times, SweepChunk(at)
               PROVE  /\ Eligible(at)' \subseteq Eligible(at)
                      /\ sweeping' => Eligible(at)' # Eligible(at)
    OBVIOUS
  <2> QED
    BY ChunkCollects
<1> QED
  BY <1>1, Inductive, PTL DEF RetentionSpec
==============================================================================
