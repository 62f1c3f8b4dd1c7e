---------------------------- MODULE Reencryption ----------------------------
(***************************************************************************)
(* Data-encryption-key versions of ONE scope (a project, or the instance)  *)
(* and the ciphertext rows sealed under them: the writer fence             *)
(* (internal/service/fence.go), `rotate-dek` (service/rotation.go,         *)
(* crypto/keyring.go), the re-encryption walk and the retirement that      *)
(* completes it (service/reencrypt.go), over the states a version row goes *)
(* through (store/keys_mutations.go).                                      *)
(*                                                                         *)
(* Every tx.Write transaction is serializable and is one step.  What       *)
(* happens between transactions (a sealer built before, a cache evicted    *)
(* after a commit) is a step of its own, so that anything may come between.*)
(* All ciphertext tables of the scope are one ordered set of rows, because *)
(* the walk and the dryness gate share one table list and page it by id.   *)
(***************************************************************************)
EXTENDS Integers, FiniteSets

CONSTANTS Nodes,       \* processes that share the datastore
          Writers,     \* bound: the nodes on which a write may be in flight,
          Rotators,    \* a rotate-dek may run,
          Walkers,     \* a reencrypt may run
          NRows,       \* rows 1..NRows, in the order the walk pages them
          Chunk,       \* rows per walk transaction (ReencryptChunkSize)
          MaxVersion,  \* bound: no rotation past this version
          Instance,    \* TRUE: the instance scope; FALSE: a project scope
          HA,          \* haFreshness / the heartbeat tick are on
          LostAcks     \* a commit may apply although its answer is an error

ASSUME ReencryptionAssumption ==
  /\ NRows \in Nat /\ Chunk \in Nat \ {0} /\ MaxVersion \in Nat \ {0}
  /\ Instance \in BOOLEAN /\ HA \in BOOLEAN /\ LostAcks \in BOOLEAN

VARIABLES vstate,  \* tier3_keys.state per version of the scope ("none": no row)
          row,     \* version a row's ciphertext is sealed under; 0: no ciphertext
          cache,   \* per node: the cached (project) or held (instance) set
          writer,  \* per node: version of a built sealer not yet committed; 0
          rot,     \* per node: one `rotate-dek` in progress
          walk,    \* per node: one `reencrypt` in progress
          reload   \* per node: a version set read and not yet stored

vars == <<vstate, row, cache, writer, rot, walk, reload>>

Rows     == 1..NRows
Versions == 1..MaxVersion

\* An unwrapped versionSet; NoSet is a cache miss.
VersionSets == [active : 0..MaxVersion, versions : SUBSET Versions]
NoSet       == [active |-> 0, versions |-> {}]

NoRot  == [phase |-> "idle", version |-> 0]
NoWalk == [phase |-> "idle", set |-> NoSet, cursor |-> 0]

(* The scope's key rows as the store sees them. *)
Openable    == {v \in Versions : vstate[v] \in {"active", "retiring"}}
IsActive(v) == v \in Versions /\ vstate[v] = "active"
Newest(S)   == CHOOSE v \in S : \A w \in S : w <= v

(* buildVersionSet: every openable version, the highest is the active one. *)
Build == [active |-> Newest(Openable), versions |-> Openable]

(***************************************************************************)
(* projectDEKSet / ForInstance.  A cache hit is trusted on a single node;  *)
(* under HA a project hit is revalidated against the store's active        *)
(* version; the instance set is held and never revalidated on use.         *)
(***************************************************************************)
Trusted(n) == /\ cache[n] # NoSet
              /\ Instance \/ ~HA \/ IsActive(cache[n].active)

FetchSet(n) == IF Trusted(n) THEN cache[n] ELSE Build

\* set is what the call returns; a first use mints version 1.
Fetch(n, set) ==
  \/ /\ Trusted(n)
     /\ set = cache[n]
     /\ UNCHANGED <<vstate, cache>>
  \/ /\ ~Trusted(n) /\ Openable # {}
     /\ set = Build
     /\ cache' = [cache EXCEPT ![n] = Build]
     /\ UNCHANGED vstate
  \/ /\ ~Trusted(n) /\ Openable = {}
     /\ set = [active |-> 1, versions |-> {1}]
     /\ vstate' = [vstate EXCEPT ![1] = "active"]
     /\ cache' = [cache EXCEPT ![n] = set]

-----------------------------------------------------------------------------
Init ==
  /\ vstate = [v \in Versions |-> IF Instance /\ v = 1 THEN "active" ELSE "none"]
  /\ row = [r \in Rows |-> 0]
  /\ cache = [n \in Nodes |-> IF Instance THEN [active |-> 1, versions |-> {1}]
                                          ELSE NoSet]
  /\ writer = [n \in Nodes |-> 0]
  /\ rot = [n \in Nodes |-> NoRot]
  /\ walk = [n \in Nodes |-> NoWalk]
  /\ reload = [n \in Nodes |-> NoSet]

(* A write path builds its sealer and seals before its transaction. *)
WriterSeal(n) ==
  /\ n \in Writers /\ writer[n] = 0
  /\ \E set \in VersionSets : /\ Fetch(n, set)
                              /\ writer' = [writer EXCEPT ![n] = set.active]
  /\ UNCHANGED <<row, rot, walk, reload>>

\* Mutation: the write without its fence.
WriterCommitUnfenced(n, r) ==
  /\ writer[n] # 0
  /\ row' = [row EXCEPT ![r] = writer[n]]
  /\ writer' = [writer EXCEPT ![n] = 0]
  /\ UNCHANGED <<vstate, cache, rot, walk, reload>>

(* The write's transaction: the fence, then the insert or update of row r. *)
WriterCommit(n, r) ==
  /\ writer[n] # 0
  /\ IsActive(writer[n])
  /\ row' = [row EXCEPT ![r] = writer[n]]
  /\ writer' = [writer EXCEPT ![n] = 0]
  /\ UNCHANGED <<vstate, cache, rot, walk, reload>>

(* The fence refuses a sealer whose version is no longer active (409). *)
WriterRefused(n) ==
  /\ writer[n] # 0
  /\ ~IsActive(writer[n])
  /\ writer' = [writer EXCEPT ![n] = 0]
  /\ UNCHANGED <<vstate, row, cache, rot, walk, reload>>

(* A delete, or an `unset` draft: no ciphertext is written, no fence runs. *)
DeleteRow(r) ==
  /\ row[r] # 0
  /\ row' = [row EXCEPT ![r] = 0]
  /\ UNCHANGED <<vstate, cache, writer, rot, walk, reload>>

-----------------------------------------------------------------------------
(* Prepare{Project,Instance}DEKRotation: successor of the set's active. *)
RotatePrepare(n) ==
  /\ n \in Rotators /\ rot[n].phase = "idle"
  /\ \E set \in VersionSets :
       /\ Fetch(n, set)
       /\ set.active < MaxVersion
       /\ rot' = [rot EXCEPT ![n] = [phase |-> "prepared", version |-> set.active + 1]]
  /\ UNCHANGED <<row, writer, walk, reload>>

\* Mutation: demotion of whatever is active, no compare-and-swap.
RotateCommitBlind(n) ==
  /\ rot[n].phase = "prepared"
  /\ vstate' = [v \in Versions |-> IF v = rot[n].version THEN "active"
                                   ELSE IF vstate[v] = "active" THEN "retiring" ELSE vstate[v]]
  /\ rot' = [rot EXCEPT ![n].phase = "committed"]
  /\ UNCHANGED <<row, cache, writer, walk, reload>>

(* rotateDEK: compare-and-swap demotion of the predecessor, then insert. *)
RotateCommit(n) ==
  /\ rot[n].phase = "prepared"
  /\ IsActive(rot[n].version - 1)
  /\ vstate' = [vstate EXCEPT ![rot[n].version - 1] = "retiring",
                              ![rot[n].version] = "active"]
  /\ \/ rot' = [rot EXCEPT ![n].phase = "committed"]
     \/ LostAcks /\ rot' = [rot EXCEPT ![n] = NoRot]
  /\ UNCHANGED <<row, cache, writer, walk, reload>>

(* ErrRotationSuperseded. *)
RotateRefused(n) ==
  /\ rot[n].phase = "prepared"
  /\ ~IsActive(rot[n].version - 1)
  /\ rot' = [rot EXCEPT ![n] = NoRot]
  /\ UNCHANGED <<vstate, row, cache, writer, walk, reload>>

(* adopt(): evict the project set; swap a larger instance set in. *)
Adopted(n) ==
  IF ~Instance THEN NoSet
  ELSE IF rot[n].version <= cache[n].active THEN cache[n]
  ELSE [active |-> rot[n].version, versions |-> cache[n].versions \cup {rot[n].version}]

RotateAdopt(n) ==
  /\ rot[n].phase = "committed"
  /\ cache' = [cache EXCEPT ![n] = Adopted(n)]
  /\ rot' = [rot EXCEPT ![n] = NoRot]
  /\ UNCHANGED <<vstate, row, writer, walk, reload>>

-----------------------------------------------------------------------------
(* ReencryptProject / ReencryptInstance: one sealer for the whole walk. *)
WalkStart(n) ==
  /\ n \in Walkers /\ walk[n].phase = "idle"
  /\ \E set \in VersionSets :
       /\ Fetch(n, set)
       /\ walk' = [walk EXCEPT ![n] = [phase |-> "walking", set |-> set, cursor |-> 0]]
  /\ UNCHANGED <<row, writer, rot, reload>>

\* The rows of the next chunk: the first Chunk rows past the cursor.
Page(c) == {r \in Rows : /\ r > c /\ row[r] # 0
                         /\ Cardinality({s \in Rows : c < s /\ s <= r /\ row[s] # 0}) <= Chunk}

\* A project sealer opens with its own set, an instance sealer with the live one.
Opener(n) == IF Instance THEN cache[n].versions ELSE walk[n].set.versions

CanOpen(n, rows) == \A r \in rows : row[r] \in Opener(n) \cup {walk[n].set.active}

\* Mutation: the cursor moves one past the last row of the chunk.
WalkChunkSkips(n) ==
  LET target == walk[n].set.active
      page   == Page(walk[n].cursor)
  IN /\ walk[n].phase = "walking"
     /\ IsActive(target)
     /\ CanOpen(n, page)
     /\ row' = [r \in Rows |-> IF r \in page THEN target ELSE row[r]]
     /\ walk' = [walk EXCEPT
                   ![n].cursor = IF page = {} THEN walk[n].cursor ELSE Newest(page) + 1,
                   ![n].phase  = IF Cardinality(page) < Chunk THEN "dry" ELSE "walking"]
     /\ UNCHANGED <<vstate, cache, writer, rot, reload>>

(* walkTable / walkInstance through walkChunked: one chunk transaction. *)
WalkChunk(n) ==
  LET target == walk[n].set.active
      page   == Page(walk[n].cursor)
  IN /\ walk[n].phase = "walking"
     /\ IsActive(target)
     /\ CanOpen(n, page)
     /\ row' = [r \in Rows |-> IF r \in page THEN target ELSE row[r]]
     /\ \E c \in 0..NRows :
          /\ IF page = {} THEN c = walk[n].cursor
                          ELSE c \in page /\ \A r \in page : r <= c
          /\ walk' = [walk EXCEPT
                        ![n].cursor = c,
                        ![n].phase  = IF Cardinality(page) < Chunk THEN "dry" ELSE "walking"]
     /\ UNCHANGED <<vstate, cache, writer, rot, reload>>

(* The chunk's fence or an open fails, the caller's context ends, or the   *)
(* answer of a committed chunk is lost: the walk stops where it is.        *)
WalkAbort(n) ==
  /\ walk[n].phase \in {"walking", "dry"}
  /\ walk' = [walk EXCEPT ![n] = NoWalk]
  /\ UNCHANGED <<vstate, row, cache, writer, rot, reload>>

Dry(v) == \A r \in Rows : row[r] \in {0, v}

(* retireProject / retireInstance: the fence, the dryness gate over every  *)
(* table, then every retiring version of the scope is retired.             *)
Retire(n) ==
  /\ walk[n].phase = "dry"
  /\ IsActive(walk[n].set.active)
  /\ Dry(walk[n].set.active)
  /\ vstate' = [v \in Versions |-> IF vstate[v] = "retiring" THEN "retired" ELSE vstate[v]]
  /\ \/ walk' = [walk EXCEPT ![n].phase = "retired"]
     \/ LostAcks /\ walk' = [walk EXCEPT ![n] = NoWalk]
  /\ UNCHANGED <<row, cache, writer, rot, reload>>

(* EvictProjectDEK after a project's retirement. *)
WalkEvict(n) ==
  /\ ~Instance
  /\ walk[n].phase = "retired"
  /\ cache' = [cache EXCEPT ![n] = NoSet]
  /\ walk' = [walk EXCEPT ![n] = NoWalk]
  /\ UNCHANGED <<vstate, row, writer, rot, reload>>

\* Mutation: the heartbeat no longer reloads the instance set.
ReloadReadOwnWalk(n) ==
  /\ Instance
  /\ reload[n] = NoSet
  /\ reload' = [reload EXCEPT ![n] = Build]
  /\ walk[n].phase = "retired" /\ walk' = [walk EXCEPT ![n] = NoWalk]
  /\ UNCHANGED <<vstate, row, cache, writer, rot>>

(* ReloadInstanceDEK, first half: after a retirement, or on an HA tick. *)
ReloadRead(n) ==
  /\ Instance
  /\ reload[n] = NoSet
  /\ reload' = [reload EXCEPT ![n] = Build]
  /\ \/ walk[n].phase = "retired" /\ walk' = [walk EXCEPT ![n] = NoWalk]
     \/ HA /\ UNCHANGED walk
  /\ UNCHANGED <<vstate, row, cache, writer, rot>>

(* Second half: k.instance.Store of the set read before, unconditionally. *)
ReloadStore(n) ==
  /\ reload[n] # NoSet
  /\ cache' = [cache EXCEPT ![n] = reload[n]]
  /\ reload' = [reload EXCEPT ![n] = NoSet]
  /\ UNCHANGED <<vstate, row, writer, rot, walk>>

-----------------------------------------------------------------------------
(* The 1024-entry LRU pushes the scope out. *)
CacheEvict(n) ==
  /\ ~Instance
  /\ cache[n] # NoSet
  /\ cache' = [cache EXCEPT ![n] = NoSet]
  /\ UNCHANGED <<vstate, row, writer, rot, walk, reload>>

(* A process dies and boots again: everything in memory is rebuilt. *)
Restart(n) ==
  /\ cache' = [cache EXCEPT ![n] = IF Instance THEN Build ELSE NoSet]
  /\ writer' = [writer EXCEPT ![n] = 0]
  /\ rot' = [rot EXCEPT ![n] = NoRot]
  /\ walk' = [walk EXCEPT ![n] = NoWalk]
  /\ reload' = [reload EXCEPT ![n] = NoSet]
  /\ UNCHANGED <<vstate, row>>

NodeStep(n) ==
  \/ WriterSeal(n) \/ WriterRefused(n) \/ \E r \in Rows : WriterCommit(n, r)
  \/ RotatePrepare(n) \/ RotateCommit(n) \/ RotateRefused(n) \/ RotateAdopt(n)
  \/ WalkStart(n) \/ WalkChunk(n) \/ WalkAbort(n) \/ Retire(n) \/ WalkEvict(n)
  \/ ReloadRead(n) \/ ReloadStore(n)
  \/ CacheEvict(n) \/ Restart(n)

Next == (\E n \in Nodes : NodeStep(n)) \/ (\E r \in Rows : DeleteRow(r))

Spec == Init /\ [][Next]_vars

\* A goroutine that committed goes on to its next statement; the HA
\* heartbeat ticks for ever and finishes each reload.
FairSpec ==
  /\ Spec
  /\ \A n \in Nodes : /\ WF_vars(RotateAdopt(n))
                      /\ WF_vars(ReloadRead(n))
                      /\ WF_vars(ReloadStore(n))

-----------------------------------------------------------------------------
TypeOK ==
  /\ vstate \in [Versions -> {"none", "active", "retiring", "retired"}]
  /\ row \in [Rows -> 0..MaxVersion]
  /\ cache \in [Nodes -> VersionSets]
  /\ writer \in [Nodes -> 0..MaxVersion]
  /\ rot \in [Nodes -> [phase : {"idle", "prepared", "committed"}, version : 0..MaxVersion]]
  /\ walk \in [Nodes -> [phase : {"idle", "walking", "dry", "retired"},
                         set : VersionSets, cursor : 0..NRows]]
  /\ reload \in [Nodes -> VersionSets]

(* Rotation completeness: whatever writers, walks, rotations, lost answers *)
(* and restarts interleave, no ciphertext is left under a retired (or      *)
(* never stored) DEK version, so no retirement makes data unreadable.      *)
NothingStranded == \A r \in Rows : row[r] # 0 => row[r] \in Openable

(* buildVersionSet carries no state column and takes the highest openable  *)
(* version for the active one: that version must be the store's only       *)
(* active one, or a rebuilt set would seal under a key the fence refuses.  *)
NewestIsActive ==
  /\ \A v, w \in Versions : IsActive(v) /\ IsActive(w) => v = w
  /\ Openable # {} => IsActive(Newest(Openable))

(* The stored keys cover the stored data and the next writer               *)
(* (RetireDEKVersion after the walk, AssertActiveDEK at every commit):     *)
(* nothing is stranded and the version a rebuilt set seals under is the    *)
(* active one.                                                             *)
KeysCover == TypeOK /\ NothingStranded /\ NewestIsActive

(* A project sealer whose active version is still the store's active one   *)
(* opens every ciphertext of the scope, whether it was cached on another   *)
(* node before a retirement, is held by a walk, or would be fetched now;   *)
(* so a walk that passes its fence is never stopped by a row it cannot     *)
(* open, and a read with a fresh sealer never fails.                       *)
CurrentSealerOpens ==
  \A n \in Nodes :
    \A set \in {cache[n], walk[n].set} :
      IsActive(set.active) => \A r \in Rows : row[r] # 0 => row[r] \in set.versions

(* What a sealer fetched now on n would seal under is no longer active.    *)
StaleFetch(n) == Openable # {} /\ ~IsActive(FetchSet(n).active)

(* The writer fence's promise: a refused caller that fetches a sealer      *)
(* again gets a current one, so no node goes on refusing its own writes    *)
(* for ever after a rotation (here or on another node).                    *)
FenceClears == \A n \in Nodes : StaleFetch(n) ~> ~StaleFetch(n)

(* InstanceSealer.OpenField resolves a record's version in the set held    *)
(* now: the only process of an instance can open every instance credential *)
(* it has stored, whatever rotations and walks run beside the reads.       *)
ReadsResolve == \A n \in Nodes : \A r \in Rows : row[r] # 0 => row[r] \in cache[n].versions
=============================================================================
