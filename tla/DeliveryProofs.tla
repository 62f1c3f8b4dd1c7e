--------------------------- MODULE DeliveryProofs ---------------------------
(***************************************************************************)
(* Proofs about the two ways values leave the instance, FileSync and       *)
(* AdapterRuntime, for any names, revisions, workers, generations, faults  *)
(* and any clock.                                                          *)
(*                                                                         *)
(* FileSync: readers always find a complete generation (GenInv), no name   *)
(* is lost and nothing that is not the client's is touched but in the      *)
(* windows that ForeignKept and NoNameLost name (WindowInv, over DropInv), *)
(* and what a saved cursor claims is so until the configuration is edited  *)
(* twice (ClaimInv).                                                       *)
(*                                                                         *)
(* AdapterRuntime: the outbox is sound (QueueInv), names that are somebody *)
(* else's are never written (ForeignInv), no delivery goes back to an      *)
(* older revision (DeliveryInv), a target that reports a revision holds it *)
(* (ReportInv), and while attempts do not overlap what was delivered stays *)
(* in custody (CustodyInv).                                                *)
(***************************************************************************)
EXTENDS FileSync, AdapterRuntime, TLAPS

(***************************************************************************)
(* File sync                                                               *)
(***************************************************************************)

Pcs == {"idle", "claim", "claiming", "preflight", "stage", "staging", "retain", "renamed",
        "swapped", "links", "prune", "collect", "save", "saved"}

Passes == [pc : Pcs, config : Configs \cup {NoPass.config}, rev : 0..MaxRev, live : BOOLEAN,
           old : 0..MaxGen, new : 0..MaxGen, removed : SUBSET FileNames, todo : SUBSET FileNames,
           checked : SUBSET FileNames, created : BOOLEAN]

\* A pass under way has a configuration and a revision, and holds a checked
\* name only where names are retained or pruned.
PassTyped ==
  /\ proc \in Passes
  /\ proc.pc = "idle" => proc = NoPass
  /\ proc.pc # "idle" => proc.config \in Configs /\ proc.rev \in Revs
  /\ proc.pc \notin {"retain", "prune"} => proc.checked = {}

Types == TypeOK /\ PassTyped

States == {"none", "torn", "husk", "complete"}
Generations == [state : States, stamp : Stamps \cup {NoGen.stamp}, prev : 0..MaxGen]
Entries == {"none", "ours", "foreign", "kept"}

(* What a directory is made of. *)
LEMMA DirFields ==
  ASSUME NEW d \in Dirs
  PROVE  /\ d.gen \in [Gens -> Generations] /\ d.current \in 0..MaxGen
         /\ d.link \in [FileNames -> Entries]
         /\ d = [gen |-> d.gen, current |-> d.current, link |-> d.link]
BY DEF Dirs, Generations, States, Entries

LEMMA DirOf ==
  ASSUME NEW gen \in [Gens -> Generations], NEW c \in 0..MaxGen, NEW link \in [FileNames -> Entries]
  PROVE  [gen |-> gen, current |-> c, link |-> link] \in Dirs
BY DEF Dirs, Generations, States, Entries

\* The two ways a step changes a directory: one generation, or one entry.
LEMMA WithGeneration ==
  ASSUME NEW d \in Dirs, NEW g \in Gens, NEW x \in Generations
  PROVE  LET e == [d EXCEPT !.gen[g] = x]
         IN  /\ e \in Dirs
             /\ e.gen[g] = x /\ \A h \in Gens : h # g => e.gen[h] = d.gen[h]
             /\ e.current = d.current /\ e.link = d.link
BY DirFields DEF Dirs, Generations, States, Entries

LEMMA WithEntry ==
  ASSUME NEW d \in Dirs, NEW n \in FileNames, NEW x \in Entries
  PROVE  LET e == [d EXCEPT !.link[n] = x]
         IN  /\ e \in Dirs
             /\ e.link[n] = x /\ \A m \in FileNames : m # n => e.link[m] = d.link[m]
             /\ e.current = d.current /\ e.gen = d.gen
BY DirFields DEF Dirs, Entries

\* ... and the two ways it syncs one.
LEMMA Synced ==
  ASSUME disk \in Dirs, NEW f \in Dirs
  PROVE  /\ GenSynced(f) \in Dirs /\ GenSynced(f).gen = f.gen /\ GenSynced(f).current = f.current
         /\ GenSynced(f).link = disk.link
         /\ TopSynced(f) \in Dirs /\ TopSynced(f).link = f.link
         /\ TopSynced(f).gen = disk.gen /\ TopSynced(f).current = disk.current
BY DEF GenSynced, TopSynced, Dirs

LEMMA NoGenTyped == NoGen \in Generations
BY FileSyncAssumption DEF NoGen, Generations, States

\* A pass that is over.
LEMMA NoPassTyped ==
  /\ NoPass \in Passes /\ NoPass.pc = "idle" /\ NoPass.checked = {} /\ NoPass.todo = {}
  /\ NoPass.removed = {} /\ NoPass.old = 0 /\ NoPass.new = 0
BY FileSyncAssumption DEF NoPass, Passes, Pcs

LEMMA StampTyped ==
  ASSUME PassTyped, proc.pc # "idle"
  PROVE  Stamp(proc) \in Stamps
BY DEF PassTyped, Stamp, Stamps, Configs

-----------------------------------------------------------------------------
(* Types.                                                                  *)
LEMMA TypesInit == Init => Types
<1> SUFFICES ASSUME Init PROVE Types
  OBVIOUS
<1>1. fsys \in Dirs /\ disk \in Dirs
  BY FileSyncAssumption, DirOf, NoGenTyped DEF Init, Entries
<1>2. PassTyped
  BY NoPassTyped DEF Init, PassTyped
<1>3. cursor \in [rev : 0..MaxRev, config : Configs \cup {NoPass.config},
                  stamp : Stamps \cup {NoGen.stamp}]
  BY FileSyncAssumption DEF Init, NoCursor
<1> QED
  BY <1>1, <1>2, <1>3, NoPassTyped, FileSyncAssumption DEF Init, Types, TypeOK, Revs

\* What TypeOK says of the pass.
PassBounds == /\ proc.old \in 0..MaxGen /\ proc.new \in 0..MaxGen
              /\ proc.removed \subseteq FileNames /\ proc.todo \subseteq FileNames
              /\ proc.checked \subseteq proc.todo

LEMMA OverTyped ==
  ASSUME proc' = NoPass
  PROVE  PassTyped' /\ PassBounds'
BY NoPassTyped, FileSyncAssumption DEF PassTyped, PassBounds

LEMMA StartPassTypes ==
  ASSUME Types, NEW live \in BOOLEAN, StartPass(live)
  PROVE  Types'
<1> DEFINE r == IF live THEN rev ELSE snap
<1>0. r \in Revs
  BY FileSyncAssumption DEF Types, TypeOK, StartPass, Revs
<1>2. proc' = [NoPass EXCEPT !.pc = "claim", !.live = live, !.config = config, !.rev = r]
  BY Zenon DEF StartPass
<1> HIDE DEF r
<1>1. /\ proc'.config = config /\ proc'.rev \in Revs /\ proc'.pc = "claim" /\ proc' \in Passes
      /\ proc'.checked = {} /\ proc'.todo = {} /\ proc'.old = 0 /\ proc'.new = 0 /\ proc'.removed = {}
  <2>1. /\ proc'.config = config /\ proc'.rev = r /\ proc'.pc = "claim" /\ proc'.live = live
        /\ proc'.checked = {} /\ proc'.todo = {} /\ proc'.old = 0 /\ proc'.new = 0 /\ proc'.removed = {}
    BY <1>2 DEF NoPass
  <2>2. proc' \in Passes
    <3>1. r \in 0..MaxRev /\ config \in Configs
      BY <1>0, FileSyncAssumption DEF Types, TypeOK, Revs
    <3> QED
      BY <1>2, <3>1, NoPassTyped DEF Passes, Pcs
  <2> QED
    BY <2>1, <2>2, <1>0
<1> QED
  BY <1>1, FileSyncAssumption DEF Types, TypeOK, PassTyped, StartPass, Rest

LEMMA QuietTypes ==
  ASSUME Types,
         \/ ClaimBinding \/ WriteBinding \/ SaveSnapshot \/ SaveCursor \/ Stop
         \/ EditConfig \/ NewRevision \/ ReaderResolves
         \/ \E n \in FileNames : RetainCheck(n) \/ PruneCheck(n)
  PROVE  Types'
<1>1. CASE ClaimBinding
  <2>1. CASE binding = "empty"
    BY <1>1, <2>1, OverTyped DEF ClaimBinding, Types, TypeOK, PassBounds, Env
  <2>2. CASE binding = "none"
    BY <1>1, <2>2 DEF ClaimBinding, Types, TypeOK, PassTyped, Env
  <2>3. CASE binding = "dir"
    BY <1>1, <2>3 DEF ClaimBinding, Types, TypeOK, PassTyped, Passes, Pcs, Env
  <2>4. CASE binding = "ours"
    BY <1>1, <2>4 DEF ClaimBinding, Types, TypeOK, PassTyped, Passes, Pcs, Env
  <2> QED
    BY <2>1, <2>2, <2>3, <2>4 DEF Types, TypeOK
<1>2. CASE WriteBinding
  BY <1>2 DEF WriteBinding, Types, TypeOK, PassTyped, Passes, Pcs, Env
<1>3. CASE SaveSnapshot
  BY <1>3, FileSyncAssumption DEF SaveSnapshot, Types, TypeOK, PassTyped, Passes, Pcs, Env, Revs
<1>4. CASE SaveCursor
  <2>1. PassTyped' /\ PassBounds'
    BY <1>4, OverTyped DEF SaveCursor
  <2>2. cursor' \in [rev : 0..MaxRev, config : Configs \cup {NoPass.config},
                     stamp : Stamps \cup {NoGen.stamp}]
    BY <1>4, StampTyped, FileSyncAssumption DEF SaveCursor, Types, PassTyped, Revs
  <2> QED
    BY <1>4, <2>1, <2>2 DEF SaveCursor, Types, TypeOK, Env, PassBounds
<1>5. CASE Stop
  BY <1>5, OverTyped DEF Stop, Types, TypeOK, PassBounds
<1>6. CASE EditConfig
  BY <1>6 DEF EditConfig, Types, TypeOK, PassTyped
<1>7. CASE NewRevision
  BY <1>7, FileSyncAssumption DEF NewRevision, Types, TypeOK, PassTyped, Revs
<1>8. CASE ReaderResolves
  BY <1>8, DirFields DEF ReaderResolves, Types, TypeOK, PassTyped, Env
<1>9. ASSUME NEW n \in FileNames, RetainCheck(n) PROVE Types'
  BY <1>9, NoPassTyped DEF RetainCheck, Types, TypeOK, PassTyped, Passes, Pcs, Rest
<1>10. ASSUME NEW n \in FileNames, PruneCheck(n) PROVE Types'
  BY <1>10 DEF PruneCheck, Types, TypeOK, PassTyped, Passes, Pcs, Rest
<1> QED
  BY <1>1, <1>2, <1>3, <1>4, <1>5, <1>6, <1>7, <1>8, <1>9, <1>10

LEMMA LinkTypes ==
  ASSUME Types,
         \/ LinksDone \/ PruneDone \/ RetainSynced
         \/ \E n \in FileNames : \/ RetainRename(n) \/ Link(n) \/ PruneRemove(n)
                             \/ UserPlaces(n) \/ UserTakes(n)
  PROVE  Types'
<1>0. fsys \in Dirs /\ disk \in Dirs
  BY DEF Types, TypeOK
<1>1. CASE LinksDone
  <2>1. disk' \in Dirs
    BY <1>0, <1>1, Synced DEF LinksDone
  <2> QED
    BY <1>1, <2>1 DEF LinksDone, Types, TypeOK, PassTyped, Passes, Pcs, Rest
<1>2. CASE PruneDone
  <2>1. disk' \in Dirs
    BY <1>0, <1>2, Synced DEF PruneDone
  <2> QED
    BY <1>2, <2>1 DEF PruneDone, Types, TypeOK, PassTyped, Passes, Pcs, Rest
<1>3. ASSUME NEW n \in FileNames, RetainRename(n) PROVE Types'
  <2>1. fsys' \in Dirs
    BY <1>0, <1>3, WithEntry DEF RetainRename, Entries
  <2> QED
    BY <1>3, <2>1 DEF RetainRename, Types, TypeOK, PassTyped, Passes, Pcs, Rest
<1>4. ASSUME NEW n \in FileNames, Link(n) PROVE Types'
  <2>1. CASE Unmanaged(n)
    BY <1>4, <2>1, OverTyped DEF Link, Types, TypeOK, PassBounds, Rest
  <2>2. CASE ~Unmanaged(n)
    <3>1. fsys' \in Dirs
      <4>1. fsys' = [fsys EXCEPT !.link[n] = "ours"]
        BY <1>4, <2>2, Zenon DEF Link
      <4> QED
        BY <1>0, <4>1, WithEntry DEF Entries
    <3>2. proc' = [proc EXCEPT !.todo = @ \ {n}, !.created = @ \/ ~Ours(n)] /\ proc.pc = "links"
      BY <1>4, <2>2 DEF Link
    <3> HIDE DEF Ours
    <3>3. (proc.created \/ ~Ours(n)) \in BOOLEAN
      OBVIOUS
    <3> QED
      BY <1>4, <3>1, <3>2, <3>3 DEF Link, Types, TypeOK, PassTyped, Passes, Pcs, Rest
  <2> QED
    BY <2>1, <2>2
<1>5. ASSUME NEW n \in FileNames, PruneRemove(n) PROVE Types'
  <2>1. fsys' \in Dirs
    BY <1>0, <1>5, WithEntry DEF PruneRemove, Entries
  <2> QED
    BY <1>5, <2>1 DEF PruneRemove, Types, TypeOK, PassTyped, Passes, Pcs, Rest
<1>6. ASSUME NEW n \in FileNames, UserPlaces(n) \/ UserTakes(n) PROVE Types'
  <2>1. PICK x \in Entries : /\ fsys' = [fsys EXCEPT !.link[n] = x]
                             /\ disk' = [disk EXCEPT !.link[n] = x]
    BY <1>6, Zenon DEF UserPlaces, UserTakes, Entries
  <2>2. fsys' \in Dirs /\ disk' \in Dirs
    BY <1>0, <2>1, WithEntry
  <2> QED
    BY <1>6, <2>2 DEF UserPlaces, UserTakes, Types, TypeOK, PassTyped, Rest
<1>7. CASE RetainSynced
  <2>1. disk' \in Dirs
    BY <1>0, <1>7, Synced DEF RetainSynced
  <2> QED
    BY <1>7, <2>1 DEF RetainSynced, Types, TypeOK, PassTyped, Passes, Pcs, Rest
<1> QED
  BY <1>1, <1>2, <1>3, <1>4, <1>5, <1>6, <1>7

\* What recover leaves: torn generations but the current one are gone.
LEMMA RecoveredDir ==
  ASSUME fsys \in Dirs
  PROVE  /\ Recovered \in Dirs /\ Recovered.current = fsys.current /\ Recovered.link = fsys.link
         /\ \A g \in Gens : Recovered.gen[g] =
              IF g # fsys.current /\ fsys.gen[g].state = "torn" THEN NoGen ELSE fsys.gen[g]
<1> DEFINE gen == [g \in Gens |-> IF g # fsys.current /\ fsys.gen[g].state = "torn"
                                  THEN NoGen ELSE fsys.gen[g]]
<1>1. gen \in [Gens -> Generations]
  BY DirFields, NoGenTyped
<1>2. Recovered = [gen |-> gen, current |-> fsys.current, link |-> fsys.link]
  BY DirFields DEF Recovered
<1> QED
  BY <1>1, <1>2, DirFields, DirOf

\* The pass as Preflight sees it.
Judged == [proc EXCEPT !.removed = Removed(proc), !.old = fsys.current]

LEMMA JudgedPass ==
  ASSUME Types, proc.pc = "preflight"
  PROVE  /\ Judged \in Passes /\ Judged.pc = "preflight" /\ Judged.checked = {}
         /\ Judged.todo = proc.todo
         /\ Judged.config = proc.config /\ Judged.rev = proc.rev
         /\ Judged.removed = Removed(proc) /\ Judged.old = fsys.current
<1>1. Removed(proc) \subseteq FileNames
  <2>1. Files(fsys, fsys.current) \subseteq FileNames
    BY DirFields DEF Types, TypeOK, Files, Generations, Stamps, NoGen
  <2> QED
    BY <2>1 DEF Removed
<1>2. fsys.current \in 0..MaxGen
  BY DirFields DEF Types, TypeOK
<1> HIDE DEF Removed
<1> QED
  BY <1>1, <1>2 DEF Judged, Types, PassTyped, Passes, Pcs

\* Preflight gives up, reuses the current generation, or goes on to stage.
LEMMA PreflightCases ==
  ASSUME Preflight
  PROVE  \/ proc' = NoPass
         \/ /\ proc' = Reuse(Judged)
            /\ Complete(fsys, fsys.current) /\ fsys.gen[fsys.current].stamp = Stamp(Judged)
            /\ Judged.config.onRemoved = "refuse" => Judged.removed = {}
         \/ /\ proc' = [Judged EXCEPT !.pc = "stage"]
            /\ Judged.config.onRemoved = "refuse" => Judged.removed = {}
<1> DEFINE foreign == \E n \in Judged.config.files : Unmanaged(n)
           clear   == \A n \in Judged.config.files : ~Unmanaged(n)
           refused == Judged.removed # {} /\ Judged.config.onRemoved = "refuse"
           same    == Complete(fsys, fsys.current) /\ fsys.gen[fsys.current].stamp = Stamp(Judged)
<1>1. (CASE foreign -> proc' = NoPass
        [] clear /\ refused -> proc' = NoPass
        [] OTHER -> proc' = IF same THEN Reuse(Judged) ELSE [Judged EXCEPT !.pc = "stage"])
  BY DEF Preflight, Judged
<1>2. foreign \/ clear
  OBVIOUS
<1> HIDE DEF foreign, clear, same
<1> QED
  BY <1>1, <1>2 DEF same

LEMMA PreflightTypes ==
  ASSUME Types, Preflight
  PROVE  Types'
<1>0. proc.pc = "preflight"
  BY DEF Preflight
<1>1. PassTyped' /\ PassBounds'
  <2> USE JudgedPass, <1>0
  <2>1. CASE proc' = NoPass
    BY <2>1, OverTyped
  <2>2. CASE proc' = [Judged EXCEPT !.pc = "stage"]
    <3> HIDE DEF Judged
    <3> QED
      BY <2>2 DEF Types, TypeOK, PassTyped, PassBounds, Passes, Pcs
  <2>3. CASE proc' = Reuse(Judged) /\ Complete(fsys, fsys.current)
    <3>1. fsys.current \in Gens /\ fsys.gen[fsys.current].prev \in 0..MaxGen
      BY <2>3, DirFields DEF Types, TypeOK, Complete, Generations
    <3>2. Judged.config.files \subseteq FileNames
      BY DEF Types, PassTyped, Configs
    <3> HIDE DEF Judged
    <3> QED
      BY <2>3, <3>1, <3>2 DEF Types, TypeOK, PassTyped, PassBounds, Passes, Pcs, Reuse, Gens
  <2> QED
    BY <2>1, <2>2, <2>3, PreflightCases
<1>2. fsys' \in Dirs
  BY RecoveredDir DEF Types, TypeOK, Preflight
<1> QED
  BY <1>1, <1>2 DEF Types, TypeOK, PassBounds, Preflight, Rest

\* A generation with another state.
LEMMA Restated ==
  ASSUME NEW d \in Dirs, NEW g \in Gens, NEW s \in States
  PROVE  LET e == [d EXCEPT !.gen[g].state = s]
         IN  /\ e \in Dirs
             /\ e.gen[g].state = s /\ e.gen[g].stamp = d.gen[g].stamp /\ e.gen[g].prev = d.gen[g].prev
             /\ \A h \in Gens : h # g => e.gen[h] = d.gen[h]
             /\ e.current = d.current /\ e.link = d.link
<1> DEFINE x == [d.gen[g] EXCEPT !.state = s]
<1>1. x \in Generations /\ x.state = s /\ x.stamp = d.gen[g].stamp /\ x.prev = d.gen[g].prev
  BY DirFields DEF Generations
<1>2. [d EXCEPT !.gen[g].state = s] = [d EXCEPT !.gen[g] = x]
  BY DirFields
<1> HIDE DEF x
<1> QED
  BY <1>1, <1>2, WithGeneration

LEMMA StagingTypes ==
  ASSUME Types, Stage \/ Staged \/ StageFails \/ Swap \/ SwapSynced,
         proc.pc = "staging" => proc.new \in Gens
  PROVE  Types'
<1>0. fsys \in Dirs /\ disk \in Dirs /\ nextGen \in 1..(MaxGen + 1)
  BY DEF Types, TypeOK
<1>1. CASE Stage
  <2>1. nextGen \in Gens /\ nextGen + 1 \in 1..(MaxGen + 1)
    BY <1>0, <1>1, FileSyncAssumption DEF Stage, Gens
  <2>2. [state |-> "torn", stamp |-> Stamp(proc), prev |-> proc.old] \in Generations
    BY <1>1, StampTyped DEF Stage, Types, TypeOK, Generations, States
  <2>3. fsys' \in Dirs
    BY <1>0, <1>1, <2>1, <2>2, WithGeneration DEF Stage
  <2>4. nextGen \in 0..MaxGen
    BY <2>1 DEF Gens
  <2>5. PassTyped' /\ PassBounds'
    BY <1>1, <2>4 DEF Stage, Types, TypeOK, PassTyped, PassBounds, Passes, Pcs
  <2> QED
    BY <1>1, <2>1, <2>3, <2>5 DEF Stage, Types, TypeOK, PassBounds, Rest
<1>2. ASSUME proc.pc = "staging" PROVE Marked \in Dirs
  BY <1>0, <1>2, Restated DEF Marked, States
<1>3. CASE Staged
  <2>1. fsys' \in Dirs /\ disk' \in Dirs /\ proc.pc = "staging"
    BY <1>0, <1>2, <1>3, Synced DEF Staged
  <2> QED
    BY <1>3, <2>1 DEF Staged, Types, TypeOK, PassTyped, Passes, Pcs, Rest
<1>4. CASE StageFails
  <2>1. fsys' \in Dirs /\ disk' \in Dirs
    BY <1>0, <1>2, <1>4, Synced, WithGeneration, NoGenTyped DEF StageFails
  <2> QED
    BY <1>4, <2>1, OverTyped DEF StageFails, Types, TypeOK, PassBounds
<1>5. CASE Swap
  <2>1. fsys' \in Dirs
    BY <1>0, <1>5 DEF Swap, Types, TypeOK, Dirs
  <2>2. reader' \in [gen : 0..MaxGen, behind : 0..2]
    BY <1>5 DEF Swap, Types, TypeOK
  <2> QED
    BY <1>5, <2>1, <2>2 DEF Swap, Types, TypeOK, PassTyped, Passes, Pcs, Env
<1>6. CASE SwapSynced
  <2>1. disk' \in Dirs
    BY <1>0, <1>6, Synced DEF SwapSynced
  <2> QED
    BY <1>6, <2>1 DEF SwapSynced, Types, TypeOK, PassTyped, Passes, Pcs, Configs, Rest
<1> QED
  BY <1>1, <1>3, <1>4, <1>5, <1>6

LEMMA CollectTypes ==
  ASSUME Types, CollectDone \/ \E g \in Gens : Collect(g) \/ CollectStops(g)
  PROVE  Types'
<1>0. fsys \in Dirs /\ disk \in Dirs
  BY DEF Types, TypeOK
<1>1. CASE CollectDone
  <2>1. disk' \in Dirs
    BY <1>0, <1>1, Synced DEF CollectDone
  <2>2. PassTyped' /\ PassBounds'
    <3>1. CASE proc.live
      BY <1>1, <3>1 DEF CollectDone, Types, TypeOK, PassTyped, PassBounds, Passes, Pcs
    <3>2. CASE ~proc.live
      BY <1>1, <3>2, OverTyped DEF CollectDone
    <3> QED
      BY <3>1, <3>2
  <2> QED
    BY <1>1, <2>1, <2>2 DEF CollectDone, Types, TypeOK, PassBounds, Rest
<1>2. ASSUME NEW g \in Gens, Collect(g) PROVE Types'
  BY <1>0, <1>2, WithGeneration, NoGenTyped DEF Collect, Types, TypeOK, PassTyped, Rest
<1>3. ASSUME NEW g \in Gens, CollectStops(g) PROVE Types'
  <2>1. PICK s \in {"torn", "husk"} : fsys' = [fsys EXCEPT !.gen[g].state = s]
    BY <1>3 DEF CollectStops
  <2>2. fsys' \in Dirs
    BY <1>0, <2>1, Restated DEF States
  <2> QED
    BY <1>3, <2>2, OverTyped DEF CollectStops, Types, TypeOK, PassBounds
<1> QED
  BY <1>1, <1>2, <1>3

\* What a power loss leaves of one generation.
LEMMA SurvivorTyped ==
  ASSUME fsys \in Dirs, disk \in Dirs, NEW g \in Gens, NEW x \in Survivors(g)
  PROVE  x \in Generations
<1>1. fsys.gen[g] \in Generations /\ disk.gen[g] \in Generations
  BY DirFields
<1> QED
  BY <1>1 DEF Survivors, Generations, States

LEMMA PowerLossDir ==
  ASSUME Types, PowerLoss
  PROVE  /\ fsys' \in Dirs /\ disk' = fsys'
         /\ fsys'.current \in {disk.current, fsys.current}
         /\ \A n \in FileNames : fsys'.link[n] \in {disk.link[n], fsys.link[n]}
         /\ \A g \in Gens : fsys'.gen[g] \in IF fsys.gen[g] = disk.gen[g] THEN {disk.gen[g]}
                                             ELSE Survivors(g)
<1>0. fsys \in Dirs /\ disk \in Dirs
  BY DEF Types, TypeOK
<1>1. PICK left \in [Unsynced -> UNION {Survivors(g) : g \in Unsynced}],
           current \in {disk.current, fsys.current},
           link \in [FileNames -> {disk.link[n] : n \in FileNames}
                               \cup {fsys.link[n] : n \in FileNames}] :
        /\ \A g \in Unsynced : left[g] \in Survivors(g)
        /\ \A n \in FileNames : link[n] \in {disk.link[n], fsys.link[n]}
        /\ fsys' = [gen |-> [g \in Gens |-> IF g \in Unsynced THEN left[g] ELSE disk.gen[g]],
                    current |-> current, link |-> link]
        /\ disk' = fsys'
  BY DEF PowerLoss
<1> DEFINE gen == [g \in Gens |-> IF g \in Unsynced THEN left[g] ELSE disk.gen[g]]
<1>2. \A g \in Gens : gen[g] \in IF fsys.gen[g] = disk.gen[g] THEN {disk.gen[g]} ELSE Survivors(g)
  BY <1>1 DEF Unsynced
<1>3. gen \in [Gens -> Generations]
  <2>1. \A g \in Gens : gen[g] \in Generations
    BY <1>0, <1>2, SurvivorTyped, DirFields
  <2> QED
    BY <2>1
<1>4. link \in [FileNames -> Entries]
  BY <1>0, <1>1, DirFields
<1>5. current \in 0..MaxGen
  BY <1>0, <1>1, DirFields
<1>6. fsys' = [gen |-> gen, current |-> current, link |-> link]
  BY <1>1
<1> HIDE DEF gen
<1> QED
  BY <1>1, <1>2, <1>3, <1>4, <1>5, <1>6, DirOf

LEMMA PowerLossTypes ==
  ASSUME Types, PowerLoss
  PROVE  Types'
<1>1. PassTyped' /\ PassBounds'
  BY OverTyped DEF PowerLoss
<1>2. reader' \in [gen : 0..MaxGen, behind : 0..2]
  BY FileSyncAssumption DEF PowerLoss
<1> QED
  BY <1>1, <1>2, PowerLossDir DEF PowerLoss, Types, TypeOK, PassBounds

-----------------------------------------------------------------------------
(* The inductive invariant about generations.                              *)

\* A number not given out yet names nothing.
Unstaged == \A g \in Gens : g >= nextGen => fsys.gen[g] = NoGen /\ disk.gen[g] = NoGen

\* What `current` names, before and after a power loss, is complete and synced.
NamedIsSynced ==
  \A c \in {fsys.current, disk.current} :
     c # 0 => Complete(fsys, c) /\ disk.gen[c] = fsys.gen[c]

\* An unsynced swap leaves the disk at the predecessor.
DiskBehindByOne ==
  \/ disk.current = fsys.current
  \/ fsys.current # 0 /\ disk.current = fsys.gen[fsys.current].prev

\* A reader at most one swap behind reads the current generation or its
\* predecessor, and all of it is there.
ReaderBehind ==
  reader.gen # 0 =>
    /\ reader.behind = 0 => reader.gen = fsys.current
    /\ reader.behind = 1 => fsys.current # 0 /\ reader.gen = fsys.gen[fsys.current].prev
    /\ reader.behind <= 1 => Complete(fsys, reader.gen)

Durable == Unstaged /\ NamedIsSynced /\ DiskBehindByOne /\ ReaderBehind

Retaining == {"retain", "renamed"}

\* Before the swap: the new generation follows the current one, and is
\* complete on disk too when names are retained.
StagingKnown ==
  /\ proc.pc \in {"stage", "staging"} \cup Retaining => proc.old = fsys.current
  /\ proc.pc \in {"staging"} \cup Retaining =>
       /\ proc.new \in Gens /\ proc.new < nextGen
       /\ fsys.gen[proc.new].stamp = Stamp(proc) /\ fsys.gen[proc.new].prev = proc.old
  /\ proc.pc = "staging" => fsys.gen[proc.new].state = "torn"
  /\ proc.pc \in Retaining => /\ fsys.gen[proc.new].state = "complete"
                              /\ disk.gen = fsys.gen /\ disk.current = fsys.current

Cleaning == {"links", "prune", "collect", "save", "saved"}

\* After it: the pass knows the current generation and its predecessor.
CommitKnown ==
  /\ proc.pc \in Cleaning \cup {"swapped"} =>
       /\ proc.new \in Gens /\ fsys.current = proc.new /\ fsys.gen[proc.new].prev = proc.old
       /\ fsys.gen[proc.new].stamp = Stamp(proc)
  /\ proc.pc = "swapped" => disk.gen = fsys.gen /\ disk.current = proc.old

PassKnown == StagingKnown /\ CommitKnown

GenInv == Types /\ Durable /\ PassKnown

LEMMA GenInvInit == Init => GenInv
<1> SUFFICES ASSUME Init PROVE GenInv
  OBVIOUS
<1>1. proc.pc = "idle"
  BY NoPassTyped DEF Init
<1>2. PassKnown
  BY <1>1 DEF PassKnown, StagingKnown, Retaining, CommitKnown, Cleaning
<1>3. Durable
  BY DEF Init, Durable, Unstaged, NamedIsSynced, DiskBehindByOne, ReaderBehind
<1> QED
  BY <1>2, <1>3, TypesInit DEF GenInv

\* The directory is what it was but for its entries.
SameGenerations ==
  /\ fsys'.gen = fsys.gen /\ fsys'.current = fsys.current
  /\ disk'.gen = disk.gen /\ disk'.current = disk.current
  /\ nextGen' = nextGen

LEMMA DurableKept ==
  ASSUME Durable, SameGenerations, reader' = reader
  PROVE  Durable'
BY DEF Durable, Unstaged, NamedIsSynced, DiskBehindByOne, ReaderBehind, SameGenerations, Complete

\* A pass that goes on as it was, is cleaning up, or is not yet staging.
GoesOn ==
  /\ proc'.config = proc.config /\ proc'.rev = proc.rev
  /\ proc'.old = proc.old /\ proc'.new = proc.new
  /\ \/ proc'.pc = proc.pc
     \/ {proc.pc, proc'.pc} \subseteq Cleaning \/ {proc.pc, proc'.pc} \subseteq Retaining

LEMMA PassKept ==
  ASSUME PassKnown, SameGenerations,
         GoesOn \/ proc'.pc \in {"idle", "claim", "claiming", "preflight"}
  PROVE  PassKnown'
<1>1. CASE GoesOn
  <2>1. Stamp(proc)' = Stamp(proc)
    BY <1>1 DEF GoesOn, Stamp
  <2> HIDE DEF Stamp
  <2> QED
    BY <1>1, <2>1 DEF GoesOn, PassKnown, StagingKnown, Retaining, CommitKnown, SameGenerations, Cleaning
<1>2. CASE proc'.pc \in {"idle", "claim", "claiming", "preflight"}
  BY <1>2 DEF PassKnown, StagingKnown, Retaining, CommitKnown, Cleaning
<1> QED
  BY <1>1, <1>2

LEMMA StartPassInv ==
  ASSUME GenInv, NEW live \in BOOLEAN, StartPass(live)
  PROVE  GenInv'
<1>1. proc'.pc = "claim" /\ SameGenerations /\ reader' = reader
  BY NoPassTyped DEF StartPass, SameGenerations, Rest, NoPass
<1> QED
  BY <1>1, StartPassTypes, DurableKept, PassKept DEF GenInv

LEMMA QuietInv ==
  ASSUME GenInv,
         \/ ClaimBinding \/ WriteBinding \/ SaveSnapshot \/ SaveCursor \/ Stop
         \/ EditConfig \/ NewRevision \/ \E n \in FileNames : RetainCheck(n) \/ PruneCheck(n)
  PROVE  GenInv'
<1>1. SameGenerations /\ reader' = reader
  BY DEF ClaimBinding, WriteBinding, SaveSnapshot, SaveCursor, Stop, EditConfig, NewRevision,
         RetainCheck, PruneCheck, SameGenerations, Env, Rest
<1>2. proc \in Passes
  BY DEF GenInv, Types, PassTyped
<1>3. GoesOn \/ proc'.pc \in {"idle", "claim", "claiming", "preflight"}
  <2>1. CASE ClaimBinding
    <3>1. binding \in {"none", "dir", "empty", "ours"}
      BY DEF GenInv, Types, TypeOK
    <3> QED
      BY <1>2, <2>1, <3>1, NoPassTyped DEF ClaimBinding, Passes
  <2>2. CASE WriteBinding \/ SaveCursor \/ Stop
    BY <1>2, <2>2, NoPassTyped DEF WriteBinding, SaveCursor, Stop, Passes
  <2>3. CASE EditConfig \/ NewRevision
    BY <2>3 DEF EditConfig, NewRevision, GoesOn
  <2>4. CASE SaveSnapshot
    BY <1>2, <2>4 DEF SaveSnapshot, GoesOn, Cleaning, Passes
  <2>5. ASSUME NEW n \in FileNames, RetainCheck(n) \/ PruneCheck(n)
        PROVE  GoesOn \/ proc'.pc = "idle"
    BY <1>2, <2>5, NoPassTyped DEF RetainCheck, PruneCheck, GoesOn, Passes
  <2> QED
    BY <2>1, <2>2, <2>3, <2>4, <2>5
<1>4. Types'
  BY QuietTypes DEF GenInv
<1> QED
  BY <1>1, <1>3, <1>4, DurableKept, PassKept DEF GenInv

LEMMA LinkStepInv ==
  ASSUME GenInv,
         \/ LinksDone \/ PruneDone \/ RetainSynced
         \/ \E n \in FileNames : \/ RetainRename(n) \/ Link(n) \/ PruneRemove(n)
                             \/ UserPlaces(n) \/ UserTakes(n)
  PROVE  GenInv'
<1>0. fsys \in Dirs /\ disk \in Dirs /\ proc \in Passes
  BY DEF GenInv, Types, TypeOK, PassTyped
<1>1. Types'
  BY LinkTypes DEF GenInv
<1>2. SameGenerations /\ reader' = reader /\ (GoesOn \/ proc'.pc = "idle")
  <2>1. CASE LinksDone \/ PruneDone \/ RetainSynced
    <3>1. disk' \in {disk, TopSynced(fsys)} /\ fsys' = fsys /\ nextGen' = nextGen /\ reader' = reader
      BY <2>1 DEF LinksDone, PruneDone, RetainSynced, Rest
    <3>2. GoesOn
      BY <2>1, <1>0 DEF LinksDone, PruneDone, RetainSynced, GoesOn, Cleaning, Retaining, Passes
    <3> QED
      BY <1>0, <3>1, <3>2, Synced DEF SameGenerations
  <2>2. ASSUME NEW n \in FileNames,
               RetainRename(n) \/ Link(n) \/ PruneRemove(n) \/ UserPlaces(n) \/ UserTakes(n)
        PROVE  SameGenerations /\ reader' = reader /\ (GoesOn \/ proc'.pc = "idle")
    <3>0. disk' = disk \/ \E x \in Entries : disk' = [disk EXCEPT !.link[n] = x]
      BY <2>2, Zenon DEF RetainRename, Link, PruneRemove, UserPlaces, UserTakes, Entries
    <3>1. fsys' = fsys \/ \E x \in Entries : fsys' = [fsys EXCEPT !.link[n] = x]
      BY <2>2, Zenon DEF RetainRename, Link, PruneRemove, UserPlaces, UserTakes, Entries
    <3>2. fsys' \in Dirs /\ fsys'.gen = fsys.gen /\ fsys'.current = fsys.current
      <4>1. ASSUME NEW x \in Entries, fsys' = [fsys EXCEPT !.link[n] = x]
            PROVE  fsys' \in Dirs /\ fsys'.gen = fsys.gen /\ fsys'.current = fsys.current
        BY <1>0, <4>1, WithEntry
      <4> QED
        BY <1>0, <3>1, <4>1
    <3>3. disk'.gen = disk.gen /\ disk'.current = disk.current
      <4>1. ASSUME NEW x \in Entries, disk' = [disk EXCEPT !.link[n] = x]
            PROVE  disk'.gen = disk.gen /\ disk'.current = disk.current
        BY <1>0, <4>1, WithEntry
      <4> QED
        BY <3>0, <4>1
    <3>5. nextGen' = nextGen /\ reader' = reader
      BY <2>2 DEF RetainRename, Link, PruneRemove, UserPlaces, UserTakes, Rest
    <3>4. GoesOn \/ proc'.pc = "idle"
      <4>1. CASE RetainRename(n) \/ PruneRemove(n) \/ UserPlaces(n) \/ UserTakes(n)
        BY <1>0, <4>1 DEF RetainRename, PruneRemove, UserPlaces, UserTakes, GoesOn, Retaining, Passes
      <4>2. CASE Link(n)
        BY <1>0, <4>2, NoPassTyped DEF Link, GoesOn, Passes
      <4> QED
        BY <2>2, <4>1, <4>2
    <3> QED
      BY <3>2, <3>3, <3>4, <3>5 DEF SameGenerations
  <2> QED
    BY <2>1, <2>2
<1> QED
  BY <1>1, <1>2, DurableKept, PassKept DEF GenInv

LEMMA PreflightInv ==
  ASSUME GenInv, Preflight
  PROVE  GenInv'
<1>0. /\ fsys \in Dirs /\ disk \in Dirs /\ proc \in Passes /\ proc.pc = "preflight"
      /\ fsys' = Recovered /\ UNCHANGED <<disk, nextGen, reader>>
  BY DEF GenInv, Types, TypeOK, PassTyped, Preflight, Rest
<1>1. /\ fsys'.current = fsys.current
      /\ \A g \in Gens : \/ fsys'.gen[g] = fsys.gen[g]
                         \/ fsys'.gen[g] = NoGen /\ fsys.gen[g].state = "torn"
  BY <1>0, RecoveredDir
<1>2. \A g \in Gens : Complete(fsys, g) => fsys'.gen[g] = fsys.gen[g]
  BY <1>1 DEF Complete
<1>3. fsys.current # 0 => fsys'.gen[fsys.current] = fsys.gen[fsys.current]
  BY <1>2 DEF GenInv, Durable, NamedIsSynced, Complete
<1>4. Durable'
  <2>1. Unstaged'
    BY <1>0, <1>1 DEF GenInv, Durable, Unstaged
  <2>2. NamedIsSynced'
    BY <1>0, <1>1, <1>2 DEF GenInv, Durable, NamedIsSynced, Complete
  <2>3. DiskBehindByOne'
    BY <1>0, <1>1, <1>3 DEF GenInv, Durable, DiskBehindByOne
  <2>4. ReaderBehind'
    BY <1>0, <1>1, <1>2, <1>3 DEF GenInv, Durable, ReaderBehind, Complete
  <2> QED
    BY <2>1, <2>2, <2>3, <2>4 DEF Durable
<1>5. PassKnown'
  <2> USE <1>0, JudgedPass DEF GenInv
  <2>1. CASE proc' = NoPass
    BY <2>1, NoPassTyped DEF PassKnown, StagingKnown, Retaining, CommitKnown, Cleaning
  <2>2. CASE proc' = [Judged EXCEPT !.pc = "stage"]
    <3>1. proc'.pc = "stage" /\ proc'.old = fsys.current
      <4> HIDE DEF Judged
      <4> QED
        BY <2>2 DEF Passes
    <3> QED
      BY <1>1, <3>1 DEF PassKnown, StagingKnown, Retaining, CommitKnown, Cleaning
  <2>3. CASE /\ proc' = Reuse(Judged) /\ Complete(fsys, fsys.current)
             /\ fsys.gen[fsys.current].stamp = Stamp(Judged)
    <3>1. /\ proc'.pc = "links" /\ proc'.new = fsys.current
          /\ proc'.old = fsys.gen[fsys.current].prev
          /\ proc'.config = Judged.config /\ proc'.rev = Judged.rev
      <4> HIDE DEF Judged
      <4> QED
        BY <2>3 DEF Reuse, Passes
    <3>2. Stamp(proc)' = fsys.gen[fsys.current].stamp
      BY <2>3, <3>1 DEF Stamp
    <3>3. fsys.current \in Gens /\ fsys'.gen[fsys.current] = fsys.gen[fsys.current]
      BY <2>3, <1>2 DEF Complete
    <3> HIDE DEF Stamp
    <3> QED
      BY <1>1, <3>1, <3>2, <3>3 DEF PassKnown, StagingKnown, Retaining, CommitKnown, Cleaning
  <2> QED
    BY <2>1, <2>2, <2>3, PreflightCases
<1> QED
  BY <1>4, <1>5, PreflightTypes DEF GenInv

LEMMA StageInv ==
  ASSUME GenInv, Stage
  PROVE  GenInv'
<1> DEFINE x == [state |-> "torn", stamp |-> Stamp(proc), prev |-> proc.old]
<1>0. /\ fsys \in Dirs /\ disk \in Dirs /\ proc \in Passes /\ proc.pc = "stage"
      /\ nextGen \in Gens /\ nextGen' = nextGen + 1
      /\ fsys' = [fsys EXCEPT !.gen[nextGen] = x] /\ UNCHANGED <<disk, reader>>
      /\ proc' = [proc EXCEPT !.pc = "staging", !.new = nextGen]
  BY FileSyncAssumption DEF GenInv, Types, TypeOK, PassTyped, Stage, Rest, Gens
<1>1. x \in Generations
  BY <1>0, StampTyped DEF GenInv, Types, TypeOK, Generations, States
<1>2. /\ fsys'.current = fsys.current /\ fsys'.gen[nextGen] = x
      /\ \A g \in Gens : g # nextGen => fsys'.gen[g] = fsys.gen[g]
  <2> HIDE DEF x
  <2> QED
    BY <1>0, <1>1, WithGeneration
<1>3. \A g \in Gens : Complete(fsys, g) => g # nextGen
  BY <1>0 DEF GenInv, Durable, Unstaged, Complete, NoGen, Gens
<1>4. fsys.current # 0 => fsys'.gen[fsys.current] = fsys.gen[fsys.current]
  BY <1>2, <1>3 DEF GenInv, Durable, NamedIsSynced, Complete
<1>5. Durable'
  <2>1. Unstaged'
    BY <1>0, <1>2 DEF GenInv, Durable, Unstaged, Gens
  <2>2. NamedIsSynced'
    BY <1>0, <1>2, <1>3 DEF GenInv, Durable, NamedIsSynced, Complete
  <2>3. DiskBehindByOne'
    BY <1>0, <1>2, <1>4 DEF GenInv, Durable, DiskBehindByOne
  <2>4. ReaderBehind'
    BY <1>0, <1>2, <1>3, <1>4 DEF GenInv, Durable, ReaderBehind, Complete
  <2> QED
    BY <2>1, <2>2, <2>3, <2>4 DEF Durable
<1>6. PassKnown'
  <2>1. /\ proc'.pc = "staging" /\ proc'.new = nextGen /\ proc'.old = proc.old
        /\ proc'.config = proc.config /\ proc'.rev = proc.rev
    BY <1>0 DEF Passes
  <2>2. Stamp(proc)' = Stamp(proc)
    BY <2>1 DEF Stamp
  <2>3. proc.old = fsys.current
    BY <1>0 DEF GenInv, PassKnown, StagingKnown, Retaining
  <2>4. nextGen < nextGen'
    BY <1>0 DEF Gens
  <2>5. x.stamp = Stamp(proc) /\ x.prev = proc.old /\ x.state = "torn"
    OBVIOUS
  <2> HIDE DEF Stamp, x
  <2> QED
    BY <1>0, <1>2, <2>1, <2>2, <2>3, <2>4, <2>5 DEF PassKnown, StagingKnown, Retaining, CommitKnown, Cleaning
<1> QED
  BY <1>5, <1>6, StagingTypes DEF GenInv, Stage

LEMMA MarkedDir ==
  ASSUME GenInv, proc.pc = "staging"
  PROVE  /\ Marked \in Dirs /\ Marked.current = fsys.current /\ Marked.link = fsys.link
         /\ Marked.gen[proc.new].state = "complete"
         /\ Marked.gen[proc.new].stamp = fsys.gen[proc.new].stamp
         /\ Marked.gen[proc.new].prev = fsys.gen[proc.new].prev
         /\ \A g \in Gens : g # proc.new => Marked.gen[g] = fsys.gen[g]
         /\ \A g \in Gens : g >= nextGen => g # proc.new
<1>1. fsys \in Dirs /\ proc.new \in Gens /\ "complete" \in States
  BY DEF GenInv, Types, TypeOK, PassKnown, StagingKnown, Retaining, States
<1>2. Marked = [fsys EXCEPT !.gen[proc.new].state = "complete"]
  BY DEF Marked
<1>3. \A g \in Gens : g >= nextGen => g # proc.new
  BY DEF GenInv, Types, TypeOK, PassKnown, StagingKnown, Retaining, Gens
<1> QED
  BY <1>1, <1>2, <1>3, Restated

LEMMA StagedInv ==
  ASSUME GenInv, Staged
  PROVE  GenInv'
<1>0. /\ fsys \in Dirs /\ disk \in Dirs /\ proc \in Passes /\ proc.pc = "staging"
      /\ proc.new \in Gens /\ nextGen' = nextGen
      /\ fsys' = Marked /\ disk' = GenSynced(Marked) /\ reader' = reader
  BY DEF GenInv, Types, TypeOK, PassTyped, PassKnown, StagingKnown, Retaining, Staged, Rest
<1>1. /\ fsys' \in Dirs /\ fsys'.current = fsys.current
      /\ fsys'.gen[proc.new].state = "complete"
      /\ fsys'.gen[proc.new].stamp = fsys.gen[proc.new].stamp
      /\ fsys'.gen[proc.new].prev = fsys.gen[proc.new].prev
      /\ \A g \in Gens : g # proc.new => fsys'.gen[g] = fsys.gen[g]
  BY <1>0, MarkedDir
<1>2. disk'.gen = fsys'.gen /\ disk'.current = fsys'.current
  BY <1>0, <1>1, Synced
<1>3. \A g \in Gens : Complete(fsys, g) => g # proc.new
  BY <1>0 DEF GenInv, PassKnown, StagingKnown, Retaining, Complete
<1>4. fsys.current # 0 => fsys'.gen[fsys.current] = fsys.gen[fsys.current]
  BY <1>1, <1>3 DEF GenInv, Durable, NamedIsSynced, Complete
<1>5. Durable'
  <2>1. Unstaged'
    BY <1>0, <1>1, <1>2, MarkedDir DEF GenInv, Durable, Unstaged
  <2>2. NamedIsSynced'
    BY <1>0, <1>1, <1>2, <1>3 DEF GenInv, Durable, NamedIsSynced, Complete
  <2>3. DiskBehindByOne'
    BY <1>2 DEF DiskBehindByOne
  <2>4. ReaderBehind'
    BY <1>0, <1>1, <1>3, <1>4 DEF GenInv, Durable, ReaderBehind, Complete
  <2> QED
    BY <2>1, <2>2, <2>3, <2>4 DEF Durable
<1>6. PassKnown'
  <2>1. /\ proc'.pc = "retain" /\ proc'.new = proc.new /\ proc'.old = proc.old
        /\ proc'.config = proc.config /\ proc'.rev = proc.rev
    BY <1>0 DEF Staged, Passes
  <2>2. Stamp(proc)' = Stamp(proc)
    BY <2>1 DEF Stamp
  <2> HIDE DEF Stamp
  <2> QED
    BY <1>0, <1>1, <1>2, <2>1, <2>2 DEF GenInv, PassKnown, StagingKnown, Retaining, CommitKnown, Cleaning
<1> QED
  BY <1>0, <1>5, <1>6, StagingTypes DEF GenInv

LEMMA StageFailsInv ==
  ASSUME GenInv, StageFails
  PROVE  GenInv'
<1>0. /\ fsys \in Dirs /\ disk \in Dirs /\ proc.pc = "staging" /\ proc.new \in Gens
      /\ fsys' = [fsys EXCEPT !.gen[proc.new] = NoGen] /\ disk' \in {disk, GenSynced(Marked)}
      /\ proc' = NoPass /\ UNCHANGED <<nextGen, reader>>
  BY DEF GenInv, Types, TypeOK, PassKnown, StagingKnown, Retaining, StageFails
<1>1. /\ fsys'.current = fsys.current /\ fsys'.gen[proc.new] = NoGen
      /\ \A g \in Gens : g # proc.new => fsys'.gen[g] = fsys.gen[g]
  BY <1>0, WithGeneration, NoGenTyped
<1>2. /\ Marked \in Dirs /\ Marked.current = fsys.current
      /\ \A g \in Gens : g # proc.new => Marked.gen[g] = fsys.gen[g]
  BY <1>0, MarkedDir
<1>3. \A g \in Gens : Complete(fsys, g) => g # proc.new
  BY <1>0 DEF GenInv, PassKnown, StagingKnown, Retaining, Complete
<1>4. fsys.current # 0 => fsys'.gen[fsys.current] = fsys.gen[fsys.current]
  BY <1>1, <1>3 DEF GenInv, Durable, NamedIsSynced, Complete
<1>5. /\ disk'.current \in {disk.current, fsys.current}
      /\ \A g \in Gens : g # proc.new => disk'.gen[g] \in {disk.gen[g], fsys.gen[g]}
      /\ disk'.current # disk.current => \A g \in Gens : g # proc.new => disk'.gen[g] = fsys.gen[g]
  BY <1>0, <1>2, Synced
<1>6. Durable'
  <2>1. Unstaged'
    BY <1>0, <1>1, <1>5, MarkedDir DEF GenInv, Durable, Unstaged
  <2>2. NamedIsSynced'
    BY <1>0, <1>1, <1>3, <1>5 DEF GenInv, Durable, NamedIsSynced, Complete
  <2>3. DiskBehindByOne'
    BY <1>1, <1>4, <1>5 DEF GenInv, Durable, DiskBehindByOne
  <2>4. ReaderBehind'
    BY <1>0, <1>1, <1>3, <1>4 DEF GenInv, Durable, ReaderBehind, Complete
  <2> QED
    BY <2>1, <2>2, <2>3, <2>4 DEF Durable
<1>7. PassKnown'
  BY <1>0, NoPassTyped DEF PassKnown, StagingKnown, Retaining, CommitKnown, Cleaning
<1> QED
  BY <1>0, <1>6, <1>7, StagingTypes DEF GenInv

LEMMA SwapInv ==
  ASSUME GenInv, Swap
  PROVE  GenInv'
<1>0. /\ fsys \in Dirs /\ disk \in Dirs /\ proc \in Passes /\ proc.pc = "retain"
      /\ proc.new \in Gens /\ proc.new # 0 /\ UNCHANGED <<disk, nextGen>>
      /\ fsys' = [fsys EXCEPT !.current = proc.new]
      /\ proc' = [proc EXCEPT !.pc = "swapped"]
      /\ proc.old = fsys.current /\ fsys.gen[proc.new].prev = proc.old
      /\ fsys.gen[proc.new].state = "complete"
      /\ disk.gen = fsys.gen /\ disk.current = fsys.current
  BY DEF GenInv, Types, TypeOK, PassTyped, PassKnown, StagingKnown, Retaining, Swap, Env, Gens
<1>1. fsys'.current = proc.new /\ fsys'.gen = fsys.gen
  BY <1>0, DirFields
<1>2. /\ proc'.pc = "swapped" /\ proc'.new = proc.new /\ proc'.old = proc.old
      /\ proc'.config = proc.config /\ proc'.rev = proc.rev
  BY <1>0 DEF Passes
<1>3. Durable'
  <2>1. Unstaged'
    BY <1>0, <1>1 DEF GenInv, Durable, Unstaged
  <2>2. NamedIsSynced'
    BY <1>0, <1>1 DEF GenInv, Durable, NamedIsSynced, Complete
  <2>3. DiskBehindByOne'
    BY <1>0, <1>1 DEF DiskBehindByOne
  <2>4. ReaderBehind'
    <3>1. reader \in [gen : 0..MaxGen, behind : 0..2]
      BY DEF GenInv, Types, TypeOK
    <3>2. CASE reader.gen # 0 /\ reader.behind < 2
      <4>1. reader'.gen = reader.gen /\ reader'.behind = reader.behind + 1
        BY <3>1, <3>2 DEF Swap
      <4>2. reader'.behind <= 1 => reader.behind = 0
        BY <3>1, <4>1
      <4>3. reader'.behind # 0
        BY <3>1, <4>1
      <4>4. reader.behind = 0 => reader.gen = proc.old /\ Complete(fsys, reader.gen)
        BY <1>0, <3>2 DEF GenInv, Durable, ReaderBehind
      <4>5. reader'.behind = 1 => reader.behind = 0
        BY <3>1, <4>1
      <4> QED
        BY <1>0, <1>1, <4>1, <4>2, <4>3, <4>4, <4>5 DEF ReaderBehind, Complete
    <3>3. CASE ~(reader.gen # 0 /\ reader.behind < 2)
      <4>1. reader' = reader
        BY <3>3 DEF Swap
      <4>2. reader.gen = 0 \/ reader.behind = 2
        BY <3>1, <3>3
      <4> QED
        BY <4>1, <4>2 DEF ReaderBehind
    <3> QED
      BY <3>2, <3>3
  <2> QED
    BY <2>1, <2>2, <2>3, <2>4 DEF Durable
<1>4. PassKnown'
  <2>1. Stamp(proc)' = Stamp(proc)
    BY <1>2 DEF Stamp
  <2>2. fsys.gen[proc.new].stamp = Stamp(proc)
    BY <1>0 DEF GenInv, PassKnown, StagingKnown, Retaining
  <2> HIDE DEF Stamp
  <2> QED
    BY <1>0, <1>1, <1>2, <2>1, <2>2 DEF PassKnown, StagingKnown, Retaining, CommitKnown, Cleaning
<1> QED
  BY <1>0, <1>3, <1>4, StagingTypes DEF GenInv

LEMMA SwapSyncedInv ==
  ASSUME GenInv, SwapSynced
  PROVE  GenInv'
<1>0. /\ fsys \in Dirs /\ disk \in Dirs /\ proc \in Passes /\ proc.pc = "swapped"
      /\ UNCHANGED <<fsys, nextGen, reader>> /\ disk' = GenSynced(fsys)
      /\ proc' = [proc EXCEPT !.pc = "links", !.todo = proc.config.files]
  BY DEF GenInv, Types, TypeOK, PassTyped, SwapSynced, Rest
<1>1. disk'.gen = fsys.gen /\ disk'.current = fsys.current
  BY <1>0, Synced
<1>2. /\ proc'.pc = "links" /\ proc'.new = proc.new /\ proc'.old = proc.old
      /\ proc'.config = proc.config /\ proc'.rev = proc.rev
  BY <1>0 DEF Passes
<1>3. Durable'
  BY <1>0, <1>1 DEF GenInv, Durable, Unstaged, NamedIsSynced, DiskBehindByOne, ReaderBehind, Complete
<1>4. PassKnown'
  <2>1. Stamp(proc)' = Stamp(proc)
    BY <1>2 DEF Stamp
  <2> HIDE DEF Stamp
  <2> QED
    BY <1>0, <1>1, <1>2, <2>1 DEF GenInv, PassKnown, StagingKnown, Retaining, CommitKnown, Cleaning
<1> QED
  BY <1>0, <1>3, <1>4, StagingTypes DEF GenInv

\* Garbage is neither what `current` names, in memory or on disk, nor what a
\* reader one swap behind reads.
LEMMA GarbageUnread ==
  ASSUME GenInv, proc.pc = "collect", NEW g \in Garbage
  PROVE  /\ g \in Gens /\ g < nextGen /\ g # fsys.current /\ g # disk.current
         /\ reader.gen # 0 /\ reader.behind <= 1 => g # reader.gen
<1>1. g \in Gens /\ fsys.gen[g] # NoGen /\ g # proc.new /\ g # proc.old
  BY DEF Garbage
<1>2. /\ proc.new \in Gens /\ fsys.current = proc.new /\ fsys.gen[proc.new].prev = proc.old
  BY DEF GenInv, PassKnown, CommitKnown, Cleaning
<1>3. g < nextGen
  BY <1>1 DEF GenInv, Durable, Unstaged, Types, TypeOK, Gens
<1>4. g # disk.current
  BY <1>1, <1>2 DEF GenInv, Durable, DiskBehindByOne
<1>5. reader.behind \in 0..2
  BY DEF GenInv, Types, TypeOK
<1>6. ASSUME reader.gen # 0, reader.behind <= 1 PROVE g # reader.gen
  <2>1. reader.behind = 0 \/ reader.behind = 1
    BY <1>5, <1>6
  <2> QED
    BY <1>1, <1>2, <1>6, <2>1 DEF GenInv, Durable, ReaderBehind
<1> QED
  BY <1>1, <1>2, <1>3, <1>4, <1>6

\* A step of collect that changes one garbage generation.
LEMMA GarbageChanges ==
  ASSUME GenInv, proc.pc = "collect", NEW g \in Garbage,
         fsys'.current = fsys.current,
         \A h \in Gens : h # g => fsys'.gen[h] = fsys.gen[h],
         UNCHANGED <<disk, nextGen, reader>>
  PROVE  Durable'
<1>0. /\ g \in Gens /\ g < nextGen /\ g # fsys.current /\ g # disk.current
      /\ reader.gen # 0 /\ reader.behind <= 1 => g # reader.gen
  BY GarbageUnread
<1>1. fsys.current # 0 => fsys.current \in Gens /\ fsys'.gen[fsys.current] = fsys.gen[fsys.current]
  BY <1>0 DEF GenInv, Durable, NamedIsSynced, Complete
<1>2. Unstaged'
  <2>1. \A h \in Gens : h >= nextGen => h # g
    BY <1>0 DEF GenInv, Types, TypeOK, Gens
  <2> QED
    BY <2>1 DEF GenInv, Durable, Unstaged
<1>3. NamedIsSynced'
  BY <1>0 DEF GenInv, Durable, NamedIsSynced, Complete
<1>4. DiskBehindByOne'
  BY <1>1 DEF GenInv, Durable, DiskBehindByOne
<1>5. ReaderBehind'
  BY <1>0, <1>1 DEF GenInv, Durable, ReaderBehind, Complete
<1> QED
  BY <1>2, <1>3, <1>4, <1>5 DEF Durable

LEMMA CollectInv ==
  ASSUME GenInv, NEW g \in Gens, Collect(g)
  PROVE  GenInv'
<1>0. /\ fsys \in Dirs /\ proc.pc = "collect" /\ g \in Garbage
      /\ UNCHANGED <<disk, nextGen, proc, reader>>
  BY DEF GenInv, Types, TypeOK, Collect, Rest
<1>1. /\ fsys'.current = fsys.current
      /\ \A h \in Gens : h # g => fsys'.gen[h] = fsys.gen[h]
  BY <1>0, WithGeneration, NoGenTyped DEF Collect
<1>2. Durable'
  BY <1>0, <1>1, GarbageChanges
<1>3. PassKnown'
  <2>1. Stamp(proc)' = Stamp(proc)
    BY <1>0 DEF Stamp
  <2>2. g # proc.new /\ proc.new \in Gens
    BY <1>0 DEF Garbage, GenInv, PassKnown, CommitKnown, Cleaning
  <2> HIDE DEF Stamp
  <2> QED
    BY <1>0, <1>1, <2>1, <2>2 DEF GenInv, PassKnown, StagingKnown, Retaining, CommitKnown, Cleaning
<1> QED
  BY <1>2, <1>3, CollectTypes DEF GenInv

LEMMA CollectStopsInv ==
  ASSUME GenInv, NEW g \in Gens, CollectStops(g)
  PROVE  GenInv'
<1>0. /\ fsys \in Dirs /\ proc.pc = "collect" /\ g \in Garbage
      /\ UNCHANGED <<disk, nextGen, reader>> /\ proc' = NoPass
  BY DEF GenInv, Types, TypeOK, CollectStops
<1>1. PICK s \in {"torn", "husk"} : fsys' = [fsys EXCEPT !.gen[g].state = s]
  BY DEF CollectStops
<1>2. /\ fsys'.current = fsys.current
      /\ \A h \in Gens : h # g => fsys'.gen[h] = fsys.gen[h]
  BY <1>0, <1>1, Restated DEF States
<1>3. Durable'
  BY <1>0, <1>2, GarbageChanges
<1>4. PassKnown'
  BY <1>0, NoPassTyped DEF PassKnown, StagingKnown, Retaining, CommitKnown, Cleaning
<1> QED
  BY <1>3, <1>4, CollectTypes DEF GenInv

LEMMA CollectDoneInv ==
  ASSUME GenInv, CollectDone
  PROVE  GenInv'
<1>0. /\ fsys \in Dirs /\ disk \in Dirs /\ proc \in Passes /\ proc.pc = "collect"
      /\ UNCHANGED <<fsys, nextGen, reader>> /\ disk' = GenSynced(fsys)
      /\ proc' \in {[proc EXCEPT !.pc = "save"], NoPass}
  BY DEF GenInv, Types, TypeOK, PassTyped, CollectDone, Rest
<1>1. disk'.gen = fsys.gen /\ disk'.current = fsys.current
  BY <1>0, Synced
<1>2. Durable'
  BY <1>0, <1>1 DEF GenInv, Durable, Unstaged, NamedIsSynced, DiskBehindByOne, ReaderBehind, Complete
<1>3. PassKnown'
  <2>1. CASE proc' = NoPass
    BY <2>1, NoPassTyped DEF PassKnown, StagingKnown, Retaining, CommitKnown, Cleaning
  <2>2. CASE proc' = [proc EXCEPT !.pc = "save"]
    <3>1. /\ proc'.pc = "save" /\ proc'.new = proc.new /\ proc'.old = proc.old
          /\ proc'.config = proc.config /\ proc'.rev = proc.rev
      BY <1>0, <2>2 DEF Passes
    <3>2. Stamp(proc)' = Stamp(proc)
      BY <3>1 DEF Stamp
    <3> HIDE DEF Stamp
    <3> QED
      BY <1>0, <3>1, <3>2 DEF GenInv, PassKnown, StagingKnown, Retaining, CommitKnown, Cleaning
  <2> QED
    BY <1>0, <2>1, <2>2
<1> QED
  BY <1>2, <1>3, CollectTypes DEF GenInv

LEMMA PowerLossInv ==
  ASSUME GenInv, PowerLoss
  PROVE  GenInv'
<1>0. /\ proc' = NoPass /\ nextGen' = nextGen /\ reader'.gen = 0
  BY DEF PowerLoss
<1>1. /\ disk' = fsys' /\ fsys'.current \in {disk.current, fsys.current}
      /\ \A g \in Gens : fsys'.gen[g] \in IF fsys.gen[g] = disk.gen[g] THEN {disk.gen[g]}
                                          ELSE Survivors(g)
  BY PowerLossDir DEF GenInv
<1>2. Unstaged'
  BY <1>0, <1>1 DEF GenInv, Durable, Unstaged
<1>3. NamedIsSynced'
  BY <1>1 DEF GenInv, Durable, NamedIsSynced, Complete
<1>4. DiskBehindByOne' /\ ReaderBehind'
  BY <1>0, <1>1 DEF DiskBehindByOne, ReaderBehind
<1>5. PassKnown'
  BY <1>0, NoPassTyped DEF PassKnown, StagingKnown, Retaining, CommitKnown, Cleaning
<1> QED
  BY <1>2, <1>3, <1>4, <1>5, PowerLossTypes DEF GenInv, Durable

LEMMA ReaderResolvesInv ==
  ASSUME GenInv, ReaderResolves
  PROVE  GenInv'
<1>1. Types'
  BY QuietTypes DEF GenInv
<1>2. /\ UNCHANGED <<fsys, disk, nextGen, proc>> /\ fsys.current # 0
      /\ reader'.gen = fsys.current /\ reader'.behind = 0
  BY DEF ReaderResolves, Env
<1>3. PassKnown'
  <2>1. Stamp(proc)' = Stamp(proc)
    BY <1>2 DEF Stamp
  <2> HIDE DEF Stamp
  <2> QED
    BY <1>2, <2>1 DEF GenInv, PassKnown, StagingKnown, Retaining, CommitKnown
<1>4. Durable'
  BY <1>2 DEF GenInv, Durable, Unstaged, NamedIsSynced, DiskBehindByOne, ReaderBehind, Complete
<1> QED
  BY <1>1, <1>3, <1>4 DEF GenInv

(* No step leaves the invariant about generations. *)
LEMMA GenInvStep == GenInv /\ [Next]_vars => GenInv'
<1> SUFFICES ASSUME GenInv, [Next]_vars PROVE GenInv'
  OBVIOUS
<1>1. CASE UNCHANGED vars
  BY <1>1 DEF vars, GenInv, Types, TypeOK, PassTyped, Durable, Unstaged, NamedIsSynced,
              DiskBehindByOne, ReaderBehind, PassKnown, StagingKnown, Retaining, CommitKnown, Stamp, Complete
<1>2. ASSUME NEW live \in BOOLEAN, StartPass(live) PROVE GenInv'
  BY <1>2, StartPassInv
<1>3. CASE PassStep
  BY <1>3, QuietInv, LinkStepInv, PreflightInv, StageInv, StagedInv, SwapInv, SwapSyncedInv,
     CollectInv, CollectDoneInv DEF PassStep
<1>4. CASE StageFails \/ (\E g \in Gens : CollectStops(g)) \/ Stop \/ PowerLoss
  BY <1>4, StageFailsInv, CollectStopsInv, QuietInv, PowerLossInv
<1>5. CASE ReaderResolves \/ (\E n \in FileNames : UserPlaces(n) \/ UserTakes(n))
  BY <1>5, ReaderResolvesInv, LinkStepInv
<1>6. CASE EditConfig \/ NewRevision
  BY <1>6, QuietInv
<1> QED
  BY <1>1, <1>2, <1>3, <1>4, <1>5, <1>6 DEF Next

LEMMA GenInvAlways == Spec => []GenInv
BY GenInvInit, GenInvStep, PTL DEF Spec

(* Publish and collect leave every reader a complete generation, whatever  *)
(* stops the client and whatever a power loss keeps: `current` names one,  *)
(* on disk too, and one resolved before the last swap is still whole.      *)
THEOREM ReadersAlwaysSafe == Spec => []ReadersSafe
<1>1. GenInv => ReadersSafe
  <2> SUFFICES ASSUME GenInv PROVE ReadersSafe
    OBVIOUS
  <2>1. CurrentComplete
    BY DEF GenInv, Durable, NamedIsSynced, CurrentComplete, Complete
  <2>2. ReaderFinishes
    BY DEF GenInv, Durable, ReaderBehind, ReaderFinishes
  <2> QED
    BY <2>1, <2>2 DEF GenInv, Types, ReadersSafe
<1> QED
  BY <1>1, GenInvAlways, PTL

(* When collect ends, the published generation and its predecessor are all *)
(* that is left, also of what interrupted publications had staged.         *)
THEOREM FinishAlwaysLeavesTwo == Spec => FinishLeavesTwo
<1>1. ASSUME GenInv, CollectDone
      PROVE  \A g \in Gens : fsys'.gen[g] # NoGen =>
               g \in {fsys'.current, fsys'.gen[fsys'.current].prev}
  <2>1. fsys' = fsys /\ proc.pc = "collect" /\ Garbage = {}
    BY <1>1 DEF CollectDone
  <2>2. fsys.current = proc.new /\ fsys.gen[proc.new].prev = proc.old
    BY <1>1, <2>1 DEF GenInv, PassKnown, CommitKnown, Cleaning
  <2> QED
    BY <2>1, <2>2 DEF Garbage
<1>2. GenInv /\ [Next]_vars =>
        [CollectDone => \A g \in Gens : fsys'.gen[g] # NoGen =>
                          g \in {fsys'.current, fsys'.gen[fsys'.current].prev}]_vars
  BY <1>1
<1> QED
  BY <1>2, GenInvAlways, PTL DEF Spec, FinishLeavesTwo

-----------------------------------------------------------------------------
(* The inductive invariant about the names a publication drops.            *)

Dropping == {"stage", "staging", "retain", "renamed", "swapped", "links"}

\* Until the links are made the pass knows every managed name it drops, to
\* retain it before the swap or prune it after, and under refuse there is
\* none; once it has pruned none is left, in memory or on disk.
DroppedKnown ==
  /\ proc.pc \in Dropping =>
       /\ \A n \in FileNames \ proc.config.files : Ours(n) => n \in proc.removed
       /\ proc.config.onRemoved = "refuse" => proc.removed = {}
  /\ proc.pc \in Retaining /\ proc.config.onRemoved = "retain" =>
       \A n \in FileNames \ proc.config.files : Ours(n) => n \in proc.todo
  /\ proc.pc = "links" => proc.todo \subseteq proc.config.files
  /\ proc.pc = "prune" =>
       /\ proc.todo # {} => proc.config.onRemoved = "prune"
       /\ proc.config.onRemoved = "prune" =>
            \A n \in FileNames \ proc.config.files : Ours(n) => n \in proc.todo
  /\ proc.pc \in {"collect", "save", "saved"} /\ proc.config.onRemoved = "prune" =>
       \A n \in FileNames \ proc.config.files : fsys.link[n] # "ours" /\ disk.link[n] # "ours"

DropInv == GenInv /\ DroppedKnown

\* The steps that leave every entry alone.
LEMMA SameLinks ==
  ASSUME GenInv,
         \/ \E live \in BOOLEAN : StartPass(live)
         \/ ClaimBinding \/ WriteBinding \/ SaveSnapshot \/ SaveCursor \/ Stop
         \/ EditConfig \/ NewRevision \/ ReaderResolves
         \/ Preflight \/ Stage \/ Staged \/ StageFails \/ Swap \/ SwapSynced \/ CollectDone
         \/ \E n \in FileNames : RetainCheck(n) \/ PruneCheck(n)
         \/ \E g \in Gens : Collect(g) \/ CollectStops(g)
  PROVE  fsys'.link = fsys.link /\ disk'.link = disk.link
<1>0. fsys \in Dirs /\ disk \in Dirs
  BY DEF GenInv, Types, TypeOK
<1>1. CASE \/ \E live \in BOOLEAN : StartPass(live)
           \/ ClaimBinding \/ WriteBinding \/ SaveSnapshot \/ SaveCursor \/ Stop
           \/ EditConfig \/ NewRevision \/ ReaderResolves
           \/ \E n \in FileNames : RetainCheck(n) \/ PruneCheck(n)
  BY <1>1 DEF StartPass, ClaimBinding, WriteBinding, SaveSnapshot, SaveCursor, Stop, EditConfig,
              NewRevision, ReaderResolves, RetainCheck, PruneCheck
<1>2. CASE Preflight
  BY <1>0, <1>2, RecoveredDir DEF Preflight
<1>3. CASE Stage
  <2>1. [state |-> "torn", stamp |-> Stamp(proc), prev |-> proc.old] \in Generations
    BY <1>3, StampTyped DEF Stage, GenInv, Types, TypeOK, Generations, States
  <2>2. nextGen \in Gens
    BY <1>3 DEF Stage, GenInv, Types, TypeOK, Gens
  <2> QED
    BY <1>0, <1>3, <2>1, <2>2, WithGeneration DEF Stage
<1>4. CASE Staged
  BY <1>0, <1>4, MarkedDir, Synced DEF Staged
<1>5. CASE StageFails
  BY <1>0, <1>5, MarkedDir, Synced, WithGeneration, NoGenTyped
     DEF StageFails, GenInv, PassKnown, StagingKnown, Retaining
<1>6. CASE Swap
  BY <1>0, <1>6, DirFields DEF Swap
<1>7. CASE SwapSynced \/ CollectDone
  BY <1>0, <1>7, Synced DEF SwapSynced, CollectDone
<1>8. ASSUME NEW g \in Gens, Collect(g)
      PROVE  fsys'.link = fsys.link /\ disk'.link = disk.link
  BY <1>0, <1>8, WithGeneration, NoGenTyped DEF Collect
<1>9. ASSUME NEW g \in Gens, CollectStops(g)
      PROVE  fsys'.link = fsys.link /\ disk'.link = disk.link
  BY <1>0, <1>9, Restated DEF CollectStops, States
<1> QED
  BY <1>1, <1>2, <1>3, <1>4, <1>5, <1>6, <1>7, <1>8, <1>9

\* The steps that set the entry of one name.
LEMMA OneEntry ==
  ASSUME GenInv, NEW n \in FileNames, NEW x \in Entries, fsys' = [fsys EXCEPT !.link[n] = x],
         disk' = disk \/ disk' = [disk EXCEPT !.link[n] = x]
  PROVE  /\ fsys'.link[n] = x /\ \A m \in FileNames : m # n => fsys'.link[m] = fsys.link[m]
         /\ fsys'.gen = fsys.gen /\ fsys'.current = fsys.current
         /\ disk' = disk \/ disk'.link[n] = x
         /\ \A m \in FileNames : m # n => disk'.link[m] = disk.link[m]
<1>0. fsys \in Dirs /\ disk \in Dirs
  BY DEF GenInv, Types, TypeOK
<1>1. /\ fsys' \in Dirs /\ fsys'.link[n] = x
      /\ \A m \in FileNames : m # n => fsys'.link[m] = fsys.link[m]
      /\ fsys'.gen = fsys.gen /\ fsys'.current = fsys.current
  BY <1>0, WithEntry
<1>2. CASE disk' = [disk EXCEPT !.link[n] = x]
  BY <1>0, <1>1, <1>2, WithEntry
<1> QED
  BY <1>1, <1>2

LEMMA UserMoves ==
  ASSUME GenInv, NEW n \in FileNames, UserPlaces(n) \/ UserTakes(n)
  PROVE  /\ \E x \in {"foreign", "none"} : /\ fsys'.link[n] = x /\ disk'.link[n] = x
                                          /\ (x = "foreign" \/ UserTakes(n))
         /\ \A m \in FileNames : m # n => fsys'.link[m] = fsys.link[m] /\ disk'.link[m] = disk.link[m]
         /\ fsys'.gen = fsys.gen /\ fsys'.current = fsys.current /\ proc' = proc
<1>0. fsys \in Dirs /\ disk \in Dirs
  BY DEF GenInv, Types, TypeOK
<1>1. PICK x \in {"foreign", "none"} : /\ fsys' = [fsys EXCEPT !.link[n] = x]
                                       /\ disk' = [disk EXCEPT !.link[n] = x]
                                       /\ (x = "foreign" \/ UserTakes(n))
  BY Zenon DEF UserPlaces, UserTakes
<1>2. proc' = proc
  BY DEF UserPlaces, UserTakes
<1>3. /\ fsys'.link[n] = x /\ disk'.link[n] = x
      /\ \A m \in FileNames : m # n => fsys'.link[m] = fsys.link[m] /\ disk'.link[m] = disk.link[m]
      /\ fsys'.gen = fsys.gen /\ fsys'.current = fsys.current
  BY <1>0, <1>1, WithEntry DEF Entries
<1> QED
  BY <1>1, <1>2, <1>3

LEMMA DropInvInit == Init => DropInv
<1> SUFFICES ASSUME Init PROVE DroppedKnown
  BY GenInvInit DEF DropInv
<1> QED
  BY NoPassTyped DEF Init, DroppedKnown, Retaining, Dropping

\* A pass that is not yet, or no longer, dropping names.
LEMMA NotDropping ==
  ASSUME proc'.pc \in {"idle", "claim", "claiming", "preflight"}
  PROVE  DroppedKnown'
BY DEF DroppedKnown, Retaining, Dropping

\* A managed name is never made by anyone but ensureLinks.
LEMMA PassUnmoved ==
  ASSUME DroppedKnown, proc' = proc,
         \A n \in FileNames : fsys'.link[n] = "ours" => fsys.link[n] = "ours",
         \A n \in FileNames : disk'.link[n] = "ours" => "ours" \in {disk.link[n], fsys.link[n]}
  PROVE  DroppedKnown'
BY DEF DroppedKnown, Retaining, Dropping, Ours

LEMMA DropQuiet ==
  ASSUME DropInv,
         \/ \E live \in BOOLEAN : StartPass(live)
         \/ ClaimBinding \/ WriteBinding \/ SaveCursor \/ Stop \/ StageFails \/ PowerLoss
         \/ EditConfig \/ NewRevision \/ ReaderResolves
         \/ \E g \in Gens : Collect(g) \/ CollectStops(g)
  PROVE  DroppedKnown'
<1>0. proc \in Passes /\ binding \in {"none", "dir", "empty", "ours"}
  BY DEF DropInv, GenInv, Types, TypeOK, PassTyped
<1>1. CASE \/ \E live \in BOOLEAN : StartPass(live)
           \/ WriteBinding \/ SaveCursor \/ Stop \/ StageFails \/ PowerLoss
           \/ \E g \in Gens : CollectStops(g)
  <2>1. proc'.pc \in {"idle", "claim", "claiming", "preflight"}
    <3>1. ASSUME NEW live \in BOOLEAN, StartPass(live) PROVE proc'.pc = "claim"
      BY <3>1 DEF StartPass, NoPass
    <3>2. CASE WriteBinding
      BY <1>0, <3>2 DEF WriteBinding, Passes
    <3>3. CASE \/ SaveCursor \/ Stop \/ StageFails \/ PowerLoss \/ \E g \in Gens : CollectStops(g)
      BY <3>3, NoPassTyped DEF SaveCursor, Stop, StageFails, PowerLoss, CollectStops
    <3> QED
      BY <1>1, <3>1, <3>2, <3>3
  <2> QED
    BY <2>1, NotDropping
<1>2. CASE ClaimBinding
  <2>1. proc'.pc \in {"idle", "claim", "claiming", "preflight"}
    BY <1>0, <1>2, NoPassTyped DEF ClaimBinding, Passes
  <2> QED
    BY <2>1, NotDropping
<1>3. CASE \/ EditConfig \/ NewRevision \/ ReaderResolves \/ \E g \in Gens : Collect(g)
  <2>1. fsys'.link = fsys.link /\ disk'.link = disk.link
    BY <1>3, SameLinks DEF DropInv
  <2>2. proc' = proc
    BY <1>3 DEF EditConfig, NewRevision, ReaderResolves, Collect
  <2> QED
    BY <2>1, <2>2, PassUnmoved DEF DropInv
<1> QED
  BY <1>1, <1>2, <1>3

LEMMA DropUser ==
  ASSUME DropInv, NEW n \in FileNames, UserPlaces(n) \/ UserTakes(n)
  PROVE  DroppedKnown'
BY UserMoves, PassUnmoved DEF DropInv

LEMMA DropPreflight ==
  ASSUME DropInv, Preflight
  PROVE  DroppedKnown'
<1>0. proc.pc = "preflight" /\ proc \in Passes
  BY DEF DropInv, GenInv, Types, PassTyped, Preflight
<1>1. fsys'.link = fsys.link
  BY SameLinks DEF DropInv
<1>2. CASE proc' = NoPass
  BY <1>2, NoPassTyped, NotDropping
<1>3. CASE /\ proc' = Reuse(Judged) \/ proc' = [Judged EXCEPT !.pc = "stage"]
           /\ Judged.config.onRemoved = "refuse" => Judged.removed = {}
  <2>1. /\ Judged \in Passes /\ Judged.removed = Removed(proc) /\ Judged.config = proc.config
    BY <1>0, JudgedPass DEF DropInv, GenInv
  <2>2. /\ proc'.pc \in {"links", "stage"} /\ proc'.config = proc.config
        /\ proc'.removed = Removed(proc)
        /\ proc'.pc = "links" => proc'.todo = proc.config.files
    <3> HIDE DEF Judged
    <3> QED
      BY <1>3, <2>1 DEF Reuse, Passes
  <2>3. \A n \in FileNames \ proc.config.files : Ours(n) => n \in Removed(proc)
    BY DEF Removed
  <2>4. proc.config.onRemoved = "refuse" => Removed(proc) = {}
    BY <1>3, <2>1
  <2> HIDE DEF Removed
  <2> QED
    BY <1>1, <2>2, <2>3, <2>4 DEF DroppedKnown, Retaining, Dropping, Ours
<1> QED
  BY <1>2, <1>3, PreflightCases

LEMMA DropStaging ==
  ASSUME DropInv, Stage \/ Staged \/ Swap \/ SwapSynced \/ CollectDone \/ SaveSnapshot
  PROVE  DroppedKnown'
<1>0. proc \in Passes
  BY DEF DropInv, GenInv, Types, PassTyped
<1>1. fsys'.link = fsys.link /\ disk'.link = disk.link
  BY SameLinks DEF DropInv
<1>2. CASE Stage
  <2>1. /\ proc.pc = "stage" /\ proc'.pc = "staging" /\ proc'.config = proc.config
        /\ proc'.removed = proc.removed
    BY <1>0, <1>2 DEF Stage, Passes
  <2> QED
    BY <1>1, <2>1 DEF DropInv, DroppedKnown, Retaining, Dropping, Ours
<1>3. CASE Staged
  <2>1. /\ proc.pc = "staging" /\ proc'.pc = "retain" /\ proc'.config = proc.config
        /\ proc'.removed = proc.removed
        /\ proc.config.onRemoved = "retain" => proc'.todo = proc.removed
    BY <1>0, <1>3 DEF Staged, Passes
  <2> QED
    BY <1>1, <2>1 DEF DropInv, DroppedKnown, Retaining, Dropping, Ours
<1>4. CASE Swap
  <2>1. /\ proc.pc = "retain" /\ proc'.pc = "swapped" /\ proc'.config = proc.config
        /\ proc'.removed = proc.removed
    BY <1>0, <1>4 DEF Swap, Passes
  <2> QED
    BY <1>1, <2>1 DEF DropInv, DroppedKnown, Retaining, Dropping, Ours
<1>5. CASE SwapSynced
  <2>1. /\ proc.pc = "swapped" /\ proc'.pc = "links" /\ proc'.config = proc.config
        /\ proc'.removed = proc.removed /\ proc'.todo = proc.config.files
    BY <1>0, <1>5 DEF SwapSynced, Passes
  <2> QED
    BY <1>1, <2>1 DEF DropInv, DroppedKnown, Retaining, Dropping, Ours
<1>6. CASE CollectDone
  <2>1. CASE proc' = NoPass
    BY <2>1, NoPassTyped, NotDropping
  <2>2. CASE proc' = [proc EXCEPT !.pc = "save"]
    <3>1. proc.pc = "collect" /\ proc'.pc = "save" /\ proc'.config = proc.config
      BY <1>0, <1>6, <2>2 DEF CollectDone, Passes
    <3> QED
      BY <1>1, <3>1 DEF DropInv, DroppedKnown, Retaining, Dropping
  <2> QED
    BY <1>6, <2>1, <2>2 DEF CollectDone
<1>7. CASE SaveSnapshot
  <2>1. proc.pc = "save" /\ proc'.pc = "saved" /\ proc'.config = proc.config
    BY <1>0, <1>7 DEF SaveSnapshot, Passes
  <2> QED
    BY <1>1, <2>1 DEF DropInv, DroppedKnown, Retaining, Dropping
<1> QED
  BY <1>2, <1>3, <1>4, <1>5, <1>6, <1>7

LEMMA DropRetain ==
  ASSUME DropInv, NEW n \in FileNames, RetainCheck(n) \/ RetainRename(n)
  PROVE  DroppedKnown'
<1>0. proc \in Passes /\ proc.pc = "retain"
  BY DEF DropInv, GenInv, Types, PassTyped, RetainCheck, RetainRename
<1>1. CASE RetainCheck(n)
  <2>1. fsys'.link = fsys.link
    BY <1>1, SameLinks DEF DropInv
  <2>2. CASE proc' = NoPass
    BY <2>2, NoPassTyped, NotDropping
  <2>3. CASE proc' # NoPass
    <3>1. /\ proc'.pc = "retain" /\ proc'.config = proc.config /\ proc'.removed = proc.removed
          /\ proc'.todo = IF Ours(n) THEN proc.todo ELSE proc.todo \ {n}
      BY <1>0, <1>1, <2>3 DEF RetainCheck, Passes
    <3> QED
      BY <1>0, <2>1, <3>1 DEF DropInv, DroppedKnown, Retaining, Dropping, Ours
  <2> QED
    BY <2>2, <2>3
<1>2. CASE RetainRename(n)
  <2>1. /\ fsys'.link[n] = "kept" /\ \A m \in FileNames : m # n => fsys'.link[m] = fsys.link[m]
    BY <1>2, OneEntry DEF DropInv, RetainRename, Entries
  <2>2. /\ proc'.pc = "renamed" /\ proc'.config = proc.config /\ proc'.removed = proc.removed
        /\ proc'.todo = proc.todo \ {n}
    BY <1>0, <1>2 DEF RetainRename, Passes
  <2> QED
    BY <1>0, <2>1, <2>2 DEF DropInv, DroppedKnown, Retaining, Dropping, Ours
<1> QED
  BY <1>1, <1>2

LEMMA DropRetainSynced ==
  ASSUME DropInv, RetainSynced
  PROVE  DroppedKnown'
<1>0. proc \in Passes /\ proc.pc = "renamed" /\ fsys' = fsys
  BY DEF DropInv, GenInv, Types, PassTyped, RetainSynced
<1>1. /\ proc'.pc = "retain" /\ proc'.config = proc.config /\ proc'.removed = proc.removed
      /\ proc'.todo = proc.todo
  BY <1>0 DEF RetainSynced, Passes
<1> QED
  BY <1>0, <1>1 DEF DropInv, DroppedKnown, Retaining, Dropping, Ours

LEMMA DropLink ==
  ASSUME DropInv, NEW n \in FileNames, Link(n)
  PROVE  DroppedKnown'
<1>0. proc \in Passes /\ proc.pc = "links" /\ n \in proc.todo
  BY DEF DropInv, GenInv, Types, PassTyped, Link
<1>1. CASE Unmanaged(n)
  BY <1>1, NoPassTyped, NotDropping DEF Link
<1>2. CASE ~Unmanaged(n)
  <2>1. fsys' = [fsys EXCEPT !.link[n] = "ours"] /\ disk' = disk
    BY <1>2, Zenon DEF Link
  <2>2. \A m \in FileNames : m # n => fsys'.link[m] = fsys.link[m]
    BY <2>1, OneEntry DEF DropInv, Entries
  <2>3. /\ proc'.pc = "links" /\ proc'.config = proc.config /\ proc'.removed = proc.removed
        /\ proc'.todo = proc.todo \ {n}
    <3>1. proc' = [proc EXCEPT !.todo = @ \ {n}, !.created = @ \/ ~Ours(n)]
      BY <1>2 DEF Link
    <3> QED
      BY <1>0, <3>1 DEF Passes
  <2>4. n \in proc.config.files
    BY <1>0 DEF DropInv, DroppedKnown
  <2> QED
    BY <1>0, <2>2, <2>3, <2>4 DEF DropInv, DroppedKnown, Retaining, Dropping, Ours
<1> QED
  BY <1>1, <1>2

LEMMA DropLinksDone ==
  ASSUME DropInv, LinksDone
  PROVE  DroppedKnown'
<1>0. proc \in Passes /\ proc.pc = "links" /\ fsys' = fsys
  BY DEF DropInv, GenInv, Types, PassTyped, LinksDone
<1>1. /\ proc'.pc = "prune" /\ proc'.config = proc.config
      /\ proc'.todo = IF proc.config.onRemoved = "prune" THEN proc.removed ELSE {}
  BY <1>0 DEF LinksDone, Passes
<1> QED
  BY <1>0, <1>1 DEF DropInv, DroppedKnown, Retaining, Dropping, Ours

LEMMA DropPrune ==
  ASSUME DropInv, PruneDone \/ \E n \in FileNames : PruneCheck(n) \/ PruneRemove(n)
  PROVE  DroppedKnown'
<1>0. /\ proc \in Passes /\ proc.pc = "prune" /\ fsys \in Dirs /\ disk \in Dirs
      /\ proc.checked \subseteq proc.todo
  BY DEF DropInv, GenInv, Types, TypeOK, PassTyped, PruneDone, PruneCheck, PruneRemove
<1>1. CASE PruneDone
  <2>1. /\ proc'.pc = "collect" /\ proc'.config = proc.config /\ fsys' = fsys /\ proc.todo = {}
    BY <1>0, <1>1 DEF PruneDone, Passes
  <2>2. proc.config.onRemoved = "prune" => disk'.link = fsys.link
    BY <1>0, <1>1, Synced DEF PruneDone
  <2> QED
    BY <1>0, <2>1, <2>2 DEF DropInv, DroppedKnown, Retaining, Dropping, Ours
<1>2. ASSUME NEW n \in FileNames, PruneCheck(n) PROVE DroppedKnown'
  <2>1. /\ proc'.pc = "prune" /\ proc'.config = proc.config /\ fsys' = fsys
        /\ proc'.todo = IF Ours(n) THEN proc.todo ELSE proc.todo \ {n}
        /\ proc.todo # {}
    BY <1>0, <1>2 DEF PruneCheck, Passes
  <2> QED
    BY <1>0, <2>1 DEF DropInv, DroppedKnown, Retaining, Dropping, Ours
<1>3. ASSUME NEW n \in FileNames, PruneRemove(n) PROVE DroppedKnown'
  <2>1. fsys'.link[n] = "none" /\ \A m \in FileNames : m # n => fsys'.link[m] = fsys.link[m]
    BY <1>3, OneEntry DEF DropInv, PruneRemove, Entries
  <2>2. /\ proc'.pc = "prune" /\ proc'.config = proc.config
        /\ proc'.todo = proc.todo \ {n} /\ proc.todo # {}
    BY <1>0, <1>3 DEF PruneRemove, Passes
  <2> QED
    BY <1>0, <2>1, <2>2 DEF DropInv, DroppedKnown, Retaining, Dropping, Ours
<1> QED
  BY <1>1, <1>2, <1>3

(* No step leaves the invariant about dropped names. *)
LEMMA DropInvStep == DropInv /\ [Next]_vars => DropInv'
<1> SUFFICES ASSUME DropInv, [Next]_vars PROVE DroppedKnown'
  BY GenInvStep DEF DropInv
<1>1. CASE UNCHANGED vars
  BY <1>1, PassUnmoved DEF vars, DropInv
<1>2. CASE \E live \in BOOLEAN : StartPass(live)
  BY <1>2, DropQuiet
<1>3. CASE PassStep
  BY <1>3, DropQuiet, DropPreflight, DropStaging, DropRetain, DropRetainSynced, DropLink,
     DropLinksDone, DropPrune DEF PassStep
<1>4. CASE StageFails \/ (\E g \in Gens : CollectStops(g)) \/ Stop \/ PowerLoss
  BY <1>4, DropQuiet
<1>5. CASE ReaderResolves \/ (\E n \in FileNames : UserPlaces(n) \/ UserTakes(n))
  BY <1>5, DropQuiet, DropUser
<1>6. CASE EditConfig \/ NewRevision
  BY <1>6, DropQuiet
<1> QED
  BY <1>1, <1>2, <1>3, <1>4, <1>5, <1>6 DEF Next

LEMMA DropInvAlways == Spec => []DropInv
BY DropInvInit, DropInvStep, PTL DEF Spec

-----------------------------------------------------------------------------
(* Files that are not the client's.                                        *)

ForeignEntries == {"foreign", "kept"}

Counters == faults \in Nat /\ edits \in Nat

LEMMA CountersStep ==
  ASSUME Counters, Next
  PROVE  Counters'
<1>1. ASSUME \/ \E live \in BOOLEAN : StartPass(live)
             \/ PassStep \/ ReaderResolves \/ NewRevision
             \/ \E n \in FileNames : UserPlaces(n) \/ UserTakes(n)
      PROVE  UNCHANGED <<faults, edits>>
  BY <1>1 DEF StartPass, PassStep, ClaimBinding, WriteBinding, Preflight, Stage, Staged, Swap,
     SwapSynced, LinksDone, PruneDone, CollectDone, SaveSnapshot, SaveCursor, RetainCheck,
     RetainRename, RetainSynced, Link, PruneCheck, PruneRemove, Collect, ReaderResolves, NewRevision, UserPlaces,
     UserTakes, Env, Rest
<1>2. CASE EditConfig
  BY <1>2 DEF EditConfig, Counters
<1>3. CASE StageFails \/ (\E g \in Gens : CollectStops(g)) \/ Stop \/ PowerLoss
  BY <1>3 DEF StageFails, CollectStops, Stop, PowerLoss, Fault, Counters
<1> QED
  BY <1>1, <1>2, <1>3 DEF Next, Counters

\* A user's file is on disk as it is in memory, whatever users do between a
\* check and its act; and a pass drops only what is not configured.
ForeignSynced ==
  \A n \in FileNames : fsys.link[n] = "foreign" => disk.link[n] = "foreign"

DropsUnconfigured ==
  /\ proc.removed \cap proc.config.files = {}
  /\ proc.pc \in {"retain", "renamed", "prune"} => proc.todo \cap proc.config.files = {}

\* Before the first fault a retained copy is synced but between the rename and
\* its sync, and what is not the client's on disk is so in memory but between
\* a prune that a user raced and its sync.
KeptSynced ==
  faults = 0 =>
    \A n \in FileNames :
      /\ fsys.link[n] = "kept" => disk.link[n] = "kept" \/ proc.pc = "renamed"
      /\ disk.link[n] \in ForeignEntries =>
           \/ fsys.link[n] \in ForeignEntries
           \/ proc.pc = "prune" /\ proc.config.onRemoved = "prune" /\ fsys.link[n] = "none"

WindowInv == DropInv /\ Counters /\ ForeignSynced /\ DropsUnconfigured /\ KeptSynced

LEMMA ForeignSyncedStep ==
  ASSUME DropInv, ForeignSynced, Next
  PROVE  ForeignSynced'
<1>0. fsys \in Dirs /\ disk \in Dirs
  BY DEF DropInv, GenInv, Types, TypeOK
<1>1. CASE \/ \E live \in BOOLEAN : StartPass(live)
           \/ ClaimBinding \/ WriteBinding \/ SaveSnapshot \/ SaveCursor \/ Stop
           \/ EditConfig \/ NewRevision \/ ReaderResolves
           \/ Preflight \/ Stage \/ Staged \/ StageFails \/ Swap \/ SwapSynced \/ CollectDone
           \/ \E m \in FileNames : RetainCheck(m) \/ PruneCheck(m)
           \/ \E g \in Gens : Collect(g) \/ CollectStops(g)
  <2>1. fsys'.link = fsys.link /\ disk'.link = disk.link
    BY <1>1, SameLinks DEF DropInv
  <2> QED
    BY <2>1 DEF ForeignSynced
<1>2. CASE LinksDone \/ PruneDone \/ RetainSynced
  <2>1. fsys' = fsys /\ disk'.link \in {disk.link, fsys.link}
    BY <1>0, <1>2, Synced DEF LinksDone, PruneDone, RetainSynced
  <2> QED
    BY <2>1 DEF ForeignSynced
<1>3. CASE PowerLoss
  BY <1>3 DEF PowerLoss, ForeignSynced
<1>4. ASSUME NEW n \in FileNames, UserPlaces(n) \/ UserTakes(n)
      PROVE  ForeignSynced'
  BY <1>4, UserMoves DEF DropInv, ForeignSynced
<1>5. ASSUME NEW n \in FileNames, RetainRename(n) \/ Link(n) \/ PruneRemove(n) PROVE ForeignSynced'
  <2>1. disk' = disk
    BY <1>5 DEF RetainRename, Link, PruneRemove
  <2>2. CASE fsys' = fsys
    BY <2>1, <2>2 DEF ForeignSynced
  <2>3. CASE fsys' # fsys
    <3>1. PICK x \in {"ours", "none", "kept"} : fsys' = [fsys EXCEPT !.link[n] = x]
      BY <1>5, <2>3, Zenon DEF RetainRename, Link, PruneRemove
    <3>2. fsys'.link[n] = x /\ \A m \in FileNames : m # n => fsys'.link[m] = fsys.link[m]
      BY <2>1, <3>1, OneEntry DEF DropInv, Entries
    <3> QED
      BY <2>1, <3>2 DEF ForeignSynced
  <2> QED
    BY <2>2, <2>3
<1> QED
  BY <1>1, <1>2, <1>3, <1>4, <1>5 DEF Next, PassStep

LEMMA DropsUnconfiguredStep ==
  ASSUME DropInv, DropsUnconfigured, Next
  PROVE  DropsUnconfigured'
<1>0. /\ proc \in Passes /\ NoPass \in Passes
      /\ NoPass.removed = {} /\ NoPass.pc = "idle"
  BY NoPassTyped DEF DropInv, GenInv, Types, PassTyped, NoPass
<1>1. CASE proc' = proc
  BY <1>1 DEF DropsUnconfigured
<1>2. CASE proc' = NoPass
  BY <1>0, <1>2 DEF DropsUnconfigured
<1>3. CASE \E live \in BOOLEAN : StartPass(live)
  <2>1. proc'.removed = {} /\ proc'.pc = "claim"
    BY <1>3 DEF StartPass, NoPass
  <2> QED
    BY <2>1 DEF DropsUnconfigured
<1>4. CASE Preflight /\ proc' # NoPass
  <2>1. /\ Judged \in Passes /\ Judged.removed = Removed(proc) /\ Judged.config = proc.config
    BY <1>0, <1>4, JudgedPass DEF DropInv, GenInv, Preflight
  <2>2. proc' = Reuse(Judged) \/ proc' = [Judged EXCEPT !.pc = "stage"]
    BY <1>4, PreflightCases
  <2>3. proc'.removed = Removed(proc) /\ proc'.config = proc.config /\ proc'.pc \in {"links", "stage"}
    <3> HIDE DEF Judged
    <3> QED
      BY <2>1, <2>2 DEF Reuse, Passes
  <2> QED
    BY <2>3 DEF DropsUnconfigured, Removed
<1>5. CASE Staged \/ LinksDone
  <2>1. /\ proc'.removed = proc.removed /\ proc'.config = proc.config
        /\ proc'.todo \in {proc.removed, {}}
    BY <1>0, <1>5 DEF Staged, LinksDone, Passes
  <2> QED
    BY <2>1 DEF DropsUnconfigured
<1>6. CASE \/ ClaimBinding \/ WriteBinding \/ Stage \/ Swap \/ SwapSynced \/ PruneDone
           \/ CollectDone \/ SaveSnapshot
  <2>1. \/ proc' \in {proc, NoPass}
        \/ /\ proc'.removed = proc.removed /\ proc'.config = proc.config
           /\ proc'.pc \notin {"retain", "renamed", "prune"}
    <3>1. CASE ClaimBinding
      <4>1. binding \in {"none", "dir", "empty", "ours"}
        BY DEF DropInv, GenInv, Types, TypeOK
      <4> QED
        BY <1>0, <3>1, <4>1 DEF ClaimBinding, Passes
    <3>2. CASE WriteBinding \/ Stage \/ Swap \/ SwapSynced
      BY <1>0, <3>2 DEF WriteBinding, Stage, Swap, SwapSynced, Passes
    <3>3. CASE PruneDone \/ CollectDone \/ SaveSnapshot
      BY <1>0, <3>3 DEF PruneDone, CollectDone, SaveSnapshot, Passes
    <3> QED
      BY <1>6, <3>1, <3>2, <3>3
  <2> QED
    BY <1>1, <1>2, <2>1 DEF DropsUnconfigured
<1>7. ASSUME NEW n \in FileNames,
             \/ RetainCheck(n) \/ RetainRename(n) \/ PruneCheck(n) \/ PruneRemove(n)
      PROVE  DropsUnconfigured'
  <2>1. \/ proc' = NoPass
        \/ /\ proc'.removed = proc.removed /\ proc'.config = proc.config
           /\ proc.pc \in {"retain", "prune"} /\ proc'.todo \subseteq proc.todo
    <3>1. CASE RetainCheck(n) \/ PruneCheck(n)
      BY <1>0, <3>1 DEF RetainCheck, PruneCheck, Passes
    <3>2. CASE RetainRename(n)
      <4>1. /\ proc' = [proc EXCEPT !.pc = "renamed", !.todo = @ \ {n}, !.checked = {}]
            /\ proc.pc = "retain"
        BY <3>2 DEF RetainRename
      <4> QED
        BY <1>0, <4>1 DEF Passes
    <3>3. CASE PruneRemove(n)
      <4>1. proc' = [proc EXCEPT !.todo = @ \ {n}, !.checked = {}] /\ proc.pc = "prune"
        BY <3>3 DEF PruneRemove
      <4> QED
        BY <1>0, <4>1 DEF Passes
    <3> QED
      BY <1>7, <3>1, <3>2, <3>3
  <2> QED
    BY <1>2, <2>1 DEF DropsUnconfigured
<1>8. ASSUME NEW n \in FileNames, Link(n) PROVE DropsUnconfigured'
  <2>1. CASE Unmanaged(n)
    BY <1>2, <1>8, <2>1 DEF Link
  <2>2. CASE ~Unmanaged(n)
    <3>1. proc' = [proc EXCEPT !.todo = @ \ {n}, !.created = @ \/ ~Ours(n)] /\ proc.pc = "links"
      BY <1>8, <2>2 DEF Link
    <3>2. proc'.removed = proc.removed /\ proc'.config = proc.config /\ proc'.pc = "links"
      BY <1>0, <3>1 DEF Passes
    <3> QED
      BY <3>2 DEF DropsUnconfigured
  <2> QED
    BY <2>1, <2>2
<1>9. CASE \/ SaveCursor \/ StageFails \/ Stop \/ PowerLoss \/ EditConfig \/ NewRevision
           \/ ReaderResolves \/ \E n \in FileNames : UserPlaces(n) \/ UserTakes(n)
           \/ \E g \in Gens : Collect(g) \/ CollectStops(g)
  <2>1. proc' \in {proc, NoPass}
    BY <1>9 DEF SaveCursor, StageFails, Stop, PowerLoss, EditConfig, NewRevision, ReaderResolves,
       UserPlaces, UserTakes, Collect, CollectStops
  <2> QED
    BY <1>1, <1>2, <2>1
<1>10. CASE RetainSynced
  <2>1. /\ proc.pc = "renamed" /\ proc'.removed = proc.removed /\ proc'.config = proc.config
        /\ proc'.todo = proc.todo
    BY <1>0, <1>10 DEF RetainSynced, Passes
  <2> QED
    BY <2>1 DEF DropsUnconfigured
<1> QED
  BY <1>2, <1>3, <1>4, <1>5, <1>6, <1>7, <1>8, <1>9, <1>10 DEF Next, PassStep

LEMMA KeptSyncedStep ==
  ASSUME DropInv, Counters, KeptSynced, Next, faults' = 0
  PROVE  KeptSynced'
<1>0. /\ fsys \in Dirs /\ disk \in Dirs /\ proc \in Passes /\ PassTyped
      /\ binding \in {"none", "dir", "empty", "ours"}
  BY DEF DropInv, GenInv, Types, TypeOK, PassTyped
<1>f. /\ faults = 0 /\ ~Stop /\ ~StageFails /\ ~PowerLoss /\ \A g \in Gens : ~CollectStops(g)
  <2>1. CASE StageFails \/ (\E g \in Gens : CollectStops(g)) \/ Stop \/ PowerLoss
    BY <2>1 DEF StageFails, CollectStops, Stop, PowerLoss, Fault, Counters
  <2>2. CASE ~(StageFails \/ (\E g \in Gens : CollectStops(g)) \/ Stop \/ PowerLoss)
    BY <2>2 DEF Next, StartPass, PassStep, ClaimBinding, WriteBinding, Preflight, Stage, Staged,
       Swap, SwapSynced, LinksDone, PruneDone, CollectDone, SaveSnapshot, SaveCursor, RetainCheck,
       RetainRename, RetainSynced, Link, PruneCheck, PruneRemove, Collect, ReaderResolves,
       NewRevision, EditConfig, UserPlaces, UserTakes, Env, Rest
  <2> QED
    BY <2>1, <2>2
<1>1. CASE proc.pc \notin {"renamed", "prune"} /\ fsys'.link = fsys.link /\ disk'.link = disk.link
  BY <1>f, <1>1 DEF KeptSynced
<1>2. CASE proc' = proc /\ fsys'.link = fsys.link /\ disk'.link = disk.link
  BY <1>f, <1>2 DEF KeptSynced
<1>3. CASE \/ \E live \in BOOLEAN : StartPass(live)
           \/ ClaimBinding \/ WriteBinding \/ SaveSnapshot \/ SaveCursor
           \/ Preflight \/ Stage \/ Staged \/ Swap \/ SwapSynced \/ CollectDone
           \/ \E n \in FileNames : RetainCheck(n)
  <2>1. fsys'.link = fsys.link /\ disk'.link = disk.link
    BY <1>3, SameLinks DEF DropInv
  <2>2. proc.pc \notin {"renamed", "prune"}
    BY <1>3, NoPassTyped DEF StartPass, ClaimBinding, WriteBinding, SaveSnapshot, SaveCursor,
       Preflight, Stage, Staged, Swap, SwapSynced, CollectDone, RetainCheck
  <2> QED
    BY <1>1, <2>1, <2>2
<1>4. CASE EditConfig \/ NewRevision \/ ReaderResolves \/ \E g \in Gens : Collect(g)
  <2>1. fsys'.link = fsys.link /\ disk'.link = disk.link
    BY <1>4, SameLinks DEF DropInv
  <2>2. proc' = proc
    BY <1>4 DEF EditConfig, NewRevision, ReaderResolves, Collect
  <2> QED
    BY <1>2, <2>1, <2>2
<1>5. ASSUME NEW n \in FileNames, PruneCheck(n) PROVE KeptSynced'
  <2>1. fsys'.link = fsys.link /\ disk'.link = disk.link
    BY <1>5, SameLinks DEF DropInv
  <2>2. proc.pc = "prune" /\ proc'.pc = "prune" /\ proc'.config = proc.config
    BY <1>0, <1>5 DEF PruneCheck, Passes
  <2> QED
    BY <1>f, <2>1, <2>2 DEF KeptSynced
<1>6. CASE LinksDone
  <2>1. /\ fsys' = fsys /\ disk'.link \in {disk.link, fsys.link} /\ proc.pc = "links"
    BY <1>0, <1>6, Synced DEF LinksDone
  <2> QED
    BY <1>f, <2>1 DEF KeptSynced
<1>7. CASE RetainSynced
  <2>1. fsys' = fsys /\ disk'.link = fsys.link
    BY <1>0, <1>7, Synced DEF RetainSynced
  <2> QED
    BY <2>1 DEF KeptSynced
<1>8. CASE PruneDone
  <2>1. fsys' = fsys /\ proc.pc = "prune"
    BY <1>8 DEF PruneDone
  <2>2. CASE proc.config.onRemoved = "prune"
    <3>1. disk'.link = fsys.link
      BY <1>0, <1>8, <2>2, Synced DEF PruneDone
    <3> QED
      BY <2>1, <3>1 DEF KeptSynced
  <2>3. CASE proc.config.onRemoved # "prune"
    <3>1. disk' = disk
      BY <1>8, <2>3 DEF PruneDone
    <3> QED
      BY <1>f, <2>1, <2>3, <3>1 DEF KeptSynced
  <2> QED
    BY <2>2, <2>3
<1>9. ASSUME NEW n \in FileNames, UserPlaces(n) \/ UserTakes(n) PROVE KeptSynced'
  BY <1>f, <1>9, UserMoves DEF DropInv, KeptSynced, ForeignEntries
<1>10. ASSUME NEW n \in FileNames, RetainRename(n) PROVE KeptSynced'
  <2>1. /\ fsys'.link[n] = "kept" /\ \A m \in FileNames : m # n => fsys'.link[m] = fsys.link[m]
    BY <1>10, OneEntry DEF DropInv, RetainRename, Entries
  <2>2. disk' = disk /\ proc.pc = "retain" /\ proc'.pc = "renamed"
    BY <1>0, <1>10 DEF RetainRename, Passes
  <2> QED
    BY <1>f, <2>1, <2>2 DEF KeptSynced, ForeignEntries
<1>11. ASSUME NEW n \in FileNames, PruneRemove(n) PROVE KeptSynced'
  <2>1. fsys'.link[n] = "none" /\ \A m \in FileNames : m # n => fsys'.link[m] = fsys.link[m]
    BY <1>11, OneEntry DEF DropInv, PruneRemove, Entries
  <2>2. disk' = disk /\ proc.pc = "prune" /\ proc'.pc = "prune" /\ proc'.config = proc.config
    BY <1>0, <1>11 DEF PruneRemove, Passes
  <2>3. proc.config.onRemoved = "prune"
    BY <1>11 DEF PruneRemove, DropInv, DroppedKnown, GenInv, Types, TypeOK
  <2> QED
    BY <1>f, <2>1, <2>2, <2>3 DEF KeptSynced
<1>12. ASSUME NEW n \in FileNames, Link(n) PROVE KeptSynced'
  <2>0. disk' = disk /\ proc.pc = "links"
    BY <1>12 DEF Link
  <2>1. CASE Unmanaged(n)
    BY <1>1, <1>12, <2>0, <2>1 DEF Link
  <2>2. CASE ~Unmanaged(n)
    <3>1. fsys' = [fsys EXCEPT !.link[n] = "ours"]
      BY <1>12, <2>2, Zenon DEF Link
    <3>2. fsys'.link[n] = "ours" /\ \A m \in FileNames : m # n => fsys'.link[m] = fsys.link[m]
      BY <2>0, <3>1, OneEntry DEF DropInv, Entries
    <3>3. disk.link[n] \notin ForeignEntries
      BY <1>f, <2>0, <2>2 DEF KeptSynced, Unmanaged, ForeignEntries
    <3> QED
      BY <1>f, <2>0, <3>2, <3>3 DEF KeptSynced
  <2> QED
    BY <2>1, <2>2
<1> QED
  BY <1>f, <1>3, <1>4, <1>5, <1>6, <1>7, <1>8, <1>9, <1>10, <1>11, <1>12 DEF Next, PassStep

LEMMA WindowInvAlways == Spec => []WindowInv
<1>1. Init => WindowInv
  <2>1. Init => ForeignSynced /\ DropsUnconfigured /\ KeptSynced /\ Counters
    BY NoPassTyped DEF Init, ForeignSynced, DropsUnconfigured, KeptSynced, ForeignEntries, Counters,
       NoPass
  <2> QED
    BY <2>1, DropInvInit DEF WindowInv
<1>2. WindowInv /\ [Next]_vars => WindowInv'
  <2> SUFFICES ASSUME WindowInv, [Next]_vars PROVE WindowInv'
    OBVIOUS
  <2>1. CASE UNCHANGED vars
    BY <2>1, DropInvStep
       DEF vars, WindowInv, ForeignSynced, DropsUnconfigured, KeptSynced, Counters
  <2>2. CASE Next
    <3>1. KeptSynced'
      <4>1. CASE faults' = 0
        BY <2>2, <4>1, KeptSyncedStep DEF WindowInv
      <4>2. CASE faults' # 0
        BY <4>2 DEF KeptSynced
      <4> QED
        BY <4>1, <4>2
    <3> QED
      BY <2>2, <3>1, DropInvStep, CountersStep, ForeignSyncedStep, DropsUnconfiguredStep DEF WindowInv
  <2> QED
    BY <2>1, <2>2
<1> QED
  BY <1>1, <1>2, PTL DEF Spec

\* A step changes an entry that is not the client's only if the user takes it,
\* it has taken the place of one the client checked and now replaces or removes,
\* or the power is lost.
LEMMA ForeignEntryStays ==
  ASSUME DropInv, Next, ~PowerLoss, NEW n \in FileNames, Unmanaged(n)
  PROVE  fsys'.link[n] = fsys.link[n] \/ UserTakes(n) \/ RetainRename(n) \/ PruneRemove(n)
<1>1. CASE \/ \E live \in BOOLEAN : StartPass(live)
           \/ ClaimBinding \/ WriteBinding \/ SaveSnapshot \/ SaveCursor \/ Stop
           \/ EditConfig \/ NewRevision \/ ReaderResolves
           \/ Preflight \/ Stage \/ Staged \/ StageFails \/ Swap \/ SwapSynced \/ CollectDone
           \/ \E m \in FileNames : RetainCheck(m) \/ PruneCheck(m)
           \/ \E g \in Gens : Collect(g) \/ CollectStops(g)
  BY <1>1, SameLinks DEF DropInv
<1>2. CASE LinksDone \/ PruneDone \/ RetainSynced
  BY <1>2 DEF LinksDone, PruneDone, RetainSynced
<1>4. ASSUME NEW m \in FileNames, RetainRename(m) \/ PruneRemove(m)
      PROVE  fsys'.link[n] = fsys.link[n] \/ RetainRename(n) \/ PruneRemove(n)
  <2> SUFFICES ASSUME m # n PROVE fsys'.link[n] = fsys.link[n]
    BY <1>4
  <2>2. PICK x \in {"kept", "none"} : fsys' = [fsys EXCEPT !.link[m] = x]
    BY <1>4, Zenon DEF RetainRename, PruneRemove
  <2>3. disk' = disk
    BY <1>4 DEF RetainRename, PruneRemove
  <2> QED
    BY <2>2, <2>3, OneEntry DEF DropInv, Entries
<1>5. ASSUME NEW m \in FileNames, Link(m) PROVE fsys'.link[n] = fsys.link[n]
  <2>1. CASE Unmanaged(m)
    BY <1>5, <2>1 DEF Link
  <2>2. CASE ~Unmanaged(m)
    <3>1. fsys' = [fsys EXCEPT !.link[m] = "ours"] /\ disk' = disk
      BY <1>5, <2>2, Zenon DEF Link
    <3> QED
      BY <2>2, <3>1, OneEntry DEF DropInv, Entries
  <2> QED
    BY <2>1, <2>2
<1>6. ASSUME NEW m \in FileNames, UserPlaces(m) \/ UserTakes(m)
      PROVE  fsys'.link[n] = fsys.link[n] \/ UserTakes(n)
  <2>1. CASE m = n
    BY <1>6, <2>1 DEF UserPlaces
  <2>2. CASE m # n
    BY <1>6, <2>2, UserMoves DEF DropInv
  <2> QED
    BY <2>1, <2>2
<1> QED
  BY <1>1, <1>2, <1>4, <1>5, <1>6 DEF Next, PassStep

(* Whatever users do and when, and whatever stops the client: what is not  *)
(* the client's is replaced or removed only in retain's rename or prune's  *)
(* removal of a name the configuration has dropped and the pass has        *)
(* checked.  ensureLinks never does it, and no crash, retry or power loss  *)
(* brings back what was there before, but for a retained copy that was     *)
(* not synced.                                                             *)
THEOREM ForeignAlwaysKept == Spec => ForeignKept
<1>1. ASSUME WindowInv, Next, NEW n \in FileNames, Unmanaged(n), fsys'.link[n] # fsys.link[n],
             ~UserTakes(n), ~PowerLoss
      PROVE  n \in proc.checked \ proc.config.files
  <2>1. RetainRename(n) \/ PruneRemove(n)
    BY <1>1, ForeignEntryStays DEF WindowInv
  <2>2. n \in proc.checked /\ proc.pc \in {"retain", "prune"}
    BY <2>1 DEF RetainRename, PruneRemove
  <2>3. proc.checked \subseteq proc.todo
    BY <1>1 DEF WindowInv, DropInv, GenInv, Types, TypeOK
  <2> QED
    BY <1>1, <2>2, <2>3 DEF WindowInv, DropsUnconfigured
<1>2. ASSUME WindowInv, NEW n \in FileNames, Unmanaged(n), fsys'.link[n] # fsys.link[n], PowerLoss
      PROVE  faults' # faults /\ fsys.link[n] = "kept" /\ ~EntrySynced(n)
  <2>1. fsys'.link[n] = disk.link[n]
    BY <1>2, PowerLossDir DEF WindowInv, DropInv, GenInv
  <2>2. faults' # faults
    BY <1>2 DEF PowerLoss, Fault, WindowInv, Counters
  <2> QED
    BY <1>2, <2>1, <2>2 DEF WindowInv, ForeignSynced, EntrySynced, Unmanaged
<1>3. WindowInv /\ [Next]_vars =>
        [\A n \in FileNames : Unmanaged(n) /\ fsys'.link[n] # fsys.link[n] =>
           \/ UserTakes(n)
           \/ n \in proc.checked \ proc.config.files
           \/ faults' # faults /\ fsys.link[n] = "kept" /\ ~EntrySynced(n)]_vars
  BY <1>1, <1>2
<1> QED
  BY <1>3, WindowInvAlways, PTL DEF Spec, ForeignKept

\* Every step but a swap and a power loss leaves the current generation as it is.
LEMMA CurrentStays ==
  ASSUME GenInv, Next, ~Swap, ~PowerLoss
  PROVE  /\ fsys'.current = fsys.current
         /\ Complete(fsys, fsys.current) => fsys'.gen[fsys.current] = fsys.gen[fsys.current]
<1>0. fsys \in Dirs /\ disk \in Dirs
  BY DEF GenInv, Types, TypeOK
<1>1. CASE \/ \E live \in BOOLEAN : StartPass(live)
           \/ ClaimBinding \/ WriteBinding \/ SaveSnapshot \/ SaveCursor \/ Stop
           \/ EditConfig \/ NewRevision \/ ReaderResolves \/ SwapSynced \/ CollectDone
           \/ LinksDone \/ PruneDone \/ RetainSynced
           \/ \E n \in FileNames : RetainCheck(n) \/ PruneCheck(n)
  BY <1>1 DEF StartPass, ClaimBinding, WriteBinding, SaveSnapshot, SaveCursor, Stop, EditConfig,
              NewRevision, ReaderResolves, SwapSynced, CollectDone, LinksDone, PruneDone,
              RetainSynced, RetainCheck, PruneCheck
<1>2. CASE Preflight
  BY <1>0, <1>2, RecoveredDir DEF Preflight, Complete
<1>3. CASE Stage
  <2>1. [state |-> "torn", stamp |-> Stamp(proc), prev |-> proc.old] \in Generations
    BY <1>3, StampTyped DEF Stage, GenInv, Types, TypeOK, Generations, States
  <2>2. nextGen \in Gens
    BY <1>3 DEF Stage, GenInv, Types, TypeOK, Gens
  <2>3. Complete(fsys, fsys.current) => fsys.current # nextGen
    BY <2>2 DEF GenInv, Durable, Unstaged, Complete, NoGen, Gens
  <2> QED
    BY <1>0, <1>3, <2>1, <2>2, <2>3, WithGeneration DEF Stage, Complete
<1>4. CASE Staged \/ StageFails
  <2>1. proc.pc = "staging" /\ proc.new \in Gens
    BY <1>4 DEF Staged, StageFails, GenInv, PassKnown, StagingKnown, Retaining
  <2>2. Complete(fsys, fsys.current) => fsys.current # proc.new
    BY <2>1 DEF GenInv, PassKnown, StagingKnown, Retaining, Complete
  <2>3. CASE Staged
    BY <2>1, <2>2, <2>3, MarkedDir DEF Staged, Complete
  <2>4. CASE StageFails
    BY <1>0, <2>1, <2>2, <2>4, WithGeneration, NoGenTyped DEF StageFails, Complete
  <2> QED
    BY <1>4, <2>3, <2>4
<1>5. ASSUME NEW g \in Gens, Collect(g) \/ CollectStops(g)
      PROVE  /\ fsys'.current = fsys.current
             /\ Complete(fsys, fsys.current) => fsys'.gen[fsys.current] = fsys.gen[fsys.current]
  <2>1. g \in Garbage /\ proc.pc = "collect"
    BY <1>5 DEF Collect, CollectStops
  <2>2. g # fsys.current
    BY <2>1, GarbageUnread
  <2>3. CASE Collect(g)
    BY <1>0, <2>2, <2>3, WithGeneration, NoGenTyped DEF Collect, Complete
  <2>4. CASE CollectStops(g)
    <3>1. PICK s \in {"torn", "husk"} : fsys' = [fsys EXCEPT !.gen[g].state = s]
      BY <2>4 DEF CollectStops
    <3> QED
      BY <1>0, <2>2, <3>1, Restated DEF Complete, States
  <2> QED
    BY <1>5, <2>3, <2>4
<1>6. ASSUME NEW n \in FileNames,
             RetainRename(n) \/ Link(n) \/ PruneRemove(n) \/ UserPlaces(n) \/ UserTakes(n)
      PROVE  fsys'.current = fsys.current /\ fsys'.gen = fsys.gen
  <2>1. fsys' = fsys \/ \E x \in Entries : fsys' = [fsys EXCEPT !.link[n] = x]
    BY <1>6, Zenon DEF RetainRename, Link, PruneRemove, UserPlaces, UserTakes, Entries
  <2>2. ASSUME NEW x \in Entries, fsys' = [fsys EXCEPT !.link[n] = x]
        PROVE  fsys'.gen = fsys.gen /\ fsys'.current = fsys.current
    BY <1>0, <2>2, WithEntry
  <2> QED
    BY <2>1, <2>2
<1> QED
  BY <1>1, <1>2, <1>3, <1>4, <1>5, <1>6 DEF Next, PassStep

Entered == {"ours", "foreign", "kept"}

\* Who takes a name away: retain leaves a copy, prune and the user do not; and
\* what is not the client's does not become so, since Symlink refuses it.
LEMMA EntryStays ==
  ASSUME DropInv, Next, ~PowerLoss, NEW n \in FileNames, fsys.link[n] \in Entered
  PROVE  \/ fsys'.link[n] \in Entered /\ (fsys'.link[n] = "ours" => Ours(n))
         \/ proc.config.onRemoved = "prune"
         \/ UserTakes(n)
<1> DEFINE Stays == fsys'.link[n] \in Entered /\ (fsys'.link[n] = "ours" => Ours(n))
<1>1. CASE \/ \E live \in BOOLEAN : StartPass(live)
           \/ ClaimBinding \/ WriteBinding \/ SaveSnapshot \/ SaveCursor \/ Stop
           \/ EditConfig \/ NewRevision \/ ReaderResolves
           \/ Preflight \/ Stage \/ Staged \/ StageFails \/ Swap \/ SwapSynced \/ CollectDone
           \/ \E m \in FileNames : RetainCheck(m) \/ PruneCheck(m)
           \/ \E g \in Gens : Collect(g) \/ CollectStops(g)
  BY <1>1, SameLinks DEF DropInv, Ours
<1>2. CASE LinksDone \/ PruneDone \/ RetainSynced
  BY <1>2 DEF LinksDone, PruneDone, RetainSynced, Ours
<1>3. ASSUME NEW m \in FileNames, PruneRemove(m)
      PROVE  proc.config.onRemoved = "prune"
  <2>1. proc.pc = "prune" /\ proc.todo # {}
    BY <1>3 DEF PruneRemove, DropInv, GenInv, Types, TypeOK
  <2> QED
    BY <2>1 DEF DropInv, DroppedKnown
<1>4. ASSUME NEW m \in FileNames, RetainRename(m) PROVE Stays
  <2>1. fsys' = [fsys EXCEPT !.link[m] = "kept"] /\ disk' = disk
    BY <1>4 DEF RetainRename
  <2> QED
    BY <2>1, OneEntry DEF DropInv, Entries, Ours, Entered
<1>5. ASSUME NEW m \in FileNames, Link(m) PROVE Stays
  <2>1. CASE Unmanaged(m)
    BY <1>5, <2>1 DEF Link, Ours
  <2>2. CASE ~Unmanaged(m)
    <3>1. fsys' = [fsys EXCEPT !.link[m] = "ours"] /\ disk' = disk
      BY <1>5, <2>2, Zenon DEF Link
    <3> QED
      BY <2>2, <3>1, OneEntry DEF DropInv, Entries, Ours, Entered, Unmanaged
  <2> QED
    BY <2>1, <2>2
<1>6. ASSUME NEW m \in FileNames, UserPlaces(m) \/ UserTakes(m) PROVE Stays \/ UserTakes(n)
  BY <1>6, UserMoves DEF DropInv, Ours, Entered
<1> QED
  BY <1>1, <1>2, <1>3, <1>4, <1>5, <1>6 DEF Next, PassStep

\* Nothing but a power loss, a prune and the user makes a name unreadable.
LEMMA ReadableStays ==
  ASSUME DropInv, Next, ~PowerLoss, NEW n \in FileNames, Readable(fsys, n), ~Readable(fsys', n)
  PROVE  UserTakes(n) \/ proc.config.onRemoved = "prune"
<1>1. fsys.link[n] \in Entered
  BY DEF Readable, Entered
<1>2. CASE Unmanaged(n)
  BY <1>1, <1>2, EntryStays DEF Unmanaged, Readable, Entered, Ours
<1>3. CASE ~Unmanaged(n)
  <2>0. Ours(n) /\ Complete(fsys, fsys.current) /\ n \in Files(fsys, fsys.current)
    BY <1>3 DEF Readable, Unmanaged, Ours
  <2>1. CASE Swap
    <3>1. /\ proc.pc = "retain" /\ proc.todo = {} /\ proc.new \in Gens
          /\ fsys.gen[proc.new].stamp = Stamp(proc) /\ fsys.gen[proc.new].state = "complete"
          /\ proc.config.onRemoved \in {"refuse", "retain", "prune"}
      BY <2>1, FileSyncAssumption
         DEF Swap, DropInv, GenInv, Types, PassTyped, PassKnown, StagingKnown, Retaining, Configs
    <3>2. fsys'.link = fsys.link /\ fsys'.gen = fsys.gen /\ fsys'.current = proc.new
      BY <2>1, DirFields DEF Swap, DropInv, GenInv, Types, TypeOK
    <3>3. n \notin proc.config.files
      BY <2>0, <3>1, <3>2 DEF Readable, Ours, Complete, Files, Stamp
    <3>4. n \in proc.removed /\ (proc.config.onRemoved = "retain" => n \in proc.todo)
      BY <2>0, <3>1, <3>3 DEF DropInv, DroppedKnown, Retaining, Dropping
    <3>5. proc.config.onRemoved # "refuse"
      BY <3>1, <3>4 DEF DropInv, DroppedKnown, Retaining, Dropping
    <3> QED
      BY <3>1, <3>4, <3>5
  <2>2. CASE ~Swap
    <3>1. /\ fsys'.current = fsys.current
          /\ fsys'.gen[fsys.current] = fsys.gen[fsys.current]
      BY <2>0, <2>2, CurrentStays DEF DropInv
    <3>2. fsys'.link[n] \in Entered \/ proc.config.onRemoved = "prune" \/ UserTakes(n)
      BY <1>1, EntryStays
    <3> QED
      BY <2>0, <3>1, <3>2 DEF Readable, Complete, Files, Entered
  <2> QED
    BY <2>1, <2>2
<1> QED
  BY <1>2, <1>3

(* Whatever users do and when, a name that can be read stays so unless the *)
(* policy is prune or its user takes it away: through the swap, retained   *)
(* or not, through crashes, and through a power loss that found it         *)
(* readable on disk, the first fault or under the same entry as in memory  *)
(* (a retention stopped between rename and sync is neither).               *)
THEOREM NamesNeverLost == Spec => NoNameLost
<1>1. ASSUME WindowInv, Next, NEW n \in FileNames, Readable(fsys, n), ~Readable(fsys', n),
             faults' # faults => Readable(disk, n) /\ (faults = 0 \/ EntrySynced(n))
      PROVE  UserTakes(n) \/ proc.config.onRemoved = "prune"
  <2>0. CASE ~PowerLoss
    BY <1>1, <2>0, ReadableStays DEF WindowInv
  <2>1. CASE PowerLoss
    <3>0. Readable(disk, n) /\ (faults = 0 \/ disk.link[n] = fsys.link[n])
      BY <1>1, <2>1 DEF PowerLoss, Fault, WindowInv, Counters, EntrySynced
    <3>1. /\ fsys'.current \in {disk.current, fsys.current}
          /\ fsys'.link[n] \in {disk.link[n], fsys.link[n]}
          /\ \A g \in Gens : fsys.gen[g] = disk.gen[g] => fsys'.gen[g] = fsys.gen[g]
      BY <1>1, <2>1, PowerLossDir DEF WindowInv, DropInv, GenInv
    <3>2. fsys'.link[n] = "ours"
      BY <1>1, <3>0, <3>1 DEF Readable
    <3>3. \A c \in {fsys.current, disk.current} :
            c \in Gens => Complete(fsys, c) /\ disk.gen[c] = fsys.gen[c]
      BY <1>1 DEF WindowInv, DropInv, GenInv, Durable, NamedIsSynced, Gens
    <3>4. CASE disk.link[n] = fsys.link[n]
      <4>1. \A c \in {fsys.current, disk.current} : c \in Gens /\ n \in fsys.gen[c].stamp.files
        BY <1>1, <3>0, <3>1, <3>2, <3>3, <3>4 DEF Readable, Complete, Files
      <4> QED
        BY <1>1, <3>1, <3>2, <3>3, <4>1 DEF Readable, Complete, Files
    <3>5. CASE disk.link[n] # fsys.link[n]
      <4>1. faults = 0 /\ fsys.link[n] \in Entered /\ disk.link[n] \in Entered
        BY <1>1, <3>0, <3>5 DEF Readable, Entered
      <4>2. disk.link[n] = "ours" /\ fsys.link[n] \in ForeignEntries
        BY <1>1, <3>1, <3>2, <3>5, <4>1 DEF WindowInv, KeptSynced, ForeignEntries, Entered
      <4>3. proc.pc = "renamed"
        BY <1>1, <4>1, <4>2 DEF WindowInv, KeptSynced, ForeignSynced, ForeignEntries
      <4>4. disk.current = fsys.current
        BY <1>1, <4>3 DEF WindowInv, DropInv, GenInv, PassKnown, StagingKnown, Retaining
      <4>5. fsys.current \in Gens /\ n \in disk.gen[fsys.current].stamp.files
        BY <3>0, <4>2, <4>4 DEF Readable, Complete, Files, ForeignEntries
      <4> QED
        BY <1>1, <3>1, <3>2, <3>3, <4>4, <4>5 DEF Readable, Complete, Files
    <3> QED
      BY <3>4, <3>5
  <2> QED
    BY <2>0, <2>1
<1>2. WindowInv /\ [Next]_vars =>
        [\A n \in FileNames :
           /\ Readable(fsys, n) /\ ~Readable(fsys', n)
           /\ faults' # faults => Readable(disk, n) /\ (faults = 0 \/ EntrySynced(n))
           => UserTakes(n) \/ proc.config.onRemoved = "prune"]_vars
  BY <1>1
<1> QED
  BY <1>2, WindowInvAlways, PTL DEF Spec, NoNameLost

-----------------------------------------------------------------------------
(* What the saved cursor claims.                                           *)

CursorStamped ==
  cursor.rev # 0 => cursor.stamp = [files |-> cursor.config.files, val |-> Value[cursor.rev]]

CursorCurrent == cursor.rev # 0 /\ cursor.config = config

\* Before the first edit everything is of one configuration; after it a cursor
\* of the new one was saved by a pass that had pruned, and no pass of the old
\* one is left to link its names again.
CursorKnown ==
  /\ edits = 0 => /\ cursor.rev # 0 => cursor.config = config
                  /\ proc # NoPass => proc.config = config
  /\ CursorCurrent => proc = NoPass \/ proc.config = config
  /\ CursorCurrent /\ config.onRemoved = "prune" =>
       \A n \in FileNames \ config.files : fsys.link[n] # "ours" /\ disk.link[n] # "ours"

ClaimInv == DropInv /\ Counters /\ CursorStamped /\ CursorKnown

\* Where managed names come from: they were there, or this pass publishes them.
LEMMA ManagedFrom ==
  ASSUME DropInv, Next, NEW n \in FileNames, fsys'.link[n] = "ours" \/ disk'.link[n] = "ours"
  PROVE  \/ fsys.link[n] = "ours" \/ disk.link[n] = "ours"
         \/ proc # NoPass /\ n \in proc.config.files
<1>0. fsys \in Dirs /\ disk \in Dirs
  BY DEF DropInv, GenInv, Types, TypeOK
<1>1. CASE \/ \E live \in BOOLEAN : StartPass(live)
           \/ ClaimBinding \/ WriteBinding \/ SaveSnapshot \/ SaveCursor \/ Stop
           \/ EditConfig \/ NewRevision \/ ReaderResolves
           \/ Preflight \/ Stage \/ Staged \/ StageFails \/ Swap \/ SwapSynced \/ CollectDone
           \/ \E m \in FileNames : RetainCheck(m) \/ PruneCheck(m)
           \/ \E g \in Gens : Collect(g) \/ CollectStops(g)
  BY <1>1, SameLinks DEF DropInv
<1>2. CASE LinksDone \/ PruneDone \/ RetainSynced
  BY <1>0, <1>2, Synced DEF LinksDone, PruneDone, RetainSynced
<1>3. CASE PowerLoss
  BY <1>3, PowerLossDir DEF DropInv, GenInv
<1>4. ASSUME NEW m \in FileNames,
             RetainRename(m) \/ PruneRemove(m) \/ UserPlaces(m) \/ UserTakes(m)
      PROVE  fsys.link[n] = "ours" \/ disk.link[n] = "ours"
  <2>1. CASE RetainRename(m) \/ PruneRemove(m)
    <3>1. PICK x \in {"kept", "none"} : fsys' = [fsys EXCEPT !.link[m] = x]
      BY <2>1, Zenon DEF RetainRename, PruneRemove
    <3>2. disk' = disk
      BY <2>1 DEF RetainRename, PruneRemove
    <3> QED
      BY <3>1, <3>2, OneEntry DEF DropInv, Entries
  <2>2. CASE UserPlaces(m) \/ UserTakes(m)
    BY <2>2, UserMoves DEF DropInv
  <2> QED
    BY <1>4, <2>1, <2>2
<1>5. ASSUME NEW m \in FileNames, Link(m)
      PROVE  \/ fsys.link[n] = "ours" \/ disk.link[n] = "ours"
             \/ proc # NoPass /\ n \in proc.config.files
  <2>1. CASE Unmanaged(m)
    BY <1>5, <2>1 DEF Link
  <2>2. CASE ~Unmanaged(m)
    <3>1. fsys' = [fsys EXCEPT !.link[m] = "ours"] /\ disk' = disk
      BY <1>5, <2>2, Zenon DEF Link
    <3>2. m \in proc.config.files /\ proc # NoPass
      BY <1>5, NoPassTyped DEF Link, DropInv, DroppedKnown
    <3> QED
      BY <3>1, <3>2, OneEntry DEF DropInv, Entries
  <2> QED
    BY <2>1, <2>2
<1> QED
  BY <1>1, <1>2, <1>3, <1>4, <1>5 DEF Next, PassStep

\* The steps that change neither the configuration nor the cursor, and end the
\* pass, start one with the configuration or go on with the one under way.
LEMMA ClaimUnmoved ==
  ASSUME ClaimInv, Next, ~EditConfig, ~SaveCursor
  PROVE  /\ UNCHANGED <<config, cursor, edits>>
         /\ proc' # NoPass => proc'.config = (IF proc = NoPass THEN config ELSE proc.config)
<1>0. proc \in Passes /\ binding \in {"none", "dir", "empty", "ours"}
  BY DEF ClaimInv, DropInv, GenInv, Types, TypeOK, PassTyped
<1>1. ASSUME NEW live \in BOOLEAN, StartPass(live)
      PROVE  /\ UNCHANGED <<config, cursor, edits>>
             /\ proc = NoPass /\ proc'.config = config
  BY <1>1 DEF StartPass, NoPass, Rest
<1>2. CASE StageFails \/ (\E g \in Gens : CollectStops(g)) \/ Stop \/ PowerLoss
  BY <1>2 DEF StageFails, CollectStops, Stop, PowerLoss
<1>3. CASE ReaderResolves \/ NewRevision
           \/ (\E n \in FileNames : UserPlaces(n) \/ UserTakes(n)) \/ (\E g \in Gens : Collect(g))
  <2>1. UNCHANGED <<config, cursor, edits, proc>>
    BY <1>3 DEF ReaderResolves, NewRevision, UserPlaces, UserTakes, Collect, Env, Rest
  <2>2. proc = NoPass \/ proc # NoPass
    OBVIOUS
  <2> QED
    BY <2>1, <2>2
<1>4. CASE PassStep /\ ~(\E g \in Gens : Collect(g))
  <2>1. proc # NoPass
    <3>1. proc.pc # "idle"
      <4>1. CASE \E n \in FileNames : \/ RetainCheck(n) \/ RetainRename(n) \/ Link(n)
                                  \/ PruneCheck(n) \/ PruneRemove(n)
        BY <4>1 DEF RetainCheck, RetainRename, Link, PruneCheck, PruneRemove
      <4> QED
        BY <1>4, <4>1 DEF PassStep, ClaimBinding, WriteBinding, Preflight, Stage, Staged, Swap,
          SwapSynced, LinksDone, PruneDone, CollectDone, SaveSnapshot, SaveCursor, RetainSynced
    <3> QED
      BY <3>1, NoPassTyped
  <2>2. UNCHANGED <<config, cursor, edits>>
    BY <1>4 DEF PassStep, ClaimBinding, WriteBinding, Preflight, Stage, Staged, Swap, SwapSynced,
       LinksDone, PruneDone, CollectDone, SaveSnapshot, RetainCheck, RetainRename, RetainSynced, Link,
       PruneCheck, PruneRemove, Env, Rest
  <2>3. proc' = NoPass \/ proc'.config = proc.config
    <3>1. CASE ClaimBinding
      BY <1>0, <3>1 DEF ClaimBinding, Passes
    <3>2. CASE \/ WriteBinding \/ Stage \/ Staged \/ Swap \/ SwapSynced \/ LinksDone \/ PruneDone
               \/ SaveSnapshot \/ RetainSynced
      BY <1>0, <3>2 DEF WriteBinding, Stage, Staged, Swap, SwapSynced, LinksDone, PruneDone,
         SaveSnapshot, RetainSynced, Passes
    <3>3. CASE CollectDone
      BY <1>0, <3>3 DEF CollectDone, Passes
    <3>4. CASE Preflight
      <4>1. Judged \in Passes /\ Judged.config = proc.config
        BY <3>4, JudgedPass DEF ClaimInv, DropInv, GenInv, Preflight
      <4>2. proc' = NoPass \/ proc' = Reuse(Judged) \/ proc' = [Judged EXCEPT !.pc = "stage"]
        BY <3>4, PreflightCases
      <4> HIDE DEF Judged
      <4> QED
        BY <4>1, <4>2 DEF Reuse, Passes
    <3>5. ASSUME NEW n \in FileNames,
                 RetainCheck(n) \/ RetainRename(n) \/ PruneCheck(n) \/ PruneRemove(n)
          PROVE  proc' = NoPass \/ proc'.config = proc.config
      BY <1>0, <3>5 DEF RetainCheck, RetainRename, PruneCheck, PruneRemove, Passes
    <3>6. ASSUME NEW n \in FileNames, Link(n) PROVE proc' = NoPass \/ proc'.config = proc.config
      BY <1>0, <3>6 DEF Link, Passes
    <3> QED
      BY <1>4, <3>1, <3>2, <3>3, <3>4, <3>5, <3>6 DEF PassStep
  <2> QED
    BY <2>1, <2>2, <2>3
<1> QED
  BY <1>1, <1>2, <1>3, <1>4 DEF Next

LEMMA ClaimInvStep ==
  ASSUME MaxEdits <= 1
  PROVE  ClaimInv /\ [Next]_vars => ClaimInv'
<1> SUFFICES ASSUME ClaimInv, [Next]_vars PROVE ClaimInv'
  OBVIOUS
<1>1. DropInv'
  BY DropInvStep DEF ClaimInv
<1>2. CASE UNCHANGED vars
  BY <1>1, <1>2 DEF vars, ClaimInv, Counters, CursorStamped, CursorKnown, CursorCurrent
<1>3. CASE Next
  <2>1. Counters'
    BY <1>3, CountersStep DEF ClaimInv
  <2>2. CASE SaveCursor
    <3>1. /\ proc.pc = "saved" /\ proc' = NoPass /\ UNCHANGED <<fsys, disk, config, edits>>
          /\ cursor'.rev = proc.rev /\ cursor'.config = proc.config /\ cursor'.stamp = Stamp(proc)
      BY <2>2 DEF SaveCursor, Env
    <3>2. proc # NoPass
      BY <3>1, NoPassTyped
    <3>3. CursorStamped'
      BY <3>1 DEF CursorStamped, Stamp
    <3>4. CursorKnown'
      BY <3>1, <3>2 DEF ClaimInv, CursorKnown, CursorCurrent, DropInv, DroppedKnown
    <3> QED
      BY <1>1, <2>1, <3>3, <3>4 DEF ClaimInv
  <2>3. CASE EditConfig
    <3>1. edits = 0 /\ edits' # 0 /\ config' # config /\ cursor' = cursor
      BY <2>3, FileSyncAssumption DEF EditConfig, ClaimInv, Counters
    <3>2. ~CursorCurrent'
      BY <3>1 DEF ClaimInv, CursorKnown, CursorCurrent
    <3> QED
      BY <1>1, <2>1, <3>1, <3>2 DEF ClaimInv, CursorStamped, CursorKnown
  <2>4. CASE ~EditConfig /\ ~SaveCursor
    <3>1. /\ UNCHANGED <<config, cursor, edits>>
          /\ proc' # NoPass => proc'.config = (IF proc = NoPass THEN config ELSE proc.config)
      BY <1>3, <2>4, ClaimUnmoved
    <3>2. CursorStamped'
      BY <3>1 DEF ClaimInv, CursorStamped
    <3>3. /\ edits' = 0 => /\ cursor'.rev # 0 => cursor'.config = config'
                           /\ proc' # NoPass => proc'.config = config'
          /\ CursorCurrent' => proc' = NoPass \/ proc'.config = config'
      BY <3>1 DEF ClaimInv, CursorKnown, CursorCurrent
    <3>4. ASSUME CursorCurrent', config'.onRemoved = "prune", NEW n \in FileNames \ config'.files
          PROVE  fsys'.link[n] # "ours" /\ disk'.link[n] # "ours"
      <4>1. /\ fsys.link[n] # "ours" /\ disk.link[n] # "ours"
            /\ proc # NoPass => n \notin proc.config.files
        BY <3>1, <3>4 DEF ClaimInv, CursorKnown, CursorCurrent
      <4> QED
        BY <1>3, <4>1, ManagedFrom DEF ClaimInv
    <3>5. CursorKnown'
      BY <3>3, <3>4 DEF CursorKnown
    <3> QED
      BY <1>1, <2>1, <3>2, <3>5 DEF ClaimInv
  <2> QED
    BY <2>2, <2>3, <2>4
<1> QED
  BY <1>2, <1>3

(* A pass that publishes nothing is right to, while the configuration was  *)
(* edited at most once: the current generation holds the server's revision *)
(* under every configured name, and under prune no managed link is left.   *)
(* After a second edit that restores the first configuration the claim     *)
(* about pruned names fails: the stamp does not tell the two apart.        *)
THEOREM ClaimsHoldThroughOneEdit ==
  ASSUME MaxEdits <= 1
  PROVE  Spec => []CurrentClaimHolds
<1>1. Init => ClaimInv
  <2>1. Init => Counters /\ CursorStamped /\ CursorKnown
    BY NoPassTyped DEF Init, Counters, CursorStamped, CursorKnown, CursorCurrent, NoCursor
  <2> QED
    BY <2>1, DropInvInit DEF ClaimInv
<1>2. ClaimInv => CurrentClaimHolds
  BY DEF ClaimInv, CursorStamped, CursorKnown, CursorCurrent, CurrentClaimHolds, ClaimsCurrent,
         Presented, Ours
<1> QED
  BY <1>1, <1>2, ClaimInvStep, PTL DEF Spec

-----------------------------------------------------------------------------

(***************************************************************************)
(* The adapter runtime                                                     *)
(***************************************************************************)

\* A worker between its intent and the outcome, and one that knows its revision.
Acting == {"prepared", "sent", "replied"}
Pulled == Acting \cup {"loaded", "syncing"}

\* Rows are referred to by the numbers they have.
Indexed ==
  /\ target.active \in 0..Len(jobs)
  /\ \A w \in Workers : worker[w].pc # "idle" =>
       worker[w].job \in 1..Len(jobs) /\ worker[w].deadline <= now + AttemptTimeout
  /\ \A w \in Workers : worker[w].pc \in Acting => worker[w].effect \in 1..Len(effects)
  /\ \A q \in wire : q.effect \in 1..Len(effects)
  /\ \A e \in 1..Len(effects) : effects[e].job \in 1..Len(jobs)

OwnedIsRunning == \A i \in 1..Len(jobs) : jobs[i].owner # "none" => jobs[i].state = "running"

\* Two workers never act on one intent.
EffectsApart ==
  \A v, w \in Workers :
    v # w /\ worker[v].pc \in Acting /\ worker[w].pc \in Acting =>
      worker[v].effect # worker[w].effect

\* An intent is on the wire at most once, only while it is sent, and while its
\* request is live the target's lease is its lease.
WireKnown ==
  /\ \A w \in Workers :
       worker[w].pc \in {"prepared", "replied"} => \A q \in wire : q.effect # worker[w].effect
  /\ \A q, r \in wire : q.effect = r.effect => q = r
  /\ \A q \in wire :
       Live(q) => /\ target.lease # NoLease
                  /\ target.lease.effect = q.effect
                  /\ target.lease.until = q.until

\* Until its deadline a prepared worker holds the provider lease, beyond it.
PreparedHolds ==
  \A w \in Workers : worker[w].pc = "prepared" /\ now < worker[w].deadline =>
    /\ target.lease # NoLease
    /\ target.lease.effect = worker[w].effect
    /\ target.lease.until > worker[w].deadline

QueueInv ==
  /\ RowsTypeOK /\ Indexed /\ OwnedIsRunning /\ OpenJobIsActive
  /\ EffectsApart /\ WireKnown /\ PreparedHolds

-----------------------------------------------------------------------------
(* Types.                                                                  *)

\* The rows and their parts.
LEMMA WorkerParts ==
  ASSUME RowsTypeOK, NEW w \in Workers
  PROVE  /\ worker[w] \in Procs
         /\ worker[w].job \in Nat /\ worker[w].deadline \in Nat /\ worker[w].rev \in Nat
         /\ worker[w].snap \in [Names -> Claims]
         /\ worker[w].listed \subseteq Names /\ worker[w].done \subseteq Names
         /\ worker[w].effect \in Nat /\ worker[w].reply \in Replies
BY DEF RowsTypeOK, Procs

LEMMA JobParts ==
  ASSUME RowsTypeOK
  PROVE  /\ Len(jobs) \in Nat /\ DOMAIN jobs = 1..Len(jobs)
         /\ \A i \in 1..Len(jobs) :
              /\ jobs[i] \in Jobs /\ jobs[i].kind \in {"converge", "scrub"}
              /\ jobs[i].gen \in Nat /\ jobs[i].until \in Nat
              /\ jobs[i].state \in {"queued", "running", "succeeded", "failed", "superseded"}
<1>1. jobs \in Seq(Jobs)
  BY DEF RowsTypeOK
<1>2. Len(jobs) \in Nat /\ DOMAIN jobs = 1..Len(jobs) /\ \A i \in 1..Len(jobs) : jobs[i] \in Jobs
  BY <1>1
<1> QED BY <1>2 DEF Jobs

LEMMA EffectParts ==
  ASSUME RowsTypeOK
  PROVE  /\ Len(effects) \in Nat /\ DOMAIN effects = 1..Len(effects)
         /\ \A e \in 1..Len(effects) :
              /\ effects[e] \in Effects /\ effects[e].job \in Nat /\ effects[e].name \in Names
              /\ effects[e].rev \in Nat /\ effects[e].delete \in BOOLEAN
<1>1. effects \in Seq(Effects)
  BY DEF RowsTypeOK
<1>2. /\ Len(effects) \in Nat /\ DOMAIN effects = 1..Len(effects)
      /\ \A e \in 1..Len(effects) : effects[e] \in Effects
  BY <1>1
<1> QED BY <1>2 DEF Effects

LEMMA TargetParts ==
  ASSUME RowsTypeOK
  PROVE  /\ target \in Targets /\ target.gen \in Nat /\ target.paused \in BOOLEAN
         /\ target.active \in Nat /\ target.converged \in Nat /\ target.attempted \in Nat
         /\ target.lease \in Leases \cup {NoLease}
         /\ target.lease # NoLease => target.lease.until \in Nat /\ target.lease.effect \in Nat
BY DEF RowsTypeOK, Targets, Leases

LEMMA IdleType == Idle \in Procs
BY DEF Idle, Procs, Unclaimed, Claims, Replies

\* Rewriting the members of a sequence one by one, and appending.
LEMMA Rewritten ==
  ASSUME NEW S, NEW s \in Seq(S), NEW f, DOMAIN f = 1..Len(s),
         f = [i \in 1..Len(s) |-> f[i]], \A i \in 1..Len(s) : f[i] \in S
  PROVE  f \in Seq(S) /\ Len(f) = Len(s)
<1>1. f \in [1..Len(s) -> S]
  OBVIOUS
<1> QED BY <1>1

LEMMA Appended ==
  ASSUME NEW S, NEW s \in Seq(S), NEW x \in S
  PROVE  /\ Append(s, x) \in Seq(S)
         /\ Len(Append(s, x)) = Len(s) + 1
         /\ Append(s, x)[Len(s) + 1] = x
         /\ \A i \in 1..Len(s) : Append(s, x)[i] = s[i]
OBVIOUS

-----------------------------------------------------------------------------
(* What the triggers do.                                                   *)

\* Jobs keep their kind and their generation.
JobsKept ==
  /\ Len(jobs) <= Len(jobs')
  /\ \A i \in 1..Len(jobs) : jobs'[i].kind = jobs[i].kind /\ jobs'[i].gen = jobs[i].gen

\* Every job so far is closed, and the new one, if any, is queued under the
\* new generation.
Triggered ==
  /\ jobs' \in Seq(Jobs) /\ Len(jobs') \in {Len(jobs), Len(jobs) + 1} /\ JobsKept
  /\ \A i \in 1..Len(jobs) : ~Open(jobs'[i]) /\ jobs'[i].owner = "none"
  /\ Len(jobs') = Len(jobs) => target'.active = 0 /\ target'.lease = NoLease
                               /\ (target'.state = "active" => target'.status = target.status)
  /\ Len(jobs') = Len(jobs) + 1 =>
       /\ target'.active = Len(jobs') /\ target'.status = "converging"
       /\ Open(jobs'[Len(jobs')]) /\ jobs'[Len(jobs')].owner = "none"
       /\ jobs'[Len(jobs')].gen = target'.gen
       /\ jobs'[Len(jobs')].kind = "converge" => target'.state = "active" /\ ~target'.paused
       /\ jobs'[Len(jobs')].kind = "scrub" => target'.state = "tombstoned"
  /\ target' \in Targets /\ target'.gen = target.gen + 1 /\ target.state = "active"
  /\ target'.lease = target.lease \/ (~Busy /\ target'.lease = NoLease)
  /\ target'.converged = target.converged
  /\ UNCHANGED <<effects, worker, wire, provider, now>>

LEMMA Superseded ==
  ASSUME RowsTypeOK, NEW j \in Nat
  PROVE  /\ Supersede(jobs, j) \in Seq(Jobs) /\ Len(Supersede(jobs, j)) = Len(jobs)
         /\ \A i \in 1..Len(jobs) :
              /\ Supersede(jobs, j)[i].kind = jobs[i].kind
              /\ Supersede(jobs, j)[i].gen = jobs[i].gen
              /\ i # j => Supersede(jobs, j)[i] = jobs[i]
              /\ i = j /\ Open(jobs[i]) => /\ ~Open(Supersede(jobs, j)[i])
                                           /\ Supersede(jobs, j)[i].owner = "none"
              /\ ~Open(jobs[i]) => Supersede(jobs, j)[i] = jobs[i]
<1> DEFINE s == Supersede(jobs, j)
<1>1. /\ jobs \in Seq(Jobs)
      /\ s = [i \in 1..Len(jobs) |->
               IF i = j /\ Open(jobs[i])
                 THEN [jobs[i] EXCEPT !.state = "superseded", !.owner = "none", !.until = 0]
                 ELSE jobs[i]]
  BY JobParts DEF Supersede, RowsTypeOK
<1>2. ASSUME NEW i \in 1..Len(jobs) PROVE s[i] \in Jobs
  <2>1. jobs[i] \in Jobs
    BY JobParts
  <2>2. [jobs[i] EXCEPT !.state = "superseded", !.owner = "none", !.until = 0] \in Jobs
    BY <2>1 DEF Jobs
  <2> QED BY <1>1, <2>1, <2>2
<1>3. s \in Seq(Jobs) /\ Len(s) = Len(jobs)
  <2>1. DOMAIN s = 1..Len(jobs) /\ s = [i \in 1..Len(jobs) |-> s[i]]
    BY <1>1
  <2>2. jobs \in Seq(Jobs)
    BY <1>1
  <2> HIDE DEF s
  <2> QED BY <1>2, <2>1, <2>2, Rewritten
<1>4. ASSUME NEW i \in 1..Len(jobs)
      PROVE /\ s[i].kind = jobs[i].kind
            /\ s[i].gen = jobs[i].gen
            /\ i # j => s[i] = jobs[i]
            /\ i = j /\ Open(jobs[i]) => ~Open(s[i]) /\ s[i].owner = "none"
            /\ ~Open(jobs[i]) => s[i] = jobs[i]
  <2>1. CASE i = j /\ Open(jobs[i])
    <3>1. s[i] = [jobs[i] EXCEPT !.state = "superseded", !.owner = "none", !.until = 0]
      BY <1>1, <2>1
    <3> QED BY <2>1, <3>1, JobParts DEF Open, Jobs
  <2>2. CASE ~(i = j /\ Open(jobs[i]))
    <3>1. s[i] = jobs[i]
      BY <1>1, <2>2
    <3> QED BY <2>2, <3>1
  <2> QED BY <2>1, <2>2
<1> QED BY <1>3, <1>4

\* A closed job has no owner.
LEMMA ClosedHasNoOwner ==
  ASSUME QueueInv, NEW i \in 1..Len(jobs), ~Open(jobs[i])
  PROVE  jobs[i].owner = "none"
BY DEF QueueInv, OwnedIsRunning, Open

\* Superseding the active job closes all.
LEMMA ActiveSuperseded ==
  ASSUME QueueInv
  PROVE  /\ Supersede(jobs, target.active) \in Seq(Jobs)
         /\ Len(Supersede(jobs, target.active)) = Len(jobs)
         /\ \A i \in 1..Len(jobs) :
              /\ Supersede(jobs, target.active)[i].kind = jobs[i].kind
              /\ Supersede(jobs, target.active)[i].gen = jobs[i].gen
              /\ ~Open(Supersede(jobs, target.active)[i])
              /\ Supersede(jobs, target.active)[i].owner = "none"
<1> DEFINE s == Supersede(jobs, target.active)
<1>1. RowsTypeOK /\ target.active \in Nat
  BY TargetParts DEF QueueInv
<1>2. \A i \in 1..Len(jobs) : Open(jobs[i]) => i = target.active
  BY <1>1, JobParts DEF QueueInv, OpenJobIsActive
<1>3. ASSUME NEW i \in 1..Len(jobs) PROVE ~Open(s[i]) /\ s[i].owner = "none"
  <2>1. CASE Open(jobs[i])
    BY <1>1, <1>2, <2>1, Superseded
  <2>2. CASE ~Open(jobs[i])
    BY <1>1, <2>2, Superseded, ClosedHasNoOwner
  <2> QED BY <2>1, <2>2
<1> QED BY <1>1, <1>3, Superseded

LEMMA EnqueueTriggers ==
  ASSUME QueueInv, Enqueue, target.state = "active",
         UNCHANGED <<effects, worker, wire, provider, now>>
  PROVE  Triggered
<1> DEFINE s == Supersede(jobs, target.active)
           x == Queue("converge", target.gen + 1)
<1>1. RowsTypeOK /\ Len(jobs) \in Nat
  BY JobParts DEF QueueInv
<1>2. x \in Jobs /\ Open(x) /\ x.owner = "none" /\ x.kind = "converge" /\ x.gen = target.gen + 1
  BY <1>1, TargetParts DEF Queue, Jobs, Open
<1>3. jobs' = Append(s, x) /\ s \in Seq(Jobs) /\ Len(s) = Len(jobs)
  BY ActiveSuperseded DEF Enqueue
<1>4. /\ jobs' \in Seq(Jobs) /\ Len(jobs') = Len(jobs) + 1 /\ jobs'[Len(jobs')] = x
      /\ \A i \in 1..Len(jobs) : jobs'[i] = s[i]
  <2> HIDE DEF s, x
  <2> QED BY <1>1, <1>2, <1>3, Appended
<1>5. /\ target' \in Targets /\ target'.gen = target.gen + 1 /\ target'.active = Len(jobs')
      /\ target'.status = "converging" /\ target'.state = "active" /\ ~target'.paused
      /\ target'.lease = target.lease /\ target'.converged = target.converged
  <2> DEFINE g == target.gen + 1
             m == Len(jobs) + 1
  <2>1. g \in Nat /\ m \in Nat /\ target \in Targets /\ m = Len(jobs')
    BY <1>1, <1>4, TargetParts
  <2>2. target' = [target EXCEPT !.gen = g, !.status = "converging", !.active = m, !.paused = FALSE]
    BY DEF Enqueue
  <2>3. g = target.gen + 1
    OBVIOUS
  <2> HIDE DEF g, m
  <2>4. target' \in Targets
    BY <2>1, <2>2 DEF Targets
  <2> QED BY <2>1, <2>2, <2>3, <2>4 DEF Targets
<1> QED BY <1>1, <1>2, <1>4, <1>5, ActiveSuperseded DEF Triggered, JobsKept

LEMMA TeardownScrubTriggers ==
  ASSUME QueueInv, TeardownScrub
  PROVE  Triggered
<1> DEFINE s == Supersede(jobs, target.active)
           x == Queue("scrub", target.gen + 1)
<1>1. RowsTypeOK /\ Len(jobs) \in Nat
  BY JobParts DEF QueueInv
<1>2. x \in Jobs /\ Open(x) /\ x.owner = "none" /\ x.kind = "scrub" /\ x.gen = target.gen + 1
  BY <1>1, TargetParts DEF Queue, Jobs, Open
<1>3. jobs' = Append(s, x) /\ s \in Seq(Jobs) /\ Len(s) = Len(jobs)
  BY ActiveSuperseded DEF TeardownScrub
<1>4. /\ jobs' \in Seq(Jobs) /\ Len(jobs') = Len(jobs) + 1 /\ jobs'[Len(jobs')] = x
      /\ \A i \in 1..Len(jobs) : jobs'[i] = s[i]
  <2> HIDE DEF s, x
  <2> QED BY <1>1, <1>2, <1>3, Appended
<1>5. /\ target' \in Targets /\ target'.gen = target.gen + 1 /\ target'.active = Len(jobs')
      /\ target'.status = "converging" /\ target'.state = "tombstoned" /\ ~Busy
      /\ target'.lease = NoLease /\ target'.converged = target.converged
  <2> DEFINE g == target.gen + 1
             m == Len(jobs) + 1
  <2>1. g \in Nat /\ m \in Nat /\ target \in Targets /\ m = Len(jobs')
    BY <1>1, <1>4, TargetParts
  <2>2. /\ target' = [target EXCEPT !.gen = g, !.state = "tombstoned", !.status = "converging",
                                    !.active = m, !.lease = NoLease]
        /\ ~Busy
    BY DEF TeardownScrub, NotBusy
  <2>3. g = target.gen + 1
    OBVIOUS
  <2> HIDE DEF g, m
  <2>4. target' \in Targets
    BY <2>1, <2>2 DEF Targets
  <2> QED BY <2>1, <2>2, <2>3, <2>4 DEF Targets
<1> QED BY <1>1, <1>2, <1>4, <1>5, ActiveSuperseded DEF Triggered, JobsKept, TeardownScrub

LEMMA PauseTriggers ==
  ASSUME QueueInv, PauseTarget \/ TeardownRetain
  PROVE  Triggered
<1> DEFINE s == Supersede(jobs, target.active)
<1>1. RowsTypeOK /\ Len(jobs) \in Nat
  BY JobParts DEF QueueInv
<1>2. jobs' = s /\ s \in Seq(Jobs) /\ Len(s) = Len(jobs)
  BY ActiveSuperseded DEF PauseTarget, TeardownRetain
<1>3. CASE PauseTarget
  <2>1. /\ target' \in Targets /\ target'.gen = target.gen + 1 /\ target'.active = 0
        /\ target'.status = target.status /\ ~Busy
        /\ target'.lease = NoLease /\ target'.converged = target.converged
    <3> DEFINE g == target.gen + 1
    <3>1. g \in Nat /\ target \in Targets
      BY <1>1, TargetParts
    <3>2. /\ target' = [target EXCEPT !.gen = g, !.paused = TRUE, !.active = 0, !.lease = NoLease]
          /\ ~Busy
      BY <1>3 DEF PauseTarget, NotBusy
    <3>3. g = target.gen + 1
      OBVIOUS
    <3> HIDE DEF g
    <3>4. target' \in Targets
      BY <3>1, <3>2 DEF Targets
    <3> QED BY <3>1, <3>2, <3>3, <3>4 DEF Targets
  <2> QED BY <1>1, <1>2, <1>3, <2>1, ActiveSuperseded DEF Triggered, JobsKept, PauseTarget
<1>4. CASE TeardownRetain
  <2>1. /\ target' \in Targets /\ target'.gen = target.gen + 1 /\ target'.active = 0
        /\ target'.state = "tombstoned" /\ ~Busy
        /\ target'.lease = NoLease /\ target'.converged = target.converged
    <3> DEFINE g == target.gen + 1
    <3>1. g \in Nat /\ target \in Targets
      BY <1>1, TargetParts
    <3>2. /\ target' = [target EXCEPT !.gen = g, !.state = "tombstoned", !.status = "converged",
                                      !.active = 0, !.lease = NoLease]
          /\ ~Busy
      BY <1>4 DEF TeardownRetain, NotBusy
    <3>3. g = target.gen + 1
      OBVIOUS
    <3> HIDE DEF g
    <3>4. target' \in Targets
      BY <3>1, <3>2 DEF Targets
    <3> QED BY <3>1, <3>2, <3>3, <3>4 DEF Targets
  <2> QED BY <1>1, <1>2, <1>4, <2>1, ActiveSuperseded DEF Triggered, JobsKept, TeardownRetain
<1> QED BY <1>3, <1>4

LEMMA ReplaceTriggers ==
  ASSUME QueueInv, ReplaceCredential
  PROVE  Triggered
<1>1. RowsTypeOK /\ Len(jobs) \in Nat /\ jobs \in Seq(Jobs) /\ DOMAIN jobs = 1..Len(jobs)
  BY JobParts DEF QueueInv, RowsTypeOK
<1>2. jobs' = [i \in 1..Len(jobs) |-> Supersede(jobs, i)[i]]
  BY <1>1 DEF ReplaceCredential
<1>3. ASSUME NEW i \in 1..Len(jobs)
      PROVE /\ jobs'[i] \in Jobs /\ jobs'[i].kind = jobs[i].kind /\ jobs'[i].gen = jobs[i].gen
            /\ ~Open(jobs'[i]) /\ jobs'[i].owner = "none"
  <2>1. jobs'[i] = Supersede(jobs, i)[i] /\ i \in Nat
    BY <1>1, <1>2
  <2>2. Supersede(jobs, i) \in Seq(Jobs) /\ Len(Supersede(jobs, i)) = Len(jobs)
    BY <1>1, <2>1, Superseded
  <2>3. Supersede(jobs, i)[i] \in Jobs
    BY <1>1, <2>2
  <2>4. CASE Open(jobs[i])
    BY <1>1, <2>1, <2>3, <2>4, Superseded
  <2>5. CASE ~Open(jobs[i])
    BY <1>1, <2>1, <2>3, <2>5, Superseded, ClosedHasNoOwner
  <2> QED BY <2>4, <2>5
<1>4. jobs' \in Seq(Jobs) /\ Len(jobs') = Len(jobs)
  <2>1. DOMAIN jobs' = 1..Len(jobs) /\ jobs' = [i \in 1..Len(jobs) |-> jobs'[i]]
    BY <1>2
  <2> QED BY <1>1, <1>3, <2>1, Rewritten
<1>5. /\ target' \in Targets /\ target'.gen = target.gen + 1 /\ target'.active = 0
      /\ target'.status = target.status /\ ~Busy
      /\ target'.lease = NoLease /\ target'.converged = target.converged
  <2> DEFINE g == target.gen + 1
  <2>1. g \in Nat /\ target \in Targets
    BY <1>1, TargetParts
  <2>2. target' = [target EXCEPT !.gen = g, !.active = 0, !.lease = NoLease] /\ ~Busy
    BY DEF ReplaceCredential, NotBusy
  <2>3. g = target.gen + 1
    OBVIOUS
  <2> HIDE DEF g
  <2>4. target' \in Targets
    BY <2>1, <2>2 DEF Targets
  <2> QED BY <2>1, <2>2, <2>3, <2>4 DEF Targets
<1>6. target.state = "active" /\ UNCHANGED <<effects, worker, wire, provider, now>>
  BY DEF ReplaceCredential
<1>7. JobsKept /\ \A i \in 1..Len(jobs) : ~Open(jobs'[i]) /\ jobs'[i].owner = "none"
  BY <1>1, <1>3, <1>4 DEF JobsKept
<1>8. Len(jobs') # Len(jobs) + 1
  <2>1. Len(jobs) \in Nat
    BY <1>1
  <2>2. Len(jobs) # Len(jobs) + 1
    BY <2>1
  <2> QED BY <1>4, <2>2, Zenon
<1> QED BY <1>4, <1>5, <1>6, <1>7, <1>8 DEF Triggered

\* A publish into a target that is paused or gone only moves the revision.
PublishedAside ==
  /\ ~(target.state = "active" /\ ~target.paused)
  /\ UNCHANGED <<target, jobs, effects, ledger, worker, wire, provider, now>>

LEMMA TriggerEffect ==
  ASSUME QueueInv, Trigger
  PROVE  /\ Triggered \/ PublishedAside
         /\ revision' \in Revisions
         /\ revision' = revision \/ (revision' = revision + 1 /\ (Triggered \/ PublishedAside))
         /\ ledger' \in [Names -> Claims]
         /\ \A n \in Names : ledger'[n] = ledger[n] \/ ledger'[n] = "released"
         /\ ledger' = ledger \/ (target'.state = "tombstoned" /\ Len(jobs') = Len(jobs))
<1>1. /\ revision \in Revisions /\ ledger \in [Names -> Claims] /\ Revisions = 1..Newest
      /\ Newest \in Nat
  <2>1. revision \in Revisions /\ ledger \in [Names -> Claims] /\ Revisions = 1..Newest
    BY DesiredAssumption DEF QueueInv, RowsTypeOK
  <2> QED BY <2>1, DesiredAssumption
<1>2. CASE Publish
  <2>1. revision' = revision + 1 /\ revision' \in Revisions /\ ledger' = ledger
    BY <1>1, <1>2 DEF Publish
  <2>2. CASE target.state = "active" /\ ~target.paused
    <3>1. Triggered
      BY <1>2, <2>2, EnqueueTriggers DEF Publish
    <3> QED BY <1>1, <2>1, <3>1
  <2>3. CASE ~(target.state = "active" /\ ~target.paused)
    <3>1. PublishedAside
      BY <1>2, <2>3 DEF Publish, PublishedAside
    <3> QED BY <1>1, <2>1, <3>1
  <2> QED BY <2>2, <2>3
<1>3. CASE SyncTarget \/ ResumeTarget
  <2>1. Triggered
    BY <1>3, EnqueueTriggers DEF SyncTarget, ResumeTarget
  <2> QED BY <1>1, <1>3, <2>1 DEF SyncTarget, ResumeTarget
<1>4. CASE PauseTarget
  BY <1>1, <1>4, PauseTriggers DEF PauseTarget
<1>5. CASE TeardownRetain
  <2>1. revision' = revision /\ Triggered
    BY <1>5, PauseTriggers DEF TeardownRetain
  <2>2. ledger' = [n \in Names |-> IF ledger[n] = "none" THEN "none" ELSE "released"]
    BY <1>5 DEF TeardownRetain
  <2>3. target'.state = "tombstoned" /\ Len(jobs') = Len(jobs)
    BY <1>5, ActiveSuperseded, TargetParts DEF TeardownRetain, QueueInv, Targets
  <2> QED BY <1>1, <2>1, <2>2, <2>3 DEF Claims
<1>6. CASE ReplaceCredential
  BY <1>1, <1>6, ReplaceTriggers DEF ReplaceCredential
<1>7. CASE TeardownScrub
  BY <1>1, <1>7, TeardownScrubTriggers DEF TeardownScrub
<1> QED BY <1>2, <1>3, <1>4, <1>5, <1>6, <1>7 DEF Trigger
-----------------------------------------------------------------------------
(* What the steps of a worker do.                                          *)

\* Only worker w changes.
Only(w) == worker' = [worker EXCEPT ![w] = worker'[w]] /\ worker'[w] \in Procs

\* The target keeps everything but what it attempted, and the lease.
TargetKept ==
  /\ target' \in Targets
  /\ target'.gen = target.gen /\ target'.state = target.state /\ target'.paused = target.paused
  /\ target'.status = target.status /\ target'.active = target.active
  /\ target'.converged = target.converged

\* The worker stays in its attempt, and on its revision, or leaves it.
Calm(w) ==
  \/ worker'[w].pc = "idle"
  \/ /\ worker'[w].rev = worker[w].rev
     /\ worker'[w].pc \in Pulled => worker[w].pc \in Pulled
     /\ \A n \in worker'[w].done \ worker[w].done : n \notin Desires(w)

\* The worker takes over claims of the ledger or reserves, and before it writes
\* it has listed what is there.
Bookkeeps(w) ==
  /\ \A n \in Names : ledger'[n] \in {ledger[n], "none", "reserved"}
  /\ \A n \in Names :
       \/ worker'[w].snap[n] \in {worker[w].snap[n], "none", "reserved"}
       \/ worker'[w].snap[n] = ledger[n] /\ ledger[n] # "released"
  /\ worker'[w].pc \in Acting \cup {"syncing"} =>
       \/ worker[w].pc \in Acting \cup {"syncing"} /\ worker'[w].listed = worker[w].listed
       \/ worker'[w].listed = {n \in Names : provider[n] # 0}

\* A claim to have written, and no claim at all.
Firm == {"dispatched", "owned"}
Slack == {"none", "released"}

\* The worker gives up no claim to have written and takes back no name that was
\* let go with the target, what it newly believes is what the ledger says, and
\* as a scrub it claims nothing and counts as done what it released.
Minds(w) ==
  /\ \A n \in Names :
       \/ ledger'[n] = ledger[n] \/ ledger[n] \in {"none", "reserved"}
       \/ ledger[n] = "released" /\ target.state = "active"
  /\ worker'[w].pc \in Acting => worker'[w].snap = worker[w].snap
  /\ \A n \in Names :
       worker'[w].pc \in Pulled /\ n \notin worker'[w].done /\ worker'[w].snap[n] \in Firm =>
         \/ ledger'[n] \in Firm
         \/ /\ worker[w].pc \in Pulled /\ n \notin worker[w].done
            /\ worker'[w].snap[n] = worker[w].snap[n]
  /\ Job(w).kind = "scrub" =>
       \A n \in Names :
         /\ ledger[n] \in Slack => ledger'[n] = ledger[n]
         /\ n \in worker'[w].done => n \in worker[w].done \/ ledger'[n] = "none"
         /\ worker'[w].pc \in Pulled /\ worker'[w].snap[n] = "none" =>
              ledger'[n] \in Slack \/ (worker[w].pc \in Pulled /\ worker[w].snap[n] = "none")

\* A step that neither prepares, sends, records nor settles anything.
Onward(w) ==
  /\ worker[w].pc # "idle" /\ Only(w) /\ Minds(w)
  /\ TargetKept /\ target'.lease = target.lease
  /\ ledger' \in [Names -> Claims]
  /\ UNCHANGED <<revision, jobs, effects, wire, provider, now>>
  /\ worker'[w].pc # "idle" =>
       worker'[w].job = worker[w].job /\ worker'[w].deadline = worker[w].deadline
  /\ worker'[w].pc \in Acting =>
       /\ worker[w].pc = "prepared" /\ worker'[w].pc = "replied"
       /\ worker'[w].effect = worker[w].effect /\ worker'[w].reply = "unsent"
  /\ Calm(w) \/ Load(w)
  /\ Bookkeeps(w)

LEMMA OnlyThis ==
  ASSUME RowsTypeOK, NEW w \in Workers, NEW p \in Procs, worker' = [worker EXCEPT ![w] = p]
  PROVE  Only(w) /\ worker'[w] = p
BY DEF RowsTypeOK, Only

LEMMA OnlyOther ==
  ASSUME RowsTypeOK, NEW w \in Workers, Only(w)
  PROVE  /\ worker' \in [Workers -> Procs]
         /\ \A v \in Workers : v # w => worker'[v] = worker[v]
BY DEF RowsTypeOK, Only

\* A target that is not written, or only in what it attempted.
LEMMA TargetSame ==
  ASSUME RowsTypeOK, target' = target
  PROVE  TargetKept /\ target'.lease = target.lease
BY TargetParts DEF TargetKept

LEMMA LoadOnward ==
  ASSUME RowsTypeOK, NEW w \in Workers, Load(w)
  PROVE  /\ Onward(w)
         /\ worker'[w].pc = "loaded"
         /\ worker'[w].snap = [n \in Names |-> IF ledger[n] = "released" THEN "none" ELSE ledger[n]]
         /\ Job(w).kind = "converge" =>
              /\ worker'[w].rev = revision
              /\ worker'[w].done \subseteq
                   Completed(w, revision) \cup (IF revision = worker[w].rev THEN worker[w].done ELSE {})
<1> DEFINE scrub == Job(w).kind = "scrub"
           r == IF scrub THEN IF target.attempted >= target.converged THEN target.attempted
                              ELSE target.converged
                ELSE revision
           d == (IF scrub THEN {} ELSE Completed(w, r)) \cup
                (IF r = worker[w].rev THEN worker[w].done ELSE {})
           s == [n \in Names |-> IF ledger[n] = "released" THEN "none" ELSE ledger[n]]
           p == [worker[w] EXCEPT !.pc = "loaded", !.rev = r, !.snap = s, !.done = d]
<1>1. worker[w] \in Procs /\ revision \in Nat
  BY WorkerParts, DesiredAssumption DEF RowsTypeOK
<1>2. r \in Nat
  BY <1>1, TargetParts
<1>3. s \in [Names -> Claims]
  BY DEF RowsTypeOK, Claims
<1>4. d \subseteq Names
  BY WorkerParts DEF Completed
<1>5. worker' = [worker EXCEPT ![w] = p]
  BY DEF Load, RowsTypeOK
<1>6. p \in Procs /\ p.pc = "loaded" /\ p.rev = r /\ p.snap = s /\ p.done = d
      /\ p.job = worker[w].job /\ p.deadline = worker[w].deadline
  <2> HIDE DEF r, s, d
  <2> QED BY <1>1, <1>2, <1>3, <1>4 DEF Procs
<1>7. Only(w) /\ worker'[w] = p
  <2> HIDE DEF p
  <2> QED BY <1>5, <1>6, OnlyThis
<1>8. TargetKept /\ target'.lease = target.lease
  <2>1. CASE target' = target
    BY <2>1, TargetSame
  <2>2. CASE target' = [target EXCEPT !.attempted = r]
    <3> HIDE DEF r
    <3> QED BY <1>2, <2>2, TargetParts DEF TargetKept, Targets
  <2> QED BY <2>1, <2>2 DEF Load
<1>9. worker[w].pc # "idle" /\ ledger' \in [Names -> Claims]
      /\ UNCHANGED <<revision, jobs, effects, wire, provider, now>>
  BY DEF Load, Running, RowsTypeOK
<1>10. Onward(w)
  <2>1. \A n \in Names : s[n] = "none" \/ (s[n] = ledger[n] /\ ledger[n] # "released")
    OBVIOUS
  <2>2. ledger' = ledger
    BY DEF Load
  <2> HIDE DEF p, s
  <2>3. Bookkeeps(w)
    BY <1>6, <1>7, <2>1, <2>2 DEF Bookkeeps, Acting
  <2>4. worker'[w].pc = "loaded" /\ worker'[w].snap = s /\ worker'[w].done = d
    BY <1>6, <1>7
  <2>5. Minds(w)
    <3>1. Job(w).kind = "scrub" => d \subseteq worker[w].done
      OBVIOUS
    <3>2. \A n \in Names : s[n] = "none" => ledger[n] \in Slack
      BY DEF s, Slack
    <3> HIDE DEF d
    <3> QED BY <2>1, <2>2, <2>4, <3>1, <3>2 DEF Minds, Acting, Slack, Firm
  <2> QED BY <1>6, <1>7, <1>8, <1>9, <2>3, <2>5 DEF Onward, Acting
<1>11. Job(w).kind = "converge" => r = revision /\ d \subseteq Completed(w, revision) \cup
                (IF revision = worker[w].rev THEN worker[w].done ELSE {})
  OBVIOUS
<1> HIDE DEF p, r, d
<1> QED BY <1>6, <1>7, <1>10, <1>11

LEMMA AttemptOnward ==
  ASSUME RowsTypeOK, NEW w \in Workers,
         \/ ListNames(w)
         \/ \E n \in Names : Reserve(w, n) \/ Refuse(w, n) \/ ReleaseReservation(w, n)
         \/ GateAfterPrepare(w) \/ FinishRefused(w)
         \/ \E cause \in {"error", "unauthorized", "credential", "superseded"} : GiveUp(w, cause)
         \/ WaitAndReload(w) \/ Crash(w)
  PROVE  Onward(w)
<1>1. worker[w] \in Procs /\ worker \in [Workers -> Procs] /\ ledger \in [Names -> Claims]
  BY WorkerParts DEF RowsTypeOK
<1>2. CASE ListNames(w)
  <2> DEFINE p == [worker[w] EXCEPT !.pc = "syncing", !.listed = {n \in Names : provider[n] # 0}]
  <2>1. p \in Procs /\ p.pc = "syncing" /\ p.job = worker[w].job /\ p.rev = worker[w].rev
        /\ p.deadline = worker[w].deadline /\ p.done = worker[w].done
        /\ p.snap = worker[w].snap /\ p.listed = {n \in Names : provider[n] # 0}
    BY <1>1 DEF Procs
  <2>2. worker' = [worker EXCEPT ![w] = p]
    BY <1>1, <1>2 DEF ListNames
  <2> HIDE DEF p
  <2>3. Only(w) /\ worker'[w] = p
    BY <2>1, <2>2, OnlyThis
  <2>4. /\ worker[w].pc = "loaded"
        /\ UNCHANGED <<revision, target, jobs, effects, ledger, wire, provider, now>>
    BY <1>2 DEF ListNames, Running
  <2>5. Minds(w)
    BY <2>1, <2>3, <2>4 DEF Minds, Acting, Pulled
  <2> QED BY <1>1, <2>1, <2>3, <2>4, <2>5, TargetSame DEF Onward, Calm, Bookkeeps, Acting, Pulled
<1>3. ASSUME NEW n \in Names, Reserve(w, n) PROVE Onward(w)
  <2> DEFINE c == IF ledger[n] \in {"none", "released"} THEN "reserved" ELSE ledger[n]
             s == [worker[w].snap EXCEPT ![n] = c]
             p == [worker[w] EXCEPT !.snap = s]
  <2>1. c \in Claims
    BY <1>1 DEF Claims
  <2>2. s \in [Names -> Claims] /\ ledger' \in [Names -> Claims]
    <3>1. ledger' = [ledger EXCEPT ![n] = c]
      BY <1>3 DEF Reserve
    <3> HIDE DEF c
    <3> QED BY <1>1, <2>1, <3>1, WorkerParts
  <2>3. worker' = [worker EXCEPT ![w] = p]
    BY <1>1, <1>3 DEF Reserve
  <2>4. p \in Procs /\ p.pc = worker[w].pc /\ p.job = worker[w].job /\ p.rev = worker[w].rev
        /\ p.deadline = worker[w].deadline /\ p.done = worker[w].done
        /\ p.snap = s /\ p.listed = worker[w].listed
    <3> HIDE DEF s
    <3> QED BY <1>1, <2>2 DEF Procs
  <2>7. ASSUME NEW m \in Names
        PROVE  /\ \/ s[m] \in {worker[w].snap[m], "none", "reserved"}
                  \/ s[m] = ledger[m] /\ ledger[m] # "released"
               /\ ledger'[m] \in {ledger[m], "none", "reserved"}
    <3>1. ledger' = [ledger EXCEPT ![n] = c] /\ (c = "reserved" \/ (c = ledger[n] /\ c # "released"))
      BY <1>3 DEF Reserve
    <3> HIDE DEF c
    <3> QED BY <1>1, <3>1, WorkerParts
  <2> HIDE DEF p, s
  <2>5. Only(w) /\ worker'[w] = p
    BY <2>3, <2>4, OnlyThis
  <2>6. worker[w].pc = "syncing" /\ UNCHANGED <<revision, target, jobs, effects, wire, provider, now>>
    BY <1>3 DEF Reserve, Running
  <2>8. Job(w).kind # "scrub" /\ target.state = "active"
    BY <1>3 DEF Reserve, Pending, Desires, Custody, Admits
  <2>9. ASSUME NEW m \in Names
        PROVE  /\ ledger'[m] = ledger[m] \/ ledger[m] \in {"none", "released"}
               /\ s[m] = worker[w].snap[m] \/ s[m] = ledger'[m]
    <3>1. ledger' = [ledger EXCEPT ![n] = c] /\ (c = ledger[n] \/ ledger[n] \in {"none", "released"})
      BY <1>3 DEF Reserve
    <3> HIDE DEF c
    <3> QED BY <1>1, <3>1, WorkerParts DEF s
  <2>10. Minds(w)
    BY <2>4, <2>5, <2>6, <2>8, <2>9 DEF Minds, Acting, Pulled
  <2> QED BY <2>2, <2>4, <2>5, <2>6, <2>7, <2>10, TargetSame DEF Onward, Calm, Bookkeeps, Acting, Pulled
<1>4. ASSUME NEW n \in Names, Refuse(w, n) PROVE Onward(w)
  <2> DEFINE p == [worker[w] EXCEPT !.pc = "closing", !.reply = "error"]
  <2>1. p \in Procs /\ p.pc = "closing" /\ p.job = worker[w].job /\ p.rev = worker[w].rev
        /\ p.deadline = worker[w].deadline /\ p.done = worker[w].done
        /\ p.snap = worker[w].snap /\ p.listed = worker[w].listed
    BY <1>1 DEF Procs, Replies
  <2>2. worker' = [worker EXCEPT ![w] = p]
    BY <1>1, <1>4 DEF Refuse
  <2> HIDE DEF p
  <2>3. Only(w) /\ worker'[w] = p
    BY <2>1, <2>2, OnlyThis
  <2>4. worker[w].pc = "syncing" /\ UNCHANGED <<revision, target, jobs, effects, wire, provider, now>>
        /\ ledger' = [ledger EXCEPT ![n] = "none"]
    BY <1>4 DEF Refuse, Running
  <2>5. ledger' \in [Names -> Claims]
    BY <1>1, <2>4 DEF Claims
  <2>6. Job(w).kind # "scrub" /\ ledger[n] = "reserved"
    BY <1>4 DEF Refuse, Pending, Desires
  <2>7. Minds(w)
    BY <1>1, <2>1, <2>3, <2>4, <2>6 DEF Minds, Acting, Pulled
  <2> QED BY <2>1, <2>3, <2>4, <2>5, <2>7, TargetSame DEF Onward, Calm, Bookkeeps, Acting, Pulled
<1>5. ASSUME NEW n \in Names, ReleaseReservation(w, n) PROVE Onward(w)
  <2> DEFINE d == worker[w].done \cup {n}
             p == [worker[w] EXCEPT !.done = d]
  <2>1. d \subseteq Names
    BY WorkerParts
  <2>2. worker' = [worker EXCEPT ![w] = p]
    BY <1>1, <1>5 DEF ReleaseReservation
  <2>3. p \in Procs /\ p.pc = worker[w].pc /\ p.job = worker[w].job /\ p.rev = worker[w].rev
        /\ p.deadline = worker[w].deadline /\ p.done = worker[w].done \cup {n}
        /\ p.snap = worker[w].snap /\ p.listed = worker[w].listed
    <3>1. d = worker[w].done \cup {n}
      OBVIOUS
    <3> HIDE DEF d
    <3> QED BY <1>1, <2>1, <3>1 DEF Procs
  <2> HIDE DEF p, d
  <2>4. Only(w) /\ worker'[w] = p
    BY <2>2, <2>3, OnlyThis
  <2>5. worker[w].pc = "syncing" /\ UNCHANGED <<revision, target, jobs, effects, wire, provider, now>>
        /\ ledger' = [ledger EXCEPT ![n] = "none"] /\ n \notin Desires(w)
    BY <1>5 DEF ReleaseReservation, Running, Undesired
  <2>6. ledger' \in [Names -> Claims]
    BY <1>1, <2>5 DEF Claims
  <2>7. ledger[n] = "reserved"
    BY <1>5 DEF ReleaseReservation
  <2>8. Minds(w)
    BY <1>1, <2>3, <2>4, <2>5, <2>7 DEF Minds, Acting, Pulled, Slack
  <2> QED BY <2>3, <2>4, <2>5, <2>6, <2>8, TargetSame DEF Onward, Calm, Bookkeeps, Acting, Pulled
<1>6. CASE GateAfterPrepare(w)
  <2> DEFINE p == [worker[w] EXCEPT !.pc = "replied", !.reply = "unsent"]
  <2>1. p \in Procs /\ p.pc = "replied" /\ p.job = worker[w].job /\ p.rev = worker[w].rev
        /\ p.deadline = worker[w].deadline /\ p.done = worker[w].done
        /\ p.snap = worker[w].snap /\ p.listed = worker[w].listed
        /\ p.effect = worker[w].effect /\ p.reply = "unsent"
    BY <1>1 DEF Procs, Replies
  <2>2. worker' = [worker EXCEPT ![w] = p]
    BY <1>1, <1>6 DEF GateAfterPrepare
  <2> HIDE DEF p
  <2>3. Only(w) /\ worker'[w] = p
    BY <2>1, <2>2, OnlyThis
  <2>4. /\ worker[w].pc = "prepared"
        /\ UNCHANGED <<revision, target, jobs, effects, ledger, wire, provider, now>>
    BY <1>6 DEF GateAfterPrepare
  <2>5. Minds(w)
    BY <2>1, <2>3, <2>4 DEF Minds, Acting, Pulled
  <2> QED BY <1>1, <2>1, <2>3, <2>4, <2>5, TargetSame DEF Onward, Calm, Bookkeeps, Acting, Pulled
<1>7. CASE FinishRefused(w)
  <2> DEFINE a == IF effects[worker[w].effect].outcome = "open" THEN "superseded" ELSE "error"
             p == [worker[w] EXCEPT !.pc = "closing", !.effect = 0, !.reply = a]
  <2>1. a \in Replies
    BY DEF Replies
  <2>2. worker' = [worker EXCEPT ![w] = p]
    BY <1>1, <1>7 DEF FinishRefused
  <2>3. p \in Procs /\ p.pc = "closing" /\ p.job = worker[w].job /\ p.rev = worker[w].rev
        /\ p.deadline = worker[w].deadline /\ p.done = worker[w].done
        /\ p.snap = worker[w].snap /\ p.listed = worker[w].listed
    <3> HIDE DEF a
    <3> QED BY <1>1, <2>1 DEF Procs
  <2> HIDE DEF p
  <2>4. Only(w) /\ worker'[w] = p
    BY <2>2, <2>3, OnlyThis
  <2>5. /\ worker[w].pc = "replied"
        /\ UNCHANGED <<revision, target, jobs, effects, ledger, wire, provider, now>>
    BY <1>7 DEF FinishRefused
  <2>6. Minds(w)
    BY <2>3, <2>4, <2>5 DEF Minds, Acting, Pulled
  <2> QED BY <1>1, <2>3, <2>4, <2>5, <2>6, TargetSame DEF Onward, Calm, Bookkeeps, Acting, Pulled
<1>8. ASSUME NEW cause \in {"error", "unauthorized", "credential", "superseded"}, GiveUp(w, cause) PROVE Onward(w)
  <2> DEFINE p == [worker[w] EXCEPT !.pc = "closing", !.reply = cause]
  <2>1. p \in Procs /\ p.pc = "closing" /\ p.job = worker[w].job /\ p.rev = worker[w].rev
        /\ p.deadline = worker[w].deadline /\ p.done = worker[w].done
        /\ p.snap = worker[w].snap /\ p.listed = worker[w].listed
    BY <1>1 DEF Procs, Replies
  <2>2. worker' = [worker EXCEPT ![w] = p]
    BY <1>1, <1>8 DEF GiveUp
  <2> HIDE DEF p
  <2>3. Only(w) /\ worker'[w] = p
    BY <2>1, <2>2, OnlyThis
  <2>4. /\ worker[w].pc # "idle"
        /\ UNCHANGED <<revision, target, jobs, effects, ledger, wire, provider, now>>
    BY <1>8 DEF GiveUp
  <2>5. Minds(w)
    BY <2>1, <2>3, <2>4 DEF Minds, Acting, Pulled
  <2> QED BY <1>1, <2>1, <2>3, <2>4, <2>5, TargetSame DEF Onward, Calm, Bookkeeps, Acting, Pulled
<1>9. CASE WaitAndReload(w)
  <2> DEFINE p == [worker[w] EXCEPT !.pc = "claimed", !.reply = "none"]
  <2>1. p \in Procs /\ p.pc = "claimed" /\ p.job = worker[w].job /\ p.rev = worker[w].rev
        /\ p.deadline = worker[w].deadline /\ p.done = worker[w].done
        /\ p.snap = worker[w].snap /\ p.listed = worker[w].listed
    BY <1>1 DEF Procs, Replies
  <2>2. worker' = [worker EXCEPT ![w] = p]
    BY <1>1, <1>9 DEF WaitAndReload
  <2> HIDE DEF p
  <2>3. Only(w) /\ worker'[w] = p
    BY <2>1, <2>2, OnlyThis
  <2>4. /\ worker[w].pc # "idle"
        /\ UNCHANGED <<revision, target, jobs, effects, ledger, wire, provider, now>>
    BY <1>9 DEF WaitAndReload, Running
  <2>5. Minds(w)
    BY <2>1, <2>3, <2>4 DEF Minds, Acting, Pulled
  <2> QED BY <1>1, <2>1, <2>3, <2>4, <2>5, TargetSame DEF Onward, Calm, Bookkeeps, Acting, Pulled
<1>10. CASE Crash(w)
  <2>1. Only(w) /\ worker'[w] = Idle
    BY <1>10, IdleType, OnlyThis DEF Crash
  <2>2. worker'[w].pc = "idle"
    BY <2>1 DEF Idle
  <2>4. \A n \in Names : worker'[w].snap[n] = "none"
    BY <2>1 DEF Idle, Unclaimed
  <2>3. /\ worker[w].pc # "idle"
        /\ UNCHANGED <<revision, target, jobs, effects, ledger, wire, provider, now>>
    BY <1>10 DEF Crash
  <2>5. Minds(w)
    <3>1. worker'[w].done = {}
      BY <2>1 DEF Idle
    <3> QED BY <2>2, <2>3, <3>1 DEF Minds, Acting, Pulled
  <2> QED BY <1>1, <2>1, <2>2, <2>3, <2>4, <2>5, TargetSame DEF Onward, Calm, Bookkeeps, Acting
<1> QED BY <1>2, <1>3, <1>4, <1>5, <1>6, <1>7, <1>8, <1>9, <1>10

\* Effects keep everything but an open outcome.
EffectsKept ==
  /\ effects' \in Seq(Effects) /\ Len(effects) <= Len(effects')
  /\ \A e \in 1..Len(effects) :
       /\ effects'[e].job = effects[e].job /\ effects'[e].name = effects[e].name
       /\ effects'[e].rev = effects[e].rev /\ effects'[e].delete = effects[e].delete
       /\ effects[e].outcome # "open" => effects'[e].outcome = effects[e].outcome

\* Worker w takes job i, and what is left open elsewhere is closed as unknown.
Claimed(w, i) ==
  /\ Only(w) /\ worker'[w].pc = "claimed" /\ worker'[w].job = i /\ worker'[w].rev = 0
  /\ worker'[w].deadline = now + AttemptTimeout /\ worker'[w].snap = Unclaimed
  /\ worker'[w].done = {}
  /\ jobs' \in Seq(Jobs) /\ Len(jobs') = Len(jobs) /\ JobsKept
  /\ \A k \in 1..Len(jobs) : k # i => jobs'[k] = jobs[k]
  /\ Open(jobs[i]) /\ jobs'[i].state = "running"
  /\ EffectsKept /\ Len(effects') = Len(effects)
  /\ \A e \in 1..Len(effects) : effects'[e].outcome \in {effects[e].outcome, "unknown"}
  /\ TargetKept /\ (target'.lease = target.lease \/ (~Busy /\ target'.lease = NoLease))
  /\ UNCHANGED <<revision, ledger, wire, provider, now>>

LEMMA ClaimDueEffect ==
  ASSUME RowsTypeOK, NEW w \in Workers, NEW i \in DOMAIN jobs, ClaimDue(w, i)
  PROVE  Claimed(w, i) /\ i \in 1..Len(jobs)
<1>1. /\ i \in 1..Len(jobs) /\ jobs \in Seq(Jobs) /\ effects \in Seq(Effects) /\ now \in Nat
      /\ DOMAIN jobs = 1..Len(jobs) /\ DOMAIN effects = 1..Len(effects) /\ jobs[i] \in Jobs
      /\ Len(jobs) \in Nat /\ Len(effects) \in Nat
  BY JobParts, EffectParts DEF RowsTypeOK
<1> DEFINE d == now + AttemptTimeout
           p == [Idle EXCEPT !.pc = "claimed", !.job = i, !.deadline = d]
           u == now + LeaseTime
           j == [jobs[i] EXCEPT !.state = "running", !.owner = w, !.until = u]
<1>2. p \in Procs /\ p.pc = "claimed" /\ p.job = i /\ p.rev = 0 /\ p.deadline = d
      /\ p.snap = Unclaimed /\ p.done = {}
  <2>1. d \in Nat /\ i \in Nat
    BY <1>1, LeaseAssumption
  <2> HIDE DEF d
  <2>2. p \in Procs
    BY <2>1, IdleType DEF Procs
  <2> QED BY <2>2 DEF Idle
<1>3. Only(w) /\ worker'[w] = p
  <2>1. worker' = [worker EXCEPT ![w] = p]
    BY DEF ClaimDue
  <2> HIDE DEF p
  <2> QED BY <1>2, <2>1, OnlyThis
<1>4. u \in Nat
  BY <1>1, LeaseAssumption
<1>5. jobs' = [jobs EXCEPT ![i] = j]
  BY <1>1 DEF ClaimDue
<1>6. j \in Jobs /\ j.kind = jobs[i].kind /\ j.gen = jobs[i].gen /\ j.state = "running"
  <2> HIDE DEF u
  <2> QED BY <1>1, <1>4 DEF Jobs
<1>7. jobs' \in Seq(Jobs) /\ Len(jobs') = Len(jobs) /\ jobs'[i] = j
      /\ \A k \in 1..Len(jobs) : k # i => jobs'[k] = jobs[k]
  <2> HIDE DEF j
  <2> QED BY <1>1, <1>5, <1>6
<1>8. JobsKept /\ jobs'[i].state = "running"
  <2> HIDE DEF j
  <2> QED BY <1>1, <1>6, <1>7 DEF JobsKept
<1>9. effects' = [e \in 1..Len(effects) |->
                   IF e \in Indeterminate THEN [effects[e] EXCEPT !.outcome = "unknown"]
                   ELSE effects[e]]
  BY <1>1 DEF ClaimDue
<1>10. ASSUME NEW e \in 1..Len(effects)
       PROVE /\ effects'[e] \in Effects
             /\ effects'[e].job = effects[e].job /\ effects'[e].name = effects[e].name
             /\ effects'[e].rev = effects[e].rev /\ effects'[e].delete = effects[e].delete
             /\ effects[e].outcome # "open" => effects'[e].outcome = effects[e].outcome
             /\ effects'[e].outcome \in {effects[e].outcome, "unknown"}
  <2>1. effects[e] \in Effects
    BY EffectParts
  <2>2. CASE e \in Indeterminate
    <3>1. effects'[e] = [effects[e] EXCEPT !.outcome = "unknown"] /\ effects[e].outcome = "open"
      BY <1>9, <2>2 DEF Indeterminate
    <3> QED BY <2>1, <3>1 DEF Effects
  <2>3. CASE e \notin Indeterminate
    <3>1. effects'[e] = effects[e]
      BY <1>9, <2>3
    <3> QED BY <2>1, <3>1
  <2> QED BY <2>2, <2>3
<1>11. effects' \in Seq(Effects) /\ Len(effects') = Len(effects)
  <2>1. DOMAIN effects' = 1..Len(effects) /\ effects' = [e \in 1..Len(effects) |-> effects'[e]]
    BY <1>9
  <2>2. effects \in Seq(Effects)
    BY <1>1
  <2> QED BY <1>10, <2>1, <2>2, Rewritten
<1>12. EffectsKept
  BY <1>1, <1>10, <1>11 DEF EffectsKept
<1>13. TargetKept /\ (target'.lease = target.lease \/ (~Busy /\ target'.lease = NoLease))
  <2>1. CASE target.lease # NoLease /\ target.lease.effect \in Indeterminate
    <3>1. target' = [target EXCEPT !.lease = NoLease]
      BY <2>1 DEF ClaimDue
    <3>2. ~Busy
      BY <2>1 DEF Indeterminate
    <3> QED BY <3>1, <3>2, TargetParts DEF TargetKept, Targets
  <2>2. CASE ~(target.lease # NoLease /\ target.lease.effect \in Indeterminate)
    BY <2>2, TargetSame DEF ClaimDue
  <2> QED BY <2>1, <2>2
<1>14. Open(jobs[i]) /\ UNCHANGED <<revision, ledger, wire, provider, now>>
  BY DEF ClaimDue, Open
<1> HIDE DEF p, j
<1> QED BY <1>1, <1>2, <1>3, <1>7, <1>8, <1>10, <1>11, <1>12, <1>13, <1>14 DEF Claimed

\* Worker w writes the intent to write or to delete n, and takes the lease.
Intends(w, n) ==
  /\ Only(w) /\ worker[w].pc = "syncing" /\ worker'[w].pc = "prepared"
  /\ worker'[w].effect = Len(effects) + 1
  /\ worker'[w].job = worker[w].job /\ worker'[w].deadline = worker[w].deadline
  /\ worker'[w].rev = worker[w].rev /\ worker'[w].done = worker[w].done
  /\ worker'[w].snap = worker[w].snap /\ worker'[w].listed = worker[w].listed
  /\ jobs' \in Seq(Jobs) /\ Len(jobs') = Len(jobs) /\ JobsKept
  /\ \A i \in 1..Len(jobs) : jobs'[i].state = jobs[i].state /\ jobs'[i].owner = jobs[i].owner
  /\ effects' \in Seq(Effects) /\ Len(effects') = Len(effects) + 1
  /\ \A e \in 1..Len(effects) : effects'[e] = effects[e]
  /\ effects'[Len(effects) + 1] =
       [job |-> worker[w].job, name |-> n, rev |-> worker[w].rev,
        delete |-> n \notin Desires(w), outcome |-> "open"]
  /\ TargetKept /\ target'.lease # NoLease
  /\ target'.lease = [job |-> worker[w].job, effect |-> Len(effects) + 1, until |-> now + LeaseTime]
  /\ ledger' \in [Names -> Claims]
  /\ ~Busy /\ now < worker[w].deadline /\ Custody(w)
  /\ UNCHANGED <<revision, wire, provider, now>>

LEMMA PrepareEffect ==
  ASSUME RowsTypeOK, NEW w \in Workers, NEW n \in Names, Prepare(w, n),
         worker[w].job \in 1..Len(jobs)
  PROVE  Intends(w, n)
<1> DEFINE e == Len(effects) + 1
           j == worker[w].job
           u == now + LeaseTime
           x == [job |-> j, name |-> n, rev |-> worker[w].rev,
                 delete |-> n \notin Desires(w), outcome |-> "open"]
           p == [worker[w] EXCEPT !.pc = "prepared", !.effect = e]
           l == [job |-> j, effect |-> e, until |-> u]
           k == [jobs[j] EXCEPT !.until = u]
<1>1. /\ jobs \in Seq(Jobs) /\ effects \in Seq(Effects) /\ worker \in [Workers -> Procs]
      /\ Len(jobs) \in Nat /\ Len(effects) \in Nat /\ jobs[j] \in Jobs /\ u \in Nat /\ e \in Nat
      /\ worker[w] \in Procs /\ j \in Nat /\ worker[w].rev \in Nat /\ ledger \in [Names -> Claims]
  BY JobParts, EffectParts, WorkerParts, LeaseAssumption DEF RowsTypeOK
<1>2. Only(w) /\ worker'[w] = p /\ p.pc = "prepared" /\ p.effect = e
      /\ p.job = j /\ p.deadline = worker[w].deadline /\ p.rev = worker[w].rev
      /\ p.done = worker[w].done /\ p.snap = worker[w].snap /\ p.listed = worker[w].listed
  <2>1. worker' = [worker EXCEPT ![w] = p]
    BY <1>1 DEF Prepare
  <2>2. p \in Procs /\ p.pc = "prepared" /\ p.effect = e
        /\ p.job = j /\ p.deadline = worker[w].deadline /\ p.rev = worker[w].rev
        /\ p.done = worker[w].done /\ p.snap = worker[w].snap /\ p.listed = worker[w].listed
    <3> HIDE DEF e
    <3> QED BY <1>1 DEF Procs
  <2> HIDE DEF p
  <2> QED BY <2>1, <2>2, OnlyThis
<1>3. jobs' \in Seq(Jobs) /\ Len(jobs') = Len(jobs) /\ JobsKept
      /\ \A i \in 1..Len(jobs) : jobs'[i].state = jobs[i].state /\ jobs'[i].owner = jobs[i].owner
  <2>1. jobs' = [jobs EXCEPT ![j] = k]
    BY <1>1 DEF Prepare
  <2>2. k \in Jobs /\ k.kind = jobs[j].kind /\ k.gen = jobs[j].gen /\ k.state = jobs[j].state
        /\ k.owner = jobs[j].owner
    <3> HIDE DEF u
    <3> QED BY <1>1 DEF Jobs
  <2>3. jobs' \in Seq(Jobs) /\ Len(jobs') = Len(jobs) /\ jobs'[j] = k
        /\ \A i \in 1..Len(jobs) : i # j => jobs'[i] = jobs[i]
    <3> HIDE DEF k
    <3> QED BY <1>1, <2>1, <2>2
  <2>4. ASSUME NEW i \in 1..Len(jobs)
        PROVE  /\ jobs'[i].kind = jobs[i].kind /\ jobs'[i].gen = jobs[i].gen
               /\ jobs'[i].state = jobs[i].state /\ jobs'[i].owner = jobs[i].owner
    <3> HIDE DEF k, j
    <3> QED BY <2>2, <2>3
  <2> HIDE DEF k
  <2> QED BY <1>1, <2>3, <2>4 DEF JobsKept
<1>4. effects' \in Seq(Effects) /\ Len(effects') = e /\ effects'[e] = x
      /\ \A f \in 1..Len(effects) : effects'[f] = effects[f]
  <2>1. effects' = Append(effects, x)
    BY DEF Prepare
  <2>2. x \in Effects
    BY <1>1 DEF Effects
  <2> HIDE DEF x
  <2> QED BY <1>1, <2>1, <2>2, Appended
<1>5. TargetKept /\ target'.lease = l /\ l # NoLease
  <2>1. target' = [target EXCEPT !.lease = l]
    BY DEF Prepare
  <2>2. l \in Leases /\ l # NoLease
    <3> HIDE DEF e, u
    <3> QED BY <1>1, LeaseAssumption DEF Leases
  <2> HIDE DEF l
  <2> QED BY <2>1, <2>2, TargetParts DEF TargetKept, Targets
<1>6. ledger' \in [Names -> Claims]
  <2>1. ledger' = [ledger EXCEPT ![n] = "dispatched"] \/ ledger' = ledger
    BY DEF Prepare
  <2> QED BY <1>1, <2>1 DEF Claims
<1>7. worker[w].pc = "syncing" /\ now < worker[w].deadline /\ ~Busy /\ Custody(w)
      /\ UNCHANGED <<revision, wire, provider, now>>
  BY DEF Prepare, Running, NotBusy
<1> HIDE DEF p
<1> QED BY <1>2, <1>3, <1>4, <1>5, <1>6, <1>7 DEF Intends

\* The outcome of worker w's intent is recorded and the lease given back.
Recorded(w) ==
  /\ worker[w].pc = "replied" /\ Only(w)
  /\ worker'[w].pc \in {"syncing", "closing"} /\ worker'[w].job = worker[w].job
  /\ worker'[w].deadline = worker[w].deadline /\ worker'[w].rev = worker[w].rev
  /\ worker'[w].pc = "closing" => worker'[w].done = worker[w].done
  /\ worker'[w].pc = "syncing" =>
       /\ worker'[w].done = worker[w].done \cup {effects[worker[w].effect].name}
       /\ worker[w].reply = "ok"
       /\ effects'[worker[w].effect].outcome = "success"
  /\ \A n \in Names : n # effects[worker[w].effect].name => worker'[w].snap[n] = worker[w].snap[n]
  /\ worker'[w].snap[effects[worker[w].effect].name] \in
       {worker[w].snap[effects[worker[w].effect].name], "owned"}
  /\ worker'[w].listed = worker[w].listed
  /\ EffectsKept /\ Len(effects') = Len(effects)
  /\ \A e \in 1..Len(effects) : e # worker[w].effect => effects'[e] = effects[e]
  /\ effects[worker[w].effect].outcome = "open"
  /\ effects'[worker[w].effect].outcome = "success" => worker[w].reply = "ok"
  /\ target.lease # NoLease /\ target.lease.effect = worker[w].effect
  /\ TargetKept /\ target'.lease = NoLease
  /\ ledger' \in [Names -> Claims]
  /\ \A n \in Names : n # effects[worker[w].effect].name => ledger'[n] = ledger[n]
  /\ LET f == worker[w].effect
         n == effects[f].name
     IN  ledger[n] # "released" =>
           ledger'[n] = Completion(effects[f], worker[w].reply, worker[w].snap[n])
  /\ UNCHANGED <<revision, jobs, wire, provider, now>>

LEMMA FinishEffect ==
  ASSUME RowsTypeOK, NEW w \in Workers, Finish(w), worker[w].effect \in 1..Len(effects)
  PROVE  Recorded(w)
<1> DEFINE f == worker[w].effect
           n == effects[f].name
           c == Completion(effects[f], worker[w].reply, worker[w].snap[n])
           o == Outcome(worker[w].reply)
           x == [effects[f] EXCEPT !.outcome = o]
           k == IF ledger[n] = "released" /\ c # "none" THEN "released" ELSE c
<1>1. /\ effects \in Seq(Effects) /\ worker \in [Workers -> Procs] /\ ledger \in [Names -> Claims]
      /\ Len(effects) \in Nat /\ effects[f] \in Effects /\ n \in Names
      /\ worker[w] \in Procs /\ worker[w].snap \in [Names -> Claims] /\ worker[w].done \subseteq Names
      /\ worker[w].reply \in Replies
  BY EffectParts, WorkerParts DEF RowsTypeOK
<1>2. o \in {"success", "failure", "unknown"} /\ (o = "success" <=> worker[w].reply = "ok")
  BY DEF Outcome
<1>3. c \in Claims
  BY <1>1 DEF Completion, Claims
<1>4. k \in Claims
  BY <1>3 DEF Claims
<1>5. EffectsKept /\ Len(effects') = Len(effects) /\ effects'[f].outcome = o
      /\ \A e \in 1..Len(effects) : e # f => effects'[e] = effects[e]
  <2>1. effects' = [effects EXCEPT ![f] = x] /\ effects[f].outcome = "open"
    BY <1>1 DEF Finish, Records
  <2>2. x \in Effects /\ x.job = effects[f].job /\ x.name = effects[f].name
        /\ x.rev = effects[f].rev /\ x.delete = effects[f].delete /\ x.outcome = o
    <3> HIDE DEF o
    <3> QED BY <1>1, <1>2 DEF Effects
  <2>3. effects' \in Seq(Effects) /\ Len(effects') = Len(effects) /\ effects'[f] = x
        /\ \A e \in 1..Len(effects) : e # f => effects'[e] = effects[e]
    <3> HIDE DEF x
    <3> QED BY <1>1, <2>1, <2>2
  <2> HIDE DEF x
  <2> QED BY <1>1, <2>1, <2>2, <2>3 DEF EffectsKept
<1>6. /\ ledger' \in [Names -> Claims] /\ \A m \in Names : m # n => ledger'[m] = ledger[m]
      /\ ledger[n] # "released" => ledger'[n] = c
  <2>1. ledger' = [ledger EXCEPT ![n] = k]
    BY <1>1 DEF Finish, Snap
  <2>2. ledger[n] # "released" => k = c
    OBVIOUS
  <2> HIDE DEF k, c
  <2> QED BY <1>1, <1>4, <2>1, <2>2
<1>7. TargetKept /\ target'.lease = NoLease
  BY TargetParts DEF Finish, TargetKept, Targets
<1>8. /\ Only(w) /\ worker'[w].pc \in {"syncing", "closing"} /\ worker'[w].job = worker[w].job
      /\ worker'[w].deadline = worker[w].deadline /\ worker'[w].rev = worker[w].rev
      /\ worker'[w].pc = "closing" => worker'[w].done = worker[w].done
      /\ worker'[w].pc = "syncing" => worker'[w].done = worker[w].done \cup {n} /\ worker[w].reply = "ok"
      /\ \A m \in Names : m # n => worker'[w].snap[m] = worker[w].snap[m]
      /\ worker'[w].snap[n] \in {worker[w].snap[n], "owned"}
      /\ worker'[w].listed = worker[w].listed
  <2>1. CASE worker[w].reply = "ok"
    <3> DEFINE s == [worker[w].snap EXCEPT ![n] = IF effects[f].delete THEN @ ELSE "owned"]
               d == worker[w].done \cup {n}
               p == [worker[w] EXCEPT !.pc = "syncing", !.done = d, !.snap = s, !.effect = 0,
                                      !.reply = "none"]
    <3>1. worker' = [worker EXCEPT ![w] = p]
      <4>1. worker' = [worker EXCEPT ![w].pc = "syncing", ![w].done = @ \cup {n},
                         ![w].snap[n] = IF effects[f].delete THEN @ ELSE "owned",
                         ![w].effect = 0, ![w].reply = "none"]
        BY <2>1, Zenon DEF Finish
      <4> QED BY ZenonT(40), <1>1, <4>1
    <3>2. /\ s \in [Names -> Claims] /\ \A m \in Names : m # n => s[m] = worker[w].snap[m]
          /\ s[n] \in {worker[w].snap[n], "owned"}
      BY <1>1 DEF Claims
    <3>3. d \subseteq Names /\ d = worker[w].done \cup {n}
      BY <1>1
    <3>4. p \in Procs /\ p.pc = "syncing" /\ p.job = worker[w].job /\ p.rev = worker[w].rev
          /\ p.deadline = worker[w].deadline /\ p.done = d /\ p.snap = s
          /\ p.listed = worker[w].listed
      <4> HIDE DEF s, d
      <4> QED BY <1>1, <3>2, <3>3 DEF Procs, Replies
    <3>5. Only(w) /\ worker'[w] = p
      <4> HIDE DEF p
      <4> QED BY <3>1, <3>4, OnlyThis
    <3> HIDE DEF p, s, d
    <3> QED BY <2>1, <3>2, <3>3, <3>4, <3>5
  <2>2. CASE worker[w].reply # "ok"
    <3>1. PICK cause \in {"error", "unauthorized", "credential", "superseded"} :
            worker' = [worker EXCEPT ![w].pc = "closing", ![w].effect = 0, ![w].reply = cause]
      BY <2>2 DEF Finish, Rejected
    <3> DEFINE p == [worker[w] EXCEPT !.pc = "closing", !.effect = 0, !.reply = cause]
    <3>2. worker' = [worker EXCEPT ![w] = p]
      BY <1>1, <3>1
    <3>3. p \in Procs /\ p.pc = "closing" /\ p.job = worker[w].job /\ p.rev = worker[w].rev
          /\ p.deadline = worker[w].deadline /\ p.done = worker[w].done /\ p.snap = worker[w].snap
          /\ p.listed = worker[w].listed
      BY <1>1 DEF Procs, Replies
    <3>4. Only(w) /\ worker'[w] = p
      <4> HIDE DEF p
      <4> QED BY <3>2, <3>3, OnlyThis
    <3> HIDE DEF p
    <3> QED BY <3>3, <3>4
  <2> QED BY <2>1, <2>2
<1>9. worker[w].pc = "replied" /\ effects[f].outcome = "open"
      /\ target.lease # NoLease /\ target.lease.effect = f
      /\ UNCHANGED <<revision, jobs, wire, provider, now>>
  BY DEF Finish, Records
<1>10. ledger[n] # "released" =>
          ledger'[n] = Completion(effects[f], worker[w].reply, worker[w].snap[n])
  BY <1>6
<1> HIDE DEF c, o, k
<1> QED BY <1>2, <1>5, <1>6, <1>7, <1>8, <1>9, <1>10 DEF Recorded

\* A scrub that fails lets go of the claims.
Drops(w) ==
  /\ Job(w).kind = "scrub" /\ target.lease = NoLease /\ jobs'[worker[w].job].state = "failed"
  /\ \A n \in Names : ledger'[n] = IF ledger[n] = "none" THEN "none" ELSE "released"

\* Worker w's job is closed or queued again, and w is idle; the claims stay, or a
\* scrub lets go of them.
Settled(w) ==
  /\ worker[w].pc \in {"syncing", "closing"} /\ Only(w) /\ worker'[w] = Idle
  /\ Job(w).owner = w
  /\ jobs' \in Seq(Jobs) /\ Len(jobs') = Len(jobs) /\ JobsKept
  /\ \A i \in 1..Len(jobs) : i # worker[w].job => jobs'[i] = jobs[i]
  /\ jobs'[worker[w].job].owner = "none"
  /\ jobs'[worker[w].job].state = "succeeded" => Succeed(w)
  /\ target' \in Targets
  /\ target'.gen = target.gen /\ target'.state = target.state /\ target'.paused = target.paused
  /\ target'.lease = target.lease
  /\ Open(jobs'[worker[w].job]) => target'.active = target.active
  /\ ~Open(jobs'[worker[w].job]) =>
       target'.active = IF target.active = worker[w].job THEN 0 ELSE target.active
  /\ \/ target'.converged = target.converged /\ target'.status \in {target.status, "failed"}
     \/ target'.converged = target.converged /\ Job(w).kind = "scrub"
     \/ /\ Succeed(w) /\ Job(w).kind = "converge"
        /\ target'.converged = worker[w].rev /\ target'.active = 0
  /\ ledger' \in [Names -> Claims] /\ (ledger' = ledger \/ Drops(w))
  /\ UNCHANGED <<revision, effects, wire, provider, now>>

LEMMA SettleEffect ==
  ASSUME QueueInv, NEW w \in Workers, Succeed(w) \/ Retry(w) \/ DeadCredential(w) \/ Abort(w)
  PROVE  Settled(w) /\ worker[w].job \in 1..Len(jobs) /\ worker[w].job = target.active
<1> DEFINE i == worker[w].job
<1>1. /\ RowsTypeOK /\ worker[w] \in Procs /\ worker[w].pc # "idle" /\ worker[w].rev \in Nat
      /\ worker[w].pc \in {"syncing", "closing"} /\ jobs \in Seq(Jobs) /\ Job(w).owner = w
      /\ ledger \in [Names -> Claims]
  BY WorkerParts DEF QueueInv, RowsTypeOK, Succeed, Retry, DeadCredential, Abort, Settles
<1>2. i \in 1..Len(jobs) /\ jobs[i] \in Jobs /\ Len(jobs) \in Nat
  BY <1>1, JobParts DEF QueueInv, Indexed
<1>3. i = target.active /\ i # 0 /\ target \in Targets
  BY SMTT(20), <1>1, <1>2, WorkersAssumption, JobParts, TargetParts
     DEF QueueInv, OwnedIsRunning, OpenJobIsActive, Open, Job
<1>4. Only(w) /\ worker'[w] = Idle
  BY <1>1, IdleType, OnlyThis DEF Succeed, Retry, DeadCredential, Abort
<1>5. ASSUME NEW s \in {"succeeded", "failed", "queued"},
             jobs' = [jobs EXCEPT ![i].state = s, ![i].owner = "none", ![i].until = 0]
      PROVE  /\ jobs' \in Seq(Jobs) /\ Len(jobs') = Len(jobs) /\ JobsKept
             /\ \A k \in 1..Len(jobs) : k # i => jobs'[k] = jobs[k]
             /\ jobs'[i].owner = "none" /\ jobs'[i].state = s
  <2> DEFINE j == [jobs[i] EXCEPT !.state = s, !.owner = "none", !.until = 0]
  <2>1. jobs' = [jobs EXCEPT ![i] = j]
    BY <1>1, <1>2, <1>5
  <2>2. j \in Jobs /\ j.kind = jobs[i].kind /\ j.gen = jobs[i].gen /\ j.state = s
        /\ j.owner = "none"
    BY <1>2 DEF Jobs
  <2>3. jobs' \in Seq(Jobs) /\ Len(jobs') = Len(jobs) /\ jobs'[i] = j
        /\ \A k \in 1..Len(jobs) : k # i => jobs'[k] = jobs[k]
    <3> HIDE DEF j
    <3> QED BY <1>1, <1>2, <2>1, <2>2
  <2> HIDE DEF j
  <2> QED BY <1>2, <2>2, <2>3 DEF JobsKept
<1>6. CASE Succeed(w)
  <2>1. /\ jobs' = [jobs EXCEPT ![i].state = "succeeded", ![i].owner = "none", ![i].until = 0]
        /\ UNCHANGED <<revision, effects, ledger, wire, provider, now>>
    BY <1>6 DEF Succeed
  <2>2. jobs'[i].state = "succeeded"
    BY <1>5, <2>1
  <2>3. ~Open(jobs'[i])
    BY <2>2 DEF Open
  <2>4. CASE Job(w).kind = "scrub"
    <3>1. target' = [target EXCEPT !.status = "converged", !.active = 0]
      BY <1>6, <2>4 DEF Succeed
    <3>2. /\ target' \in Targets
          /\ target'.gen = target.gen /\ target'.state = target.state /\ target'.paused = target.paused
          /\ target'.lease = target.lease /\ target'.active = 0 /\ target'.converged = target.converged
      BY <1>3, <3>1 DEF Targets
    <3> QED BY <1>1, <1>2, <1>3, <1>4, <1>5, <1>6, <2>1, <2>3, <2>4, <3>2 DEF Settled
  <2>5. CASE Job(w).kind = "converge"
    <3>1. target' = [target EXCEPT !.status = "converged", !.converged = worker[w].rev,
                                   !.attempted = worker[w].rev, !.active = 0]
      BY <1>6, <2>5 DEF Succeed
    <3>2. /\ target' \in Targets
          /\ target'.gen = target.gen /\ target'.state = target.state /\ target'.paused = target.paused
          /\ target'.lease = target.lease /\ target'.active = 0 /\ target'.converged = worker[w].rev
      BY <1>1, <1>3, <3>1 DEF Targets
    <3> QED BY <1>1, <1>2, <1>3, <1>4, <1>5, <1>6, <2>1, <2>3, <2>5, <3>2 DEF Settled
  <2> QED BY <1>1, <1>2, <2>4, <2>5, JobParts DEF Job
<1>7. CASE Retry(w)
  <2> DEFINE s == IF worker[w].reply = "error" THEN "queued" ELSE "failed"
             a == IF worker[w].rev > 0 THEN worker[w].rev ELSE target.attempted
             k == IF worker[w].reply = "error" THEN target.active ELSE 0
  <2>1. /\ jobs' = [jobs EXCEPT ![i].state = s, ![i].owner = "none", ![i].until = 0]
        /\ target' = [target EXCEPT !.status = "failed", !.attempted = a, !.active = k]
        /\ UNCHANGED <<revision, effects, ledger, wire, provider, now>>
    BY <1>3, <1>7 DEF Retry
  <2>2. s \in {"succeeded", "failed", "queued"} /\ a \in Nat /\ k \in Nat
        /\ (s = "queued" => k = target.active) /\ (s = "failed" => k = 0)
        /\ s \in {"queued", "failed"}
    BY <1>1, TargetParts
  <2> HIDE DEF s, a, k
  <2>3. /\ target' \in Targets
        /\ target'.gen = target.gen /\ target'.state = target.state /\ target'.paused = target.paused
        /\ target'.lease = target.lease /\ target'.active = k /\ target'.converged = target.converged
        /\ target'.status = "failed"
    BY <1>3, <2>1, <2>2 DEF Targets
  <2>4. jobs'[i].state = s
    BY <1>5, <2>1, <2>2
  <2>5. Open(jobs'[i]) <=> s = "queued"
    BY <2>2, <2>4 DEF Open
  <2> QED BY <1>1, <1>2, <1>3, <1>4, <1>5, <2>1, <2>2, <2>3, <2>4, <2>5 DEF Settled
<1>8. CASE Abort(w)
  <2>1. /\ jobs' = [jobs EXCEPT ![i].state = "failed", ![i].owner = "none", ![i].until = 0]
        /\ target' = [target EXCEPT !.active = 0]
        /\ UNCHANGED <<revision, effects, ledger, wire, provider, now>>
    BY <1>3, <1>8 DEF Abort
  <2>2. jobs'[i].state = "failed"
    BY <1>5, <2>1
  <2>3. ~Open(jobs'[i])
    BY <2>2 DEF Open
  <2>4. /\ target' \in Targets
        /\ target'.gen = target.gen /\ target'.state = target.state /\ target'.paused = target.paused
        /\ target'.lease = target.lease /\ target'.active = 0 /\ target'.converged = target.converged
        /\ target'.status = target.status
    BY <1>3, <2>1 DEF Targets
  <2> QED BY <1>1, <1>2, <1>3, <1>4, <1>5, <2>1, <2>2, <2>3, <2>4 DEF Settled
<1>9. CASE DeadCredential(w)
  <2>1. /\ jobs' = [jobs EXCEPT ![i].state = "failed", ![i].owner = "none", ![i].until = 0]
        /\ target' = [target EXCEPT !.status = "failed", !.active = 0]
        /\ ledger' = [n \in Names |-> IF ledger[n] = "none" THEN "none" ELSE "released"]
        /\ Job(w).kind = "scrub" /\ target.lease = NoLease
        /\ UNCHANGED <<revision, effects, wire, provider, now>>
    BY <1>9 DEF DeadCredential, Settles
  <2>2. jobs'[i].state = "failed"
    BY <1>5, <2>1
  <2>3. ~Open(jobs'[i])
    BY <2>2 DEF Open
  <2>4. /\ target' \in Targets
        /\ target'.gen = target.gen /\ target'.state = target.state /\ target'.paused = target.paused
        /\ target'.lease = target.lease /\ target'.active = 0 /\ target'.converged = target.converged
        /\ target'.status = "failed"
    BY <1>3, <2>1 DEF Targets
  <2>5. ledger' \in [Names -> Claims] /\ Drops(w)
    BY <2>1, <2>2 DEF Drops, Claims
  <2> QED BY <1>1, <1>2, <1>3, <1>4, <1>5, <2>1, <2>2, <2>3, <2>4, <2>5 DEF Settled
<1> QED BY <1>2, <1>3, <1>6, <1>7, <1>8, <1>9
-----------------------------------------------------------------------------
(* The queue stays sound.                                                  *)

LEMMA RuntimeInitQueue == RuntimeInit => QueueInv
<1> SUFFICES ASSUME RuntimeInit PROVE QueueInv
  OBVIOUS
<1>1. /\ revision = 1 /\ jobs = << >> /\ effects = << >> /\ ledger = Unclaimed
      /\ worker = [w \in Workers |-> Idle] /\ wire = {} /\ now = 0
      /\ provider = [n \in Names |-> 0]
      /\ target = [gen |-> 1, state |-> "active", paused |-> FALSE, status |-> "never",
                   active |-> 0, lease |-> NoLease, converged |-> 0, attempted |-> 0]
  BY DEF RuntimeInit
<1>2. Len(jobs) = 0 /\ Len(effects) = 0 /\ jobs \in Seq(Jobs) /\ effects \in Seq(Effects)
  BY <1>1
<1>3. target \in Targets /\ target.active = 0
  BY <1>1 DEF Targets
<1>4. revision \in Revisions
  BY <1>1, DesiredAssumption
<1>5. ledger \in [Names -> Claims] /\ provider \in [Names -> Nat \cup {Foreign, Late}]
  BY <1>1 DEF Unclaimed, Claims
<1>6. worker \in [Workers -> Procs] /\ \A w \in Workers : worker[w].pc = "idle"
  BY <1>1, IdleType DEF Idle
<1>7. RowsTypeOK
  BY <1>1, <1>2, <1>3, <1>4, <1>5, <1>6 DEF RowsTypeOK
<1>8. Indexed
  BY <1>1, <1>2, <1>3, <1>6 DEF Indexed, Acting
<1>9. OwnedIsRunning /\ OpenJobIsActive
  BY <1>2, <1>3, <1>7, JobParts DEF OwnedIsRunning, OpenJobIsActive
<1>10. EffectsApart /\ WireKnown /\ PreparedHolds
  BY <1>1, <1>6 DEF EffectsApart, WireKnown, PreparedHolds, Acting
<1> QED BY <1>7, <1>8, <1>9, <1>10 DEF QueueInv

\* Whoever has a live request, or has prepared one in time, holds the lease.
LEMMA HolderIsBusy ==
  ASSUME QueueInv
  PROVE  /\ \A q \in wire : Live(q) => Busy
         /\ \A w \in Workers : worker[w].pc = "prepared" /\ now < worker[w].deadline => Busy
<1>1. ASSUME NEW q \in wire, Live(q) PROVE Busy
  BY <1>1 DEF QueueInv, WireKnown, Live, Busy
<1>2. ASSUME NEW w \in Workers, worker[w].pc = "prepared", now < worker[w].deadline PROVE Busy
  <2>1. target.lease # NoLease /\ target.lease.until > worker[w].deadline
    BY <1>2 DEF QueueInv, PreparedHolds
  <2>2. target.lease.until \in Nat /\ worker[w].deadline \in Nat /\ now \in Nat
    BY <2>1, TargetParts, WorkerParts DEF QueueInv, RowsTypeOK
  <2> QED BY <1>2, <2>1, <2>2 DEF Busy
<1> QED BY <1>1, <1>2

\* So a step that leaves the requests, the workers and the clock alone, and
\* the lease too unless it has lapsed, keeps what is known of requests.
LEMMA LeaseKeepsRequests ==
  ASSUME QueueInv, UNCHANGED <<wire, worker, now>>,
         target'.lease = target.lease \/ ~Busy
  PROVE  EffectsApart' /\ WireKnown' /\ PreparedHolds'
<1>1. EffectsApart'
  BY DEF QueueInv, EffectsApart
<1>2. WireKnown'
  BY HolderIsBusy DEF QueueInv, WireKnown, Live
<1>3. PreparedHolds'
  BY HolderIsBusy DEF QueueInv, PreparedHolds
<1> QED BY <1>1, <1>2, <1>3

\* The open jobs, by number.
LEMMA OpenByNumber ==
  ASSUME QueueInv
  PROVE  /\ \A i \in 1..Len(jobs) : Open(jobs[i]) => i = target.active /\ jobs[i].gen = target.gen
         /\ target.active # 0 => target.active \in 1..Len(jobs) /\ Open(jobs[target.active])
BY JobParts DEF QueueInv, OpenJobIsActive, Indexed

LEMMA OpenJobIsActiveNext ==
  ASSUME jobs' \in Seq(Jobs),
         \A i \in 1..Len(jobs') : Open(jobs'[i]) => i = target'.active /\ jobs'[i].gen = target'.gen,
         target'.active # 0 => Open(jobs'[target'.active])
  PROVE  OpenJobIsActive'
<1>1. DOMAIN jobs' = 1..Len(jobs')
  OBVIOUS
<1> QED BY <1>1 DEF OpenJobIsActive, Open

LEMMA TriggerKeepsQueue ==
  ASSUME QueueInv, Trigger
  PROVE  QueueInv'
<1>1. /\ Triggered \/ PublishedAside
      /\ revision' \in Revisions /\ ledger' \in [Names -> Claims]
  BY TriggerEffect
<1>2. RowsTypeOK /\ Len(jobs) \in Nat /\ jobs \in Seq(Jobs)
  BY JobParts DEF QueueInv, RowsTypeOK
<1>3. CASE PublishedAside
  <2>1. UNCHANGED <<target, jobs, effects, worker, wire, provider, now>>
    BY <1>3 DEF PublishedAside
  <2>2. RowsTypeOK'
    BY <1>1, <1>2, <2>1 DEF RowsTypeOK
  <2>3. Indexed' /\ OwnedIsRunning' /\ OpenJobIsActive'
    BY <2>1 DEF QueueInv, Indexed, OwnedIsRunning, OpenJobIsActive, Open
  <2>4. EffectsApart' /\ WireKnown' /\ PreparedHolds'
    BY <2>1, LeaseKeepsRequests
  <2> QED BY <2>2, <2>3, <2>4 DEF QueueInv
<1>4. CASE Triggered
  <2>1. /\ jobs' \in Seq(Jobs) /\ Len(jobs') \in {Len(jobs), Len(jobs) + 1}
        /\ target' \in Targets /\ target'.gen = target.gen + 1
        /\ UNCHANGED <<effects, worker, wire, provider, now>>
        /\ target'.lease = target.lease \/ ~Busy
    BY <1>4 DEF Triggered
  <2>2. RowsTypeOK'
    BY <1>1, <1>2, <2>1 DEF RowsTypeOK
  <2>3. target'.active \in {0, Len(jobs')} /\ Len(jobs') \in Nat /\ Len(jobs) <= Len(jobs')
    BY <1>2, <1>4, <2>1 DEF Triggered
  <2>4. Indexed'
    BY <1>2, <2>1, <2>3 DEF QueueInv, Indexed
  <2>5. ASSUME NEW i \in 1..Len(jobs')
        PROVE /\ jobs'[i].owner = "none"
              /\ Open(jobs'[i]) => i = target'.active /\ jobs'[i].gen = target'.gen
    <3>1. CASE i \in 1..Len(jobs)
      BY <1>4, <3>1 DEF Triggered
    <3>2. CASE i = Len(jobs) + 1 /\ Len(jobs') = Len(jobs) + 1
      BY <1>4, <3>2 DEF Triggered
    <3> QED BY <1>2, <2>1, <3>1, <3>2
  <2>6. target'.active # 0 => Open(jobs'[target'.active])
    <3>1. CASE Len(jobs') = Len(jobs)
      BY <1>4, <3>1 DEF Triggered
    <3>2. CASE Len(jobs') = Len(jobs) + 1
      BY <1>4, <3>2 DEF Triggered
    <3> QED BY <2>1, <3>1, <3>2
  <2>7. OwnedIsRunning' /\ OpenJobIsActive'
    BY <2>1, <2>5, <2>6, OpenJobIsActiveNext DEF OwnedIsRunning
  <2>8. EffectsApart' /\ WireKnown' /\ PreparedHolds'
    BY <2>1, LeaseKeepsRequests
  <2> QED BY <2>2, <2>4, <2>7, <2>8 DEF QueueInv
<1> QED BY <1>1, <1>3, <1>4

LEMMA OnwardKeepsQueue ==
  ASSUME QueueInv, NEW w \in Workers, Onward(w)
  PROVE  QueueInv'
<1>1. /\ RowsTypeOK /\ worker' \in [Workers -> Procs]
      /\ \A v \in Workers : v # w => worker'[v] = worker[v]
  BY OnlyOther DEF QueueInv, Onward
<1>2. /\ target' \in Targets /\ target'.active = target.active /\ target'.gen = target.gen
      /\ target'.lease = target.lease /\ ledger' \in [Names -> Claims]
      /\ UNCHANGED <<revision, jobs, effects, wire, provider, now>>
      /\ worker[w].pc # "idle"
      /\ worker'[w].pc # "idle" =>
           worker'[w].job = worker[w].job /\ worker'[w].deadline = worker[w].deadline
      /\ worker'[w].pc \in Acting =>
           /\ worker[w].pc = "prepared" /\ worker'[w].pc = "replied"
           /\ worker'[w].effect = worker[w].effect
  BY DEF Onward, TargetKept
<1>3. RowsTypeOK'
  BY <1>1, <1>2 DEF RowsTypeOK
<1>4. Indexed'
  BY <1>1, <1>2 DEF QueueInv, Indexed, Acting
<1>5. OwnedIsRunning' /\ OpenJobIsActive'
  BY <1>2 DEF QueueInv, OwnedIsRunning, OpenJobIsActive, Open
<1>6. EffectsApart'
  BY <1>1, <1>2 DEF QueueInv, EffectsApart, Acting
<1>7. WireKnown'
  BY <1>1, <1>2 DEF QueueInv, WireKnown, Live, Acting
<1>8. PreparedHolds'
  BY <1>1, <1>2 DEF QueueInv, PreparedHolds, Acting
<1> QED BY <1>3, <1>4, <1>5, <1>6, <1>7, <1>8 DEF QueueInv

LEMMA ClaimedKeepsQueue ==
  ASSUME QueueInv, NEW w \in Workers, NEW i \in 1..Len(jobs), Claimed(w, i)
  PROVE  QueueInv'
<1>1. /\ RowsTypeOK /\ worker' \in [Workers -> Procs]
      /\ \A v \in Workers : v # w => worker'[v] = worker[v]
  BY OnlyOther DEF QueueInv, Claimed
<1>2. /\ target' \in Targets /\ target'.active = target.active /\ target'.gen = target.gen
      /\ target'.lease = target.lease \/ ~Busy
      /\ jobs' \in Seq(Jobs) /\ Len(jobs') = Len(jobs) /\ JobsKept
      /\ \A k \in 1..Len(jobs) : k # i => jobs'[k] = jobs[k]
      /\ Open(jobs[i]) /\ jobs'[i].state = "running"
      /\ UNCHANGED <<revision, ledger, wire, provider, now>>
      /\ worker'[w].pc = "claimed" /\ worker'[w].job = i
      /\ worker'[w].deadline = now + AttemptTimeout
  BY DEF Claimed, TargetKept
<1>3. effects' \in Seq(Effects) /\ Len(effects') = Len(effects)
      /\ \A e \in 1..Len(effects) : effects'[e].job = effects[e].job
  BY DEF Claimed, EffectsKept
<1>4. RowsTypeOK'
  BY <1>1, <1>2, <1>3 DEF RowsTypeOK
<1>5. Indexed'
  <2>1. now + AttemptTimeout \in Nat /\ Len(jobs) \in Nat
    BY <1>1, JobParts, LeaseAssumption DEF RowsTypeOK
  <2>2. target'.active \in 0..Len(jobs')
    BY <1>2 DEF QueueInv, Indexed
  <2>3. ASSUME NEW v \in Workers, worker'[v].pc # "idle"
        PROVE  worker'[v].job \in 1..Len(jobs') /\ worker'[v].deadline <= now' + AttemptTimeout
    <3>1. CASE v = w
      BY <1>2, <2>1, <3>1
    <3>2. CASE v # w
      BY <1>1, <1>2, <2>3, <3>2 DEF QueueInv, Indexed
    <3> QED BY <3>1, <3>2
  <2>4. \A v \in Workers : worker'[v].pc \in Acting => worker'[v].effect \in 1..Len(effects')
    BY <1>1, <1>2, <1>3 DEF QueueInv, Indexed, Acting
  <2>5. /\ \A q \in wire' : q.effect \in 1..Len(effects')
        /\ \A e \in 1..Len(effects') : effects'[e].job \in 1..Len(jobs')
    BY <1>2, <1>3 DEF QueueInv, Indexed
  <2> QED BY <2>2, <2>3, <2>4, <2>5 DEF Indexed
<1>6. OwnedIsRunning'
  BY <1>2 DEF QueueInv, OwnedIsRunning
<1>7. OpenJobIsActive'
  <2>1. \A k \in 1..Len(jobs') : Open(jobs'[k]) => k = target'.active /\ jobs'[k].gen = target'.gen
    BY <1>2, OpenByNumber DEF JobsKept
  <2>2. target'.active # 0 => Open(jobs'[target'.active])
    BY <1>2, OpenByNumber DEF Open
  <2> QED BY <1>2, <2>1, <2>2, OpenJobIsActiveNext
<1>8. EffectsApart'
  BY <1>1, <1>2 DEF QueueInv, EffectsApart, Acting
<1>9. WireKnown'
  BY <1>1, <1>2, HolderIsBusy DEF QueueInv, WireKnown, Live
<1>10. PreparedHolds'
  BY <1>1, <1>2, HolderIsBusy DEF QueueInv, PreparedHolds
<1> QED BY <1>4, <1>5, <1>6, <1>7, <1>8, <1>9, <1>10 DEF QueueInv

LEMMA IntendsKeepsQueue ==
  ASSUME QueueInv, NEW w \in Workers, NEW n \in Names, Intends(w, n)
  PROVE  QueueInv'
<1>1. /\ RowsTypeOK /\ worker' \in [Workers -> Procs]
      /\ \A v \in Workers : v # w => worker'[v] = worker[v]
  BY OnlyOther DEF QueueInv, Intends
<1>2. /\ Len(jobs) \in Nat /\ Len(effects) \in Nat /\ now \in Nat /\ AttemptTimeout \in Nat
      /\ LeaseTime \in Nat /\ AttemptTimeout < LeaseTime /\ worker[w].deadline \in Nat
  BY <1>1, JobParts, EffectParts, WorkerParts, LeaseAssumption DEF RowsTypeOK
<1>3. /\ target' \in Targets /\ target'.active = target.active /\ target'.gen = target.gen
      /\ jobs' \in Seq(Jobs) /\ Len(jobs') = Len(jobs) /\ JobsKept
      /\ \A i \in 1..Len(jobs) : jobs'[i].state = jobs[i].state /\ jobs'[i].owner = jobs[i].owner
      /\ ledger' \in [Names -> Claims] /\ ~Busy
      /\ UNCHANGED <<revision, wire, provider, now>>
      /\ worker[w].pc = "syncing" /\ worker'[w].pc = "prepared"
      /\ worker'[w].effect = Len(effects) + 1
      /\ worker'[w].job = worker[w].job /\ worker'[w].deadline = worker[w].deadline
  BY DEF Intends, TargetKept
<1>4. /\ target'.lease # NoLease /\ target'.lease.effect = Len(effects) + 1
      /\ target'.lease.until = now + LeaseTime
  BY DEF Intends
<1>5. /\ effects' \in Seq(Effects) /\ Len(effects') = Len(effects) + 1
      /\ \A e \in 1..Len(effects) : effects'[e].job = effects[e].job
      /\ effects'[Len(effects) + 1].job = worker[w].job
  BY DEF Intends
<1>6. RowsTypeOK'
  BY <1>1, <1>3, <1>5 DEF RowsTypeOK
<1>7. worker[w].job \in 1..Len(jobs) /\ worker[w].deadline <= now + AttemptTimeout
  BY <1>3 DEF QueueInv, Indexed
<1>8. Indexed'
  <2>1. target'.active \in 0..Len(jobs')
    BY <1>3 DEF QueueInv, Indexed
  <2>2. \A v \in Workers : worker'[v].pc # "idle" =>
          worker'[v].job \in 1..Len(jobs') /\ worker'[v].deadline <= now' + AttemptTimeout
    BY <1>1, <1>3, <1>7 DEF QueueInv, Indexed
  <2>3. \A v \in Workers : worker'[v].pc \in Acting => worker'[v].effect \in 1..Len(effects')
    BY <1>1, <1>2, <1>3, <1>5 DEF QueueInv, Indexed
  <2>4. \A q \in wire' : q.effect \in 1..Len(effects')
    BY <1>2, <1>3, <1>5 DEF QueueInv, Indexed
  <2>5. ASSUME NEW e \in 1..Len(effects') PROVE effects'[e].job \in 1..Len(jobs')
    <3>1. e \in 1..Len(effects) \/ e = Len(effects) + 1
      BY <1>2, <1>5
    <3> QED BY <1>3, <1>5, <1>7, <3>1 DEF QueueInv, Indexed
  <2> QED BY <2>1, <2>2, <2>3, <2>4, <2>5 DEF Indexed
<1>9. OwnedIsRunning'
  BY <1>3 DEF QueueInv, OwnedIsRunning
<1>10. OpenJobIsActive'
  <2>1. \A k \in 1..Len(jobs') : Open(jobs'[k]) => k = target'.active /\ jobs'[k].gen = target'.gen
    BY <1>3, OpenByNumber DEF JobsKept, Open
  <2>2. target'.active # 0 => Open(jobs'[target'.active])
    BY <1>3, OpenByNumber DEF Open
  <2> QED BY <1>3, <2>1, <2>2, OpenJobIsActiveNext
<1>11. \A v \in Workers : worker[v].pc \in Acting => worker[v].effect # Len(effects) + 1
  BY <1>2 DEF QueueInv, Indexed
<1>12. \A q \in wire : q.effect # Len(effects) + 1
  BY <1>2 DEF QueueInv, Indexed
<1>13. EffectsApart'
  BY <1>1, <1>3, <1>11 DEF QueueInv, EffectsApart
<1>14. WireKnown'
  BY <1>1, <1>3, <1>12, HolderIsBusy DEF QueueInv, WireKnown, Live
<1>15. PreparedHolds'
  <2>1. now + LeaseTime > worker[w].deadline
    BY <1>2, <1>7
  <2> QED BY <1>1, <1>3, <1>4, <2>1, HolderIsBusy DEF QueueInv, PreparedHolds
<1> QED BY <1>6, <1>8, <1>9, <1>10, <1>13, <1>14, <1>15 DEF QueueInv

\* Worker w's request is on the wire, under the lease it holds.
LEMMA SendEffect ==
  ASSUME QueueInv, NEW w \in Workers, Send(w)
  PROVE  /\ Only(w) /\ worker[w].pc = "prepared" /\ worker'[w].pc = "sent"
         /\ worker'[w].job = worker[w].job /\ worker'[w].deadline = worker[w].deadline
         /\ worker'[w].effect = worker[w].effect /\ worker'[w].rev = worker[w].rev
         /\ worker'[w].done = worker[w].done /\ worker'[w].snap = worker[w].snap
         /\ worker'[w].listed = worker[w].listed
         /\ \E q \in Requests : /\ wire' = wire \cup {q}
                                /\ q.effect = worker[w].effect /\ q.until = target.lease.until
         /\ target.lease # NoLease /\ target.lease.effect = worker[w].effect
         /\ Custody(w)
         /\ UNCHANGED <<revision, target, jobs, effects, ledger, provider, now>>
<1> DEFINE p == [worker[w] EXCEPT !.pc = "sent"]
           q == [effect |-> worker[w].effect, until |-> target.lease.until]
<1>1. RowsTypeOK /\ worker[w] \in Procs /\ worker \in [Workers -> Procs] /\ worker[w].effect \in Nat
  BY WorkerParts DEF QueueInv, RowsTypeOK
<1>2. /\ worker[w].pc = "prepared" /\ now < worker[w].deadline /\ wire' = wire \cup {q} /\ Custody(w)
      /\ UNCHANGED <<revision, target, jobs, effects, ledger, provider, now>>
  BY DEF Send, Running
<1>3. target.lease # NoLease /\ target.lease.effect = worker[w].effect
  BY <1>2 DEF QueueInv, PreparedHolds
<1>4. q \in Requests /\ q.effect = worker[w].effect /\ q.until = target.lease.until
  BY <1>1, <1>3, TargetParts DEF Requests
<1>5. worker' = [worker EXCEPT ![w] = p]
  BY <1>1 DEF Send
<1>6. /\ p \in Procs /\ p.pc = "sent" /\ p.job = worker[w].job /\ p.deadline = worker[w].deadline
      /\ p.effect = worker[w].effect /\ p.rev = worker[w].rev /\ p.done = worker[w].done
      /\ p.snap = worker[w].snap /\ p.listed = worker[w].listed
  BY <1>1 DEF Procs
<1>7. Only(w) /\ worker'[w] = p
  <2> HIDE DEF p
  <2> QED BY <1>1, <1>5, <1>6, OnlyThis
<1> HIDE DEF p, q
<1> QED BY <1>2, <1>3, <1>4, <1>6, <1>7

LEMMA SendKeepsQueue ==
  ASSUME QueueInv, NEW w \in Workers, Send(w)
  PROVE  QueueInv'
<1>1. /\ RowsTypeOK /\ worker' \in [Workers -> Procs]
      /\ \A v \in Workers : v # w => worker'[v] = worker[v]
  BY SendEffect, OnlyOther DEF QueueInv
<1>2. PICK q \in Requests : /\ wire' = wire \cup {q}
                            /\ q.effect = worker[w].effect /\ q.until = target.lease.until
  BY SendEffect
<1>3. /\ worker[w].pc = "prepared" /\ worker'[w].pc = "sent"
      /\ worker'[w].job = worker[w].job /\ worker'[w].deadline = worker[w].deadline
      /\ worker'[w].effect = worker[w].effect
      /\ target.lease # NoLease /\ target.lease.effect = worker[w].effect
      /\ UNCHANGED <<revision, target, jobs, effects, ledger, provider, now>>
  BY SendEffect
<1>4. RowsTypeOK'
  BY <1>1, <1>2, <1>3 DEF RowsTypeOK
<1>5. Indexed'
  BY <1>1, <1>2, <1>3 DEF QueueInv, Indexed, Acting
<1>6. OwnedIsRunning' /\ OpenJobIsActive'
  BY <1>3 DEF QueueInv, OwnedIsRunning, OpenJobIsActive, Open
<1>7. EffectsApart'
  BY <1>1, <1>3 DEF QueueInv, EffectsApart, Acting
<1>8. WireKnown'
  <2>1. ASSUME NEW v \in Workers, worker'[v].pc \in {"prepared", "replied"}, NEW r \in wire'
        PROVE  r.effect # worker'[v].effect
    <3>1. v # w /\ worker'[v] = worker[v]
      BY <1>1, <1>3, <2>1
    <3>2. CASE r \in wire
      BY <2>1, <3>1, <3>2 DEF QueueInv, WireKnown
    <3>3. CASE r = q
      BY <1>2, <1>3, <2>1, <3>1, <3>3 DEF QueueInv, EffectsApart, Acting
    <3> QED BY <1>2, <3>2, <3>3
  <2>2. \A r \in wire : r.effect # q.effect
    BY <1>2, <1>3 DEF QueueInv, WireKnown
  <2>3. \A r, s \in wire' : r.effect = s.effect => r = s
    BY <1>2, <2>2 DEF QueueInv, WireKnown
  <2>4. ASSUME NEW r \in wire', Live(r)'
        PROVE  /\ target'.lease # NoLease /\ target'.lease.effect = r.effect
               /\ target'.lease.until = r.until
    <3>1. CASE r \in wire
      BY <1>3, <2>4, <3>1 DEF QueueInv, WireKnown, Live
    <3>2. CASE r = q
      BY <1>2, <1>3, <3>2
    <3> QED BY <1>2, <3>1, <3>2
  <2> QED BY <2>1, <2>3, <2>4 DEF WireKnown
<1>9. PreparedHolds'
  BY <1>1, <1>3 DEF QueueInv, PreparedHolds
<1> QED BY <1>4, <1>5, <1>6, <1>7, <1>8, <1>9 DEF QueueInv

\* What lands is what a live request carries.
Lands(q) ==
  /\ Live(q)
  /\ provider' = [provider EXCEPT ![effects[q.effect].name] =
                    IF effects[q.effect].delete THEN 0 ELSE effects[q.effect].rev]

LEMMA RespondEffect ==
  ASSUME QueueInv, NEW w \in Workers, NEW applied \in BOOLEAN, NEW seen \in BOOLEAN,
         Respond(w, applied, seen)
  PROVE  /\ Only(w) /\ worker[w].pc = "sent" /\ worker'[w].pc = "replied"
         /\ worker'[w].job = worker[w].job /\ worker'[w].deadline = worker[w].deadline
         /\ worker'[w].effect = worker[w].effect /\ worker'[w].rev = worker[w].rev
         /\ worker'[w].done = worker[w].done /\ worker'[w].snap = worker[w].snap
         /\ worker'[w].listed = worker[w].listed
         /\ \E q \in wire : /\ wire' = wire \ {q} /\ q.effect = worker[w].effect
                            /\ \/ Lands(q) /\ worker'[w].reply \in {"ok", "unknown"}
                               \/ provider' = provider /\ worker'[w].reply \in {"refused", "unknown"}
         /\ UNCHANGED <<revision, target, jobs, effects, ledger, now>>
<1> DEFINE a == IF ~seen THEN "unknown" ELSE IF applied THEN "ok" ELSE "refused"
           p == [worker[w] EXCEPT !.pc = "replied", !.reply = a]
<1>1. RowsTypeOK /\ worker[w] \in Procs /\ worker \in [Workers -> Procs]
  BY WorkerParts DEF QueueInv, RowsTypeOK
<1>2. worker' = [worker EXCEPT ![w] = p]
  BY <1>1 DEF Respond
<1>3. a \in Replies /\ a \in IF applied THEN {"ok", "unknown"} ELSE {"refused", "unknown"}
  BY DEF Replies
<1>4. /\ p \in Procs /\ p.pc = "replied" /\ p.job = worker[w].job /\ p.deadline = worker[w].deadline
      /\ p.effect = worker[w].effect /\ p.rev = worker[w].rev /\ p.done = worker[w].done
      /\ p.snap = worker[w].snap /\ p.listed = worker[w].listed /\ p.reply = a
  <2> HIDE DEF a
  <2> QED BY <1>1, <1>3 DEF Procs
<1>5. Only(w) /\ worker'[w] = p
  <2> HIDE DEF p
  <2> QED BY <1>1, <1>2, <1>4, OnlyThis
<1>6. PICK q \in wire : /\ wire' = wire \ {q} /\ q.effect = worker[w].effect
                        /\ now >= q.until => ~applied /\ ~seen
  BY DEF Respond
<1>7. now \in Nat /\ q.until \in Nat
  BY <1>1, <1>6 DEF RowsTypeOK, Requests
<1>8. \/ Lands(q) /\ worker'[w].reply \in {"ok", "unknown"}
      \/ provider' = provider /\ worker'[w].reply \in {"refused", "unknown"}
  <2>1. CASE applied
    <3>1. provider' = Landed(q.effect)
      BY <1>6, <2>1 DEF Respond
    <3>2. Live(q)
      BY <1>6, <1>7, <2>1 DEF Live
    <3> HIDE DEF a, p
    <3> QED BY <1>3, <1>4, <1>5, <2>1, <3>1, <3>2 DEF Lands, Landed
  <2>2. CASE ~applied
    <3>1. provider' = provider
      BY <2>2 DEF Respond
    <3> HIDE DEF a, p
    <3> QED BY <1>3, <1>4, <1>5, <2>2, <3>1
  <2> QED BY <2>1, <2>2
<1>9. worker[w].pc = "sent" /\ UNCHANGED <<revision, target, jobs, effects, ledger, now>>
  BY DEF Respond
<1> HIDE DEF a, p
<1> QED BY <1>4, <1>5, <1>6, <1>8, <1>9

\* A request lands on a name of the target, with the value of its revision.
LEMMA LandsType ==
  ASSUME QueueInv, NEW q \in wire, Lands(q) \/ provider' = provider
  PROVE  provider' \in [Names -> Nat \cup {Foreign, Late}]
<1>1. provider \in [Names -> Nat \cup {Foreign, Late}] /\ q.effect \in 1..Len(effects) /\ RowsTypeOK
  BY DEF QueueInv, RowsTypeOK, Indexed
<1>2. effects[q.effect].name \in Names /\ effects[q.effect].rev \in Nat
  BY <1>1, EffectParts
<1> QED BY <1>1, <1>2 DEF Lands

LEMMA RespondKeepsQueue ==
  ASSUME QueueInv, NEW w \in Workers, NEW applied \in BOOLEAN, NEW seen \in BOOLEAN,
         Respond(w, applied, seen)
  PROVE  QueueInv'
<1>1. /\ Only(w) /\ worker[w].pc = "sent" /\ worker'[w].pc = "replied"
      /\ worker'[w].job = worker[w].job /\ worker'[w].deadline = worker[w].deadline
      /\ worker'[w].effect = worker[w].effect
      /\ UNCHANGED <<revision, target, jobs, effects, ledger, now>>
  BY RespondEffect
<1>2. PICK q \in wire : /\ wire' = wire \ {q} /\ q.effect = worker[w].effect
                        /\ Lands(q) \/ provider' = provider
  BY RespondEffect
<1>3. /\ RowsTypeOK /\ worker' \in [Workers -> Procs]
      /\ \A v \in Workers : v # w => worker'[v] = worker[v]
  BY <1>1, OnlyOther DEF QueueInv
<1>4. RowsTypeOK'
  BY <1>1, <1>2, <1>3, LandsType DEF RowsTypeOK
<1>5. Indexed'
  BY <1>1, <1>2, <1>3 DEF QueueInv, Indexed, Acting
<1>6. OwnedIsRunning' /\ OpenJobIsActive'
  BY <1>1 DEF QueueInv, OwnedIsRunning, OpenJobIsActive, Open
<1>7. EffectsApart'
  BY <1>1, <1>3 DEF QueueInv, EffectsApart, Acting
<1>8. WireKnown'
  <2>1. \A r \in wire' : r.effect # worker[w].effect
    BY <1>2 DEF QueueInv, WireKnown
  <2> QED BY <1>1, <1>2, <1>3, <2>1 DEF QueueInv, WireKnown, Live
<1>9. PreparedHolds'
  BY <1>1, <1>3 DEF QueueInv, PreparedHolds
<1> QED BY <1>4, <1>5, <1>6, <1>7, <1>8, <1>9 DEF QueueInv

LEMMA LandOrphanEffect ==
  ASSUME NEW q \in wire, LandOrphan(q)
  PROVE  /\ Lands(q) /\ wire' = wire \ {q}
         /\ UNCHANGED <<revision, target, jobs, effects, ledger, worker, now>>
BY DEF LandOrphan, Lands, Landed, Live

LEMMA LandOrphanKeepsQueue ==
  ASSUME QueueInv, NEW q \in wire, LandOrphan(q)
  PROVE  QueueInv'
<1>1. /\ Lands(q) /\ wire' = wire \ {q}
      /\ UNCHANGED <<revision, target, jobs, effects, ledger, worker, now>>
  BY LandOrphanEffect
<1>2. RowsTypeOK'
  BY <1>1, LandsType DEF QueueInv, RowsTypeOK
<1>3. Indexed' /\ OwnedIsRunning' /\ OpenJobIsActive'
  BY <1>1 DEF QueueInv, Indexed, OwnedIsRunning, OpenJobIsActive, Open
<1>4. EffectsApart' /\ WireKnown' /\ PreparedHolds'
  BY <1>1 DEF QueueInv, EffectsApart, WireKnown, PreparedHolds, Live
<1> QED BY <1>2, <1>3, <1>4 DEF QueueInv

LEMMA RecordedKeepsQueue ==
  ASSUME QueueInv, NEW w \in Workers, Recorded(w)
  PROVE  QueueInv'
<1>1. /\ RowsTypeOK /\ worker' \in [Workers -> Procs]
      /\ \A v \in Workers : v # w => worker'[v] = worker[v]
  BY OnlyOther DEF QueueInv, Recorded
<1>2. /\ worker[w].pc = "replied" /\ worker'[w].pc \in {"syncing", "closing"}
      /\ worker'[w].job = worker[w].job /\ worker'[w].deadline = worker[w].deadline
      /\ target' \in Targets /\ target'.active = target.active /\ target'.gen = target.gen
      /\ target.lease # NoLease /\ target.lease.effect = worker[w].effect
      /\ ledger' \in [Names -> Claims]
      /\ UNCHANGED <<revision, jobs, wire, provider, now>>
  BY DEF Recorded, TargetKept
<1>3. effects' \in Seq(Effects) /\ Len(effects') = Len(effects)
      /\ \A e \in 1..Len(effects) : effects'[e].job = effects[e].job
  BY DEF Recorded, EffectsKept
<1>4. RowsTypeOK'
  BY <1>1, <1>2, <1>3 DEF RowsTypeOK
<1>5. Indexed'
  <2>1. target'.active \in 0..Len(jobs')
    BY <1>2 DEF QueueInv, Indexed
  <2>2. \A v \in Workers : worker'[v].pc # "idle" =>
          worker'[v].job \in 1..Len(jobs') /\ worker'[v].deadline <= now' + AttemptTimeout
    BY <1>1, <1>2 DEF QueueInv, Indexed
  <2>3. \A v \in Workers : worker'[v].pc \in Acting => worker'[v].effect \in 1..Len(effects')
    BY <1>1, <1>2, <1>3 DEF QueueInv, Indexed, Acting
  <2>4. /\ \A q \in wire' : q.effect \in 1..Len(effects')
        /\ \A e \in 1..Len(effects') : effects'[e].job \in 1..Len(jobs')
    BY <1>2, <1>3 DEF QueueInv, Indexed
  <2> QED BY <2>1, <2>2, <2>3, <2>4 DEF Indexed
<1>6. OwnedIsRunning' /\ OpenJobIsActive'
  BY <1>2 DEF QueueInv, OwnedIsRunning, OpenJobIsActive, Open
<1>7. EffectsApart'
  BY <1>1, <1>2 DEF QueueInv, EffectsApart, Acting
<1>8. WireKnown'
  <2>1. \A q \in wire : ~Live(q)
    BY <1>2 DEF QueueInv, WireKnown
  <2> QED BY <1>1, <1>2, <2>1 DEF QueueInv, WireKnown, Live
<1>9. PreparedHolds'
  <2>1. \A v \in Workers : v # w /\ worker[v].pc = "prepared" => worker[v].effect # worker[w].effect
    BY <1>2 DEF QueueInv, EffectsApart, Acting
  <2> QED BY <1>1, <1>2, <2>1 DEF QueueInv, PreparedHolds
<1> QED BY <1>4, <1>5, <1>6, <1>7, <1>8, <1>9 DEF QueueInv

LEMMA SettledKeepsQueue ==
  ASSUME QueueInv, NEW w \in Workers, Settled(w), worker[w].job \in 1..Len(jobs),
         worker[w].job = target.active
  PROVE  QueueInv'
<1> DEFINE i == worker[w].job
<1>1. /\ RowsTypeOK /\ worker' \in [Workers -> Procs]
      /\ \A v \in Workers : v # w => worker'[v] = worker[v]
  BY OnlyOther DEF QueueInv, Settled
<1>2. /\ worker'[w].pc = "idle"
      /\ jobs' \in Seq(Jobs) /\ Len(jobs') = Len(jobs) /\ JobsKept
      /\ \A k \in 1..Len(jobs) : k # i => jobs'[k] = jobs[k]
      /\ jobs'[i].owner = "none"
      /\ target' \in Targets /\ target'.gen = target.gen /\ target'.lease = target.lease
      /\ Open(jobs'[i]) => target'.active = i
      /\ ~Open(jobs'[i]) => target'.active = 0
      /\ ledger' \in [Names -> Claims]
      /\ UNCHANGED <<revision, effects, wire, provider, now>>
  BY DEF Settled, Idle
<1>3. RowsTypeOK'
  BY <1>1, <1>2 DEF RowsTypeOK
<1>4. target'.active \in 0..Len(jobs')
  BY <1>1, <1>2, JobParts
<1>5. Indexed'
  BY <1>1, <1>2, <1>4 DEF QueueInv, Indexed, Acting
<1>6. OwnedIsRunning'
  BY <1>2 DEF QueueInv, OwnedIsRunning
<1>7. OpenJobIsActive'
  <2>1. \A k \in 1..Len(jobs') : Open(jobs'[k]) => k = target'.active /\ jobs'[k].gen = target'.gen
    <3>1. ASSUME NEW k \in 1..Len(jobs'), Open(jobs'[k])
          PROVE  k = target'.active /\ jobs'[k].gen = target'.gen
      <4>1. CASE k # i
        BY <1>2, <3>1, <4>1, OpenByNumber
      <4>2. CASE k = i
        <5>1. Open(jobs[i])
          BY <1>1, OpenByNumber, JobParts
        <5> QED BY <1>2, <3>1, <4>2, <5>1, OpenByNumber DEF JobsKept
      <4> QED BY <4>1, <4>2
    <3> QED BY <3>1
  <2>2. target'.active # 0 => Open(jobs'[target'.active])
    BY <1>2
  <2> QED BY <1>2, <2>1, <2>2, OpenJobIsActiveNext
<1>8. EffectsApart' /\ WireKnown' /\ PreparedHolds'
  <2>1. EffectsApart'
    BY <1>1, <1>2 DEF QueueInv, EffectsApart, Acting
  <2>2. WireKnown'
    BY <1>1, <1>2 DEF QueueInv, WireKnown, Live
  <2>3. PreparedHolds'
    BY <1>1, <1>2 DEF QueueInv, PreparedHolds
  <2> QED BY <2>1, <2>2, <2>3
<1> QED BY <1>3, <1>5, <1>6, <1>7, <1>8 DEF QueueInv

LEMMA TickKeepsQueue ==
  ASSUME QueueInv, Tick
  PROVE  QueueInv'
<1>1. now \in Nat /\ now' = now + 1
      /\ UNCHANGED <<revision, target, jobs, effects, ledger, worker, wire, provider>>
  BY DEF Tick, QueueInv, RowsTypeOK
<1>2. RowsTypeOK'
  BY <1>1 DEF QueueInv, RowsTypeOK
<1>3. Indexed'
  <2>1. \A w \in Workers : worker[w].deadline \in Nat
    BY WorkerParts DEF QueueInv
  <2>2. \A w \in Workers : worker[w].pc # "idle" => worker[w].deadline <= now' + AttemptTimeout
    BY <1>1, <2>1, LeaseAssumption DEF QueueInv, Indexed
  <2> QED BY <1>1, <2>2 DEF QueueInv, Indexed
<1>4. OwnedIsRunning' /\ OpenJobIsActive' /\ EffectsApart'
  BY <1>1 DEF QueueInv, OwnedIsRunning, OpenJobIsActive, Open, EffectsApart
<1>5. WireKnown'
  <2>1. \A q \in wire : Live(q)' => Live(q)
    <3>1. \A q \in wire : q.until \in Nat
      BY DEF QueueInv, RowsTypeOK, Requests
    <3> QED BY <1>1, <3>1 DEF Live
  <2> QED BY <1>1, <2>1 DEF QueueInv, WireKnown
<1>6. PreparedHolds'
  <2>1. \A w \in Workers : worker[w].deadline \in Nat
    BY WorkerParts DEF QueueInv
  <2> QED BY <1>1, <2>1 DEF QueueInv, PreparedHolds
<1> QED BY <1>2, <1>3, <1>4, <1>5, <1>6 DEF QueueInv

\* Somebody else adds a name that is not there, and nothing else changes.
Added ==
  /\ UNCHANGED <<revision, target, jobs, effects, ledger, worker, wire, now>>
  /\ provider' \in [Names -> Nat \cup {Foreign, Late}]
  /\ \A n \in Names :
       provider'[n] = provider[n] \/ (provider[n] = 0 /\ provider'[n] \in {Foreign, Late})

LEMMA AddedEffect ==
  ASSUME QueueInv, NEW n \in ForeignNames, SomebodyAdds(n)
  PROVE  Added
BY ForeignAssumption DEF SomebodyAdds, Added, QueueInv, RowsTypeOK

LEMMA AddedKeepsQueue ==
  ASSUME QueueInv, Added
  PROVE  QueueInv'
BY DEF Added, QueueInv, RowsTypeOK, Indexed, OwnedIsRunning, OpenJobIsActive, Open, EffectsApart,
       WireKnown, PreparedHolds, Live

\* The step of a worker is one of the steps above.
LEMMA WorkerStepCases ==
  ASSUME QueueInv, NEW w \in Workers, WorkerStep(w)
  PROVE  \/ Onward(w)
         \/ \E i \in 1..Len(jobs) : Claimed(w, i)
         \/ \E n \in Names : Intends(w, n) /\ Prepare(w, n)
         \/ Send(w)
         \/ \E applied, seen \in BOOLEAN : Respond(w, applied, seen)
         \/ Recorded(w) /\ Finish(w)
         \/ Settled(w) /\ worker[w].job \in 1..Len(jobs) /\ worker[w].job = target.active
<1>1. RowsTypeOK
  BY DEF QueueInv
<1>2. CASE \E i \in DOMAIN jobs : ClaimDue(w, i)
  BY <1>1, <1>2, ClaimDueEffect
<1>3. CASE Load(w)
  BY <1>1, <1>3, LoadOnward
<1>4. CASE \/ ListNames(w)
           \/ \E n \in Names : Reserve(w, n) \/ Refuse(w, n) \/ ReleaseReservation(w, n)
           \/ GateAfterPrepare(w) \/ FinishRefused(w)
           \/ \E cause \in {"error", "unauthorized", "credential", "superseded"} : GiveUp(w, cause)
           \/ WaitAndReload(w) \/ Crash(w)
  BY <1>1, <1>4, AttemptOnward
<1>5. ASSUME NEW n \in Names, Prepare(w, n) PROVE Intends(w, n)
  <2>1. worker[w].job \in 1..Len(jobs)
    BY <1>5 DEF Prepare, Running, QueueInv, Indexed
  <2> QED BY <1>1, <1>5, <2>1, PrepareEffect
<1>6. CASE Finish(w)
  <2>1. worker[w].effect \in 1..Len(effects)
    BY <1>6 DEF Finish, QueueInv, Indexed, Acting
  <2> QED BY <1>1, <1>6, <2>1, FinishEffect
<1>7. CASE Succeed(w) \/ Retry(w) \/ DeadCredential(w) \/ Abort(w)
  BY <1>7, SettleEffect
<1> QED BY <1>2, <1>3, <1>4, <1>5, <1>6, <1>7, Zenon DEF WorkerStep

\* What a step does to the provider.
LEMMA ProviderStep ==
  ASSUME QueueInv, [RuntimeNext]_runtimeVars
  PROVE  \/ provider' = provider
         \/ \E q \in wire : Lands(q) /\ effects' = effects
         \/ Added
<1>1. CASE Trigger
  BY <1>1, TriggerEffect DEF Triggered, PublishedAside
<1>2. ASSUME NEW w \in Workers, WorkerStep(w)
      PROVE  provider' = provider \/ \E q \in wire : Lands(q) /\ effects' = effects
  <2>1. CASE Onward(w)
    BY <2>1 DEF Onward
  <2>2. CASE \E i \in 1..Len(jobs) : Claimed(w, i)
    BY <2>2 DEF Claimed
  <2>3. CASE \E n \in Names : Intends(w, n)
    BY <2>3 DEF Intends
  <2>4. CASE Send(w)
    BY <2>4 DEF Send
  <2>5. CASE \E applied, seen \in BOOLEAN : Respond(w, applied, seen)
    BY <2>5, RespondEffect
  <2>6. CASE Recorded(w) \/ Settled(w)
    BY <2>6 DEF Recorded, Settled
  <2> QED BY <1>2, <2>1, <2>2, <2>3, <2>4, <2>5, <2>6, WorkerStepCases
<1>3. ASSUME NEW q \in wire, LandOrphan(q) PROVE Lands(q) /\ effects' = effects
  BY <1>3, LandOrphanEffect
<1>4. CASE Tick \/ UNCHANGED runtimeVars
  BY <1>4 DEF Tick, runtimeVars
<1>5. ASSUME NEW n \in ForeignNames, SomebodyAdds(n) PROVE Added
  BY <1>5, AddedEffect
<1> QED BY <1>1, <1>2, <1>3, <1>4, <1>5 DEF RuntimeNext, RuntimeStep

LEMMA QueueNext == QueueInv /\ [RuntimeNext]_runtimeVars => QueueInv'
<1> SUFFICES ASSUME QueueInv, [RuntimeNext]_runtimeVars PROVE QueueInv'
  OBVIOUS
<1>1. CASE Trigger
  BY <1>1, TriggerKeepsQueue
<1>2. ASSUME NEW w \in Workers, WorkerStep(w) PROVE QueueInv'
  BY <1>2, WorkerStepCases, OnwardKeepsQueue, ClaimedKeepsQueue, IntendsKeepsQueue,
     SendKeepsQueue, RespondKeepsQueue, RecordedKeepsQueue, SettledKeepsQueue
<1>3. ASSUME NEW q \in wire, LandOrphan(q) PROVE QueueInv'
  BY <1>3, LandOrphanKeepsQueue
<1>4. CASE Tick
  BY <1>4, TickKeepsQueue
<1>6. ASSUME NEW n \in ForeignNames, SomebodyAdds(n) PROVE QueueInv'
  BY <1>6, AddedEffect, AddedKeepsQueue
<1>5. CASE UNCHANGED runtimeVars
  BY <1>5 DEF runtimeVars, QueueInv, RowsTypeOK, Indexed, OwnedIsRunning, OpenJobIsActive,
     EffectsApart, WireKnown, PreparedHolds, Open, Live
<1> QED BY <1>1, <1>2, <1>3, <1>4, <1>5, <1>6 DEF RuntimeNext, RuntimeStep

\* The queue is always sound: one open job per target, which is the active one
\* and of the target's generation, and one live request of it on the wire.
THEOREM QueueAlwaysSound == RuntimeSpec => []QueueSound
<1>1. QueueInv /\ solo \in BOOLEAN => QueueSound
  <2>1. ASSUME QueueInv, NEW q \in wire, NEW r \in wire, Live(q), Live(r) PROVE q = r
    BY <2>1 DEF QueueInv, WireKnown
  <2> QED BY <2>1 DEF QueueSound, RuntimeTypeOK, OneRequestInFlight, QueueInv
<1>2. RuntimeInit => solo \in BOOLEAN
  BY DEF RuntimeInit
<1>3. solo \in BOOLEAN /\ [RuntimeNext]_runtimeVars => (solo \in BOOLEAN)'
  BY DEF RuntimeNext, runtimeVars
<1> QED BY <1>1, <1>2, <1>3, RuntimeInitQueue, QueueNext, PTL DEF RuntimeSpec
-----------------------------------------------------------------------------
(* What somebody else holds.                                               *)

\* Nobody has more than a reservation on n, no request and no attempt in flight
\* names it, and whoever is about to write has listed it: n is not Exposed.
SomebodyElses(n) ==
  /\ ledger[n] \in {"none", "reserved", "released"}
  /\ \A q \in wire : Live(q) => effects[q.effect].name # n
  /\ \A w \in Workers :
       /\ worker[w].pc \in Pulled => worker[w].snap[n] \in {"none", "reserved"}
       /\ worker[w].pc \in Acting \cup {"syncing"} => n \in worker[w].listed
       /\ worker[w].pc \in Acting => effects[worker[w].effect].name # n

ForeignClean == \A n \in Names : provider[n] = Foreign => SomebodyElses(n)

ForeignInv == QueueInv /\ ForeignClean

LEMMA RuntimeInitForeign == RuntimeInit => ForeignInv
<1> SUFFICES ASSUME RuntimeInit PROVE ForeignClean
  BY RuntimeInitQueue DEF ForeignInv
<1>1. \A n \in Names : provider[n] = 0
  BY DEF RuntimeInit
<1> QED BY <1>1, ForeignAssumption DEF ForeignClean

LEMMA NotExposed ==
  ASSUME RowsTypeOK, NEW n \in Names, ~Exposed(n)
  PROVE  SomebodyElses(n)
<1>1. ledger[n] \in Claims /\ \A w \in Workers : worker[w].snap[n] \in Claims
  BY WorkerParts DEF RowsTypeOK
<1> QED BY <1>1 DEF Exposed, SomebodyElses, Claims, Pulled, Acting

\* A request lands on another name, and never leaves somebody else's value.
LEMMA LandsElsewhere ==
  ASSUME ForeignInv, NEW q \in wire, Lands(q) \/ provider' = provider, NEW n \in Names
  PROVE  provider'[n] = Foreign <=> provider[n] = Foreign
<1>1. provider \in [Names -> Nat \cup {Foreign, Late}] /\ q.effect \in 1..Len(effects) /\ RowsTypeOK
  BY DEF ForeignInv, QueueInv, RowsTypeOK, Indexed
<1>2. effects[q.effect].name \in Names /\ effects[q.effect].rev \in Nat
  BY <1>1, EffectParts
<1>3. CASE Lands(q)
  <2> DEFINE v == IF effects[q.effect].delete THEN 0 ELSE effects[q.effect].rev
  <2>1. v # Foreign
    BY <1>2, ForeignAssumption
  <2>2. provider' = [provider EXCEPT ![effects[q.effect].name] = v] /\ Live(q)
    BY <1>3 DEF Lands
  <2>3. provider[n] = Foreign => effects[q.effect].name # n
    BY <2>2 DEF ForeignInv, ForeignClean, SomebodyElses
  <2> HIDE DEF v
  <2> QED BY <1>1, <1>2, <2>1, <2>2, <2>3
<1> QED BY <1>3

LEMMA WorkerKeepsForeign ==
  ASSUME ForeignInv, NEW w \in Workers, WorkerStep(w)
  PROVE  ForeignClean'
<1>1. QueueInv /\ RowsTypeOK
  BY DEF ForeignInv, QueueInv
<1>2. ASSUME NEW n \in Names, provider[n] = Foreign
      PROVE  /\ ledger[n] \in {"none", "reserved", "released"}
             /\ \A q \in wire : Live(q) => effects[q.effect].name # n
             /\ \A v \in Workers :
                  /\ worker[v].pc \in Pulled => worker[v].snap[n] \in {"none", "reserved"}
                  /\ worker[v].pc \in Acting \cup {"syncing"} => n \in worker[v].listed
                  /\ worker[v].pc \in Acting => effects[worker[v].effect].name # n
  BY <1>2 DEF ForeignInv, ForeignClean, SomebodyElses
<1>3. CASE Onward(w)
  <2>1. /\ UNCHANGED <<effects, provider, wire, now>>
        /\ \A v \in Workers : v # w => worker'[v] = worker[v]
    BY <1>1, <1>3, OnlyOther DEF Onward
  <2>2. ASSUME NEW n \in Names, provider'[n] = Foreign PROVE SomebodyElses(n)'
    <3>1. provider[n] = Foreign /\ ledger'[n] \in {"none", "reserved", "released"}
      BY <1>2, <1>3, <2>1, <2>2 DEF Onward, Bookkeeps
    <3>2. worker'[w].pc \in Pulled => worker'[w].snap[n] \in {"none", "reserved"}
      <4>1. CASE Load(w)
        <5>1. worker'[w].snap[n] = IF ledger[n] = "released" THEN "none" ELSE ledger[n]
          BY <1>1, <4>1, LoadOnward
        <5> QED BY <1>2, <3>1, <5>1
      <4>2. CASE Calm(w)
        <5>1. worker'[w].pc \in Pulled => worker[w].pc \in Pulled
          BY <4>2 DEF Calm, Pulled, Acting
        <5>2. \/ worker'[w].snap[n] \in {worker[w].snap[n], "none", "reserved"}
              \/ worker'[w].snap[n] = ledger[n] /\ ledger[n] # "released"
          BY <1>3 DEF Onward, Bookkeeps
        <5> QED BY <1>2, <3>1, <5>1, <5>2
      <4> QED BY <1>3, <4>1, <4>2 DEF Onward
    <3>3. worker'[w].pc \in Acting \cup {"syncing"} => n \in worker'[w].listed
      <4>1. provider[n] # 0
        BY <3>1, ForeignAssumption
      <4>2. worker'[w].pc \in Acting \cup {"syncing"} =>
              \/ worker[w].pc \in Acting \cup {"syncing"} /\ worker'[w].listed = worker[w].listed
              \/ worker'[w].listed = {m \in Names : provider[m] # 0}
        BY <1>3 DEF Onward, Bookkeeps
      <4> QED BY <1>2, <3>1, <4>1, <4>2
    <3>4. worker'[w].pc \in Acting => effects'[worker'[w].effect].name # n
      BY <1>2, <1>3, <2>1, <3>1 DEF Onward, Acting
    <3> QED BY <1>2, <2>1, <3>1, <3>2, <3>3, <3>4 DEF SomebodyElses, Live
  <2> QED BY <2>2 DEF ForeignClean
<1>4. ASSUME NEW i \in 1..Len(jobs), Claimed(w, i) PROVE ForeignClean'
  <2>1. /\ UNCHANGED <<ledger, provider, wire, now>>
        /\ \A e \in 1..Len(effects) : effects'[e].name = effects[e].name
        /\ worker'[w].pc = "claimed"
    BY <1>4 DEF Claimed, EffectsKept
  <2>2. \A v \in Workers : v # w => worker'[v] = worker[v]
    BY <1>1, <1>4, OnlyOther DEF Claimed
  <2>3. ASSUME NEW n \in Names, provider'[n] = Foreign PROVE SomebodyElses(n)'
    <3>1. \A q \in wire' : Live(q)' => effects'[q.effect].name # n
      BY <1>1, <1>2, <2>1, <2>3 DEF QueueInv, Indexed, Live
    <3>2. \A v \in Workers : worker'[v].pc \in Acting => effects'[worker'[v].effect].name # n
      BY <1>1, <1>2, <2>1, <2>2, <2>3 DEF QueueInv, Indexed, Acting
    <3> QED BY <1>2, <2>1, <2>2, <2>3, <3>1, <3>2 DEF SomebodyElses, Acting, Pulled
  <2> QED BY <2>3 DEF ForeignClean
<1>5. ASSUME NEW m \in Names, Intends(w, m), Prepare(w, m) PROVE ForeignClean'
  <2>1. /\ UNCHANGED <<provider, wire, now>> /\ Len(effects) \in Nat
        /\ \A e \in 1..Len(effects) : effects'[e] = effects[e]
        /\ effects'[Len(effects) + 1].name = m /\ worker'[w].effect = Len(effects) + 1
        /\ worker[w].pc = "syncing" /\ worker'[w].snap = worker[w].snap
        /\ worker'[w].listed = worker[w].listed
    BY <1>1, <1>5, EffectParts DEF Intends
  <2>2. \A v \in Workers : v # w => worker'[v] = worker[v]
    BY <1>1, <1>5, OnlyOther DEF Intends
  <2>3. provider[m] # Foreign
    <3> SUFFICES ASSUME provider[m] = Foreign PROVE FALSE
      OBVIOUS
    <3>1. Writes(w, m) \/ Prunes(w, m)
      BY <1>5 DEF Prepare
    <3>2. worker[w].snap[m] \in {"none", "reserved"} /\ m \in worker[w].listed
      BY <1>2, <2>1 DEF Pulled
    <3> QED BY <3>1, <3>2 DEF Writes, Prunes, Conflicts, Undesired, Snap
  <2>4. \A n \in Names : n # m => ledger'[n] = ledger[n]
    <3>1. ledger' = [ledger EXCEPT ![m] = "dispatched"] \/ ledger' = ledger
      BY <1>5 DEF Prepare
    <3> QED BY <1>1, <3>1 DEF RowsTypeOK
  <2>5. ASSUME NEW n \in Names, provider'[n] = Foreign PROVE SomebodyElses(n)'
    <3>1. n # m /\ provider[n] = Foreign /\ ledger'[n] = ledger[n]
      BY <2>1, <2>3, <2>4, <2>5
    <3>2. \A q \in wire' : Live(q)' => effects'[q.effect].name # n
      BY <1>1, <1>2, <2>1, <3>1 DEF QueueInv, Indexed, Live
    <3>3. \A v \in Workers : worker'[v].pc \in Acting => effects'[worker'[v].effect].name # n
      BY <1>1, <1>2, <2>1, <2>2, <3>1 DEF QueueInv, Indexed
    <3> QED BY <1>2, <2>1, <2>2, <3>1, <3>2, <3>3 DEF SomebodyElses, Pulled
  <2> QED BY <2>5 DEF ForeignClean
<1>6. CASE Send(w)
  <2>1. /\ UNCHANGED <<ledger, provider, effects, now>> /\ worker[w].pc = "prepared"
        /\ worker'[w].snap = worker[w].snap /\ worker'[w].listed = worker[w].listed
        /\ worker'[w].effect = worker[w].effect
        /\ \A q \in wire' : q \in wire \/ q.effect = worker[w].effect
    BY <1>1, <1>6, SendEffect
  <2>2. \A v \in Workers : v # w => worker'[v] = worker[v]
    BY <1>1, <1>6, SendEffect, OnlyOther
  <2>3. ASSUME NEW n \in Names, provider'[n] = Foreign PROVE SomebodyElses(n)'
    <3>1. \A q \in wire' : Live(q)' => effects'[q.effect].name # n
      BY <1>2, <2>1, <2>3 DEF Live, Acting
    <3> QED BY <1>2, <2>1, <2>2, <2>3, <3>1 DEF SomebodyElses, Acting, Pulled
  <2> QED BY <2>3 DEF ForeignClean
<1>7. ASSUME NEW applied \in BOOLEAN, NEW seen \in BOOLEAN, Respond(w, applied, seen)
      PROVE  ForeignClean'
  <2>1. /\ UNCHANGED <<ledger, effects, now>> /\ worker[w].pc = "sent" /\ Only(w)
        /\ worker'[w].snap = worker[w].snap /\ worker'[w].listed = worker[w].listed
        /\ worker'[w].effect = worker[w].effect
    BY <1>1, <1>7, RespondEffect
  <2>2. \A v \in Workers : v # w => worker'[v] = worker[v]
    BY <1>1, <2>1, OnlyOther
  <2>3. PICK q \in wire : (Lands(q) \/ provider' = provider) /\ wire' = wire \ {q}
    BY <1>1, <1>7, RespondEffect
  <2>4. ASSUME NEW n \in Names, provider'[n] = Foreign PROVE SomebodyElses(n)'
    <3>1. provider[n] = Foreign
      BY <2>3, <2>4, LandsElsewhere
    <3> QED BY <1>2, <2>1, <2>2, <2>3, <3>1 DEF SomebodyElses, Acting, Pulled, Live
  <2> QED BY <2>4 DEF ForeignClean
<1>8. CASE Recorded(w) /\ Finish(w)
  <2> DEFINE m == effects[worker[w].effect].name
  <2>1. /\ UNCHANGED <<provider, wire, now>> /\ worker[w].pc = "replied"
        /\ worker'[w].listed = worker[w].listed /\ worker'[w].pc \in {"syncing", "closing"}
        /\ \A e \in 1..Len(effects) : effects'[e].name = effects[e].name
        /\ \A n \in Names : n # m => ledger'[n] = ledger[n] /\ worker'[w].snap[n] = worker[w].snap[n]
    BY <1>8 DEF Recorded, EffectsKept
  <2>2. \A v \in Workers : v # w => worker'[v] = worker[v]
    BY <1>1, <1>8, OnlyOther DEF Recorded
  <2>3. ASSUME NEW n \in Names, provider'[n] = Foreign PROVE SomebodyElses(n)'
    <3>1. provider[n] = Foreign /\ n # m
      BY <1>2, <2>1, <2>3 DEF Acting
    <3>2. ledger'[n] = ledger[n] /\ worker'[w].snap[n] = worker[w].snap[n]
      BY <2>1, <3>1
    <3>3. \A q \in wire' : Live(q)' => effects'[q.effect].name # n
      BY <1>1, <1>2, <2>1, <3>1 DEF QueueInv, Indexed, Live
    <3>4. \A v \in Workers : worker'[v].pc \in Acting => effects'[worker'[v].effect].name # n
      BY <1>1, <1>2, <2>1, <2>2, <3>1 DEF QueueInv, Indexed, Acting
    <3> HIDE DEF m
    <3> QED BY <1>2, <2>1, <2>2, <3>1, <3>2, <3>3, <3>4 DEF SomebodyElses, Acting, Pulled
  <2> QED BY <2>3 DEF ForeignClean
<1>9. CASE Settled(w)
  <2>1. /\ UNCHANGED <<provider, effects, wire, now>> /\ worker'[w].pc = "idle"
        /\ \A n \in Names : ledger'[n] \in {ledger[n], "released"}
    BY <1>9 DEF Settled, Drops, Idle
  <2>2. \A v \in Workers : v # w => worker'[v] = worker[v]
    BY <1>1, <1>9, OnlyOther DEF Settled
  <2>3. ASSUME NEW n \in Names, provider'[n] = Foreign PROVE SomebodyElses(n)'
    BY <1>2, <2>1, <2>2, <2>3 DEF SomebodyElses, Acting, Pulled, Live
  <2> QED BY <2>3 DEF ForeignClean
<1> QED BY <1>1, <1>3, <1>4, <1>5, <1>6, <1>7, <1>8, <1>9, WorkerStepCases

LEMMA ForeignNext == ForeignInv /\ [RuntimeNext]_runtimeVars => ForeignInv'
<1> SUFFICES ASSUME ForeignInv, [RuntimeNext]_runtimeVars PROVE ForeignClean'
  BY QueueNext DEF ForeignInv
<1>1. CASE Trigger
  <2>1. /\ UNCHANGED <<effects, worker, provider, wire, now>>
        /\ \A n \in Names : ledger'[n] = ledger[n] \/ ledger'[n] = "released"
    BY <1>1, TriggerEffect DEF ForeignInv, Triggered, PublishedAside
  <2> QED BY <2>1 DEF ForeignInv, ForeignClean, SomebodyElses, Live
<1>2. ASSUME NEW q \in wire, LandOrphan(q) PROVE ForeignClean'
  <2>1. Lands(q) /\ UNCHANGED <<effects, ledger, worker, now>> /\ wire' = wire \ {q}
    BY <1>2, LandOrphanEffect
  <2>2. ASSUME NEW n \in Names, provider'[n] = Foreign PROVE SomebodyElses(n)'
    <3>1. provider[n] = Foreign
      BY <2>1, <2>2, LandsElsewhere
    <3> QED BY <2>1, <3>1 DEF ForeignInv, ForeignClean, SomebodyElses, Live
  <2> QED BY <2>2 DEF ForeignClean
<1>3. CASE Tick \/ UNCHANGED runtimeVars
  <2>1. UNCHANGED <<effects, ledger, worker, provider, wire>>
    BY <1>3 DEF Tick, runtimeVars
  <2>2. \A q \in wire : Live(q)' => Live(q)
    <3>1. now \in Nat /\ now' \in {now, now + 1} /\ \A q \in wire : q.until \in Nat
      BY <1>3 DEF Tick, runtimeVars, ForeignInv, QueueInv, RowsTypeOK, Requests
    <3> QED BY <3>1 DEF Live
  <2> QED BY <2>1, <2>2 DEF ForeignInv, ForeignClean, SomebodyElses
<1>4. ASSUME NEW m \in ForeignNames, SomebodyAdds(m) PROVE ForeignClean'
  <2>1. /\ UNCHANGED <<effects, ledger, worker, wire, now>> /\ m \in Names
        /\ provider \in [Names -> Nat \cup {Foreign, Late}] /\ RowsTypeOK
        /\ provider' = [provider EXCEPT ![m] = IF Exposed(m) THEN Late ELSE Foreign]
    BY <1>4, ForeignAssumption DEF SomebodyAdds, ForeignInv, QueueInv, RowsTypeOK
  <2>2. ASSUME NEW n \in Names, provider'[n] = Foreign PROVE SomebodyElses(n)
    <3>1. provider[n] = Foreign \/ ~Exposed(n)
      BY <2>1, <2>2, ForeignAssumption
    <3> QED BY <2>1, <3>1, NotExposed DEF ForeignInv, ForeignClean
  <2> QED BY <2>1, <2>2 DEF ForeignClean, SomebodyElses, Live
<1> QED BY <1>1, <1>2, <1>3, <1>4, WorkerKeepsForeign DEF RuntimeNext, RuntimeStep

\* A name somebody else added is neither overwritten nor deleted, whatever worker
\* stalls, crashes or is superseded, unless it was added while the runtime already
\* treated it as free or as its own.
THEOREM ForeignNamesUntouched == RuntimeSpec => ForeignUntouched
<1>1. ForeignInv /\ [RuntimeNext]_runtimeVars =>
        [\A n \in Names : provider[n] = Foreign => provider'[n] = Foreign]_runtimeVars
  <2> SUFFICES ASSUME ForeignInv, [RuntimeNext]_runtimeVars, NEW n \in Names, provider[n] = Foreign
               PROVE  provider'[n] = Foreign
    OBVIOUS
  <2>1. provider' = provider \/ (\E q \in wire : Lands(q)) \/ Added
    BY ProviderStep DEF ForeignInv
  <2>2. Added => provider'[n] = Foreign
    BY ForeignAssumption DEF Added
  <2> QED BY <2>1, <2>2, LandsElsewhere
<1> QED BY <1>1, RuntimeInitForeign, ForeignNext, PTL DEF RuntimeSpec, ForeignUntouched
-----------------------------------------------------------------------------
(* Nothing goes back.                                                      *)

JobOf(e) == jobs[effects[e].job]

\* The target admits the converge jobs of its generation, and has none but a
\* scrub's job once it is torn down.
JobsAdmitted ==
  \A i \in 1..Len(jobs) :
    /\ jobs[i].gen <= target.gen
    /\ jobs[i].kind = "converge" /\ jobs[i].gen = target.gen =>
         target.state = "active" /\ ~target.paused
    /\ jobs[i].kind = "scrub" => target.state = "tombstoned"

\* A worker of the target's generation delivers the newest revision.
RevisionKnown(w) ==
  /\ worker[w].pc # "idle" /\ Job(w).kind = "converge" /\ Job(w).gen = target.gen /\ worker[w].rev # 0
       => worker[w].rev = revision
  /\ worker[w].pc \in Pulled /\ Job(w).kind = "converge" => worker[w].rev # 0
  /\ worker[w].pc \in Acting =>
       effects[worker[w].effect].rev = worker[w].rev /\ effects[worker[w].effect].job = worker[w].job

\* An intent says what its job wants of its name at its revision.
IntentKnown(e) ==
  /\ JobOf(e).kind = "scrub" => effects[e].delete
  /\ JobOf(e).kind = "converge" =>
       /\ effects[e].rev \in 1..revision
       /\ effects[e].delete <=> effects[e].name \notin Desired[effects[e].rev]
  /\ JobOf(e).kind = "converge" /\ JobOf(e).gen = target.gen => effects[e].rev = revision

\* Nothing is newer than the newest revision, and nothing at the provider is
\* newer than what a live request brings.
RevisionBounds ==
  /\ target.converged <= revision
  /\ \A n \in Names : Delivered(provider[n]) => provider[n] <= revision

WireNewest ==
  \A q \in wire :
    Live(q) /\ ~effects[q.effect].delete /\ Delivered(provider[effects[q.effect].name]) =>
      provider[effects[q.effect].name] <= effects[q.effect].rev

DeliveryInv ==
  /\ QueueInv /\ JobsAdmitted
  /\ \A w \in Workers : RevisionKnown(w)
  /\ \A e \in 1..Len(effects) : IntentKnown(e)
  /\ RevisionBounds /\ WireNewest

LEMMA RuntimeInitDelivery == RuntimeInit => DeliveryInv
<1> SUFFICES ASSUME RuntimeInit PROVE DeliveryInv
  OBVIOUS
<1>1. /\ revision = 1 /\ jobs = << >> /\ effects = << >> /\ wire = {}
      /\ worker = [w \in Workers |-> Idle] /\ target.converged = 0
      /\ provider = [n \in Names |-> 0]
  BY DEF RuntimeInit
<1>2. Len(jobs) = 0 /\ Len(effects) = 0 /\ \A w \in Workers : worker[w].pc = "idle"
  BY <1>1 DEF Idle
<1>3. \A n \in Names : ~Delivered(provider[n])
  BY <1>1 DEF Delivered
<1> QED BY <1>1, <1>2, <1>3, RuntimeInitQueue
        DEF DeliveryInv, JobsAdmitted, RevisionKnown, RevisionBounds, WireNewest, Pulled, Acting

\* A step that writes no new row and leaves the generation alone.
RowsKept ==
  /\ Len(jobs') = Len(jobs) /\ JobsKept /\ EffectsKept /\ Len(effects') = Len(effects)
  /\ target'.gen = target.gen /\ target'.state = target.state /\ target'.paused = target.paused
  /\ revision' = revision

LEMMA SameJobs ==
  ASSUME RowsTypeOK, jobs' = jobs
  PROVE  Len(jobs') = Len(jobs) /\ JobsKept
BY JobParts DEF JobsKept

LEMMA SameEffects ==
  ASSUME RowsTypeOK, effects' = effects
  PROVE  EffectsKept /\ Len(effects') = Len(effects)
BY EffectParts DEF EffectsKept, RowsTypeOK

LEMMA RowsKeptKnown ==
  ASSUME DeliveryInv, RowsKept
  PROVE  JobsAdmitted' /\ \A e \in 1..Len(effects') : IntentKnown(e)'
<1>1. JobsAdmitted'
  BY DEF DeliveryInv, JobsAdmitted, RowsKept, JobsKept
<1>2. ASSUME NEW e \in 1..Len(effects') PROVE IntentKnown(e)'
  <2>1. e \in 1..Len(effects) /\ effects[e].job \in 1..Len(jobs)
    BY <1>2 DEF RowsKept, DeliveryInv, QueueInv, Indexed
  <2>2. JobOf(e)'.kind = JobOf(e).kind /\ JobOf(e)'.gen = JobOf(e).gen
    BY <2>1 DEF JobOf, RowsKept, JobsKept, EffectsKept
  <2>3. IntentKnown(e)
    BY <2>1 DEF DeliveryInv
  <2> QED BY <2>1, <2>2, <2>3 DEF IntentKnown, RowsKept, EffectsKept
<1> QED BY <1>1, <1>2

LEMMA RowsKeptWorker ==
  ASSUME DeliveryInv, RowsKept, NEW v \in Workers, worker'[v] = worker[v]
  PROVE  RevisionKnown(v)'
<1>1. RevisionKnown(v)
  BY DEF DeliveryInv
<1>2. worker[v].pc # "idle" =>
        /\ worker[v].job \in 1..Len(jobs)
        /\ Job(v)'.kind = Job(v).kind /\ Job(v)'.gen = Job(v).gen
  BY DEF DeliveryInv, QueueInv, Indexed, RowsKept, JobsKept, Job
<1>3. worker[v].pc \in Acting => worker[v].effect \in 1..Len(effects)
  BY DEF DeliveryInv, QueueInv, Indexed
<1>4. worker[v].pc \in Acting =>
        /\ effects'[worker[v].effect].rev = effects[worker[v].effect].rev
        /\ effects'[worker[v].effect].job = effects[worker[v].effect].job
  BY <1>3 DEF RowsKept, EffectsKept
<1>5. worker[v].pc \in Pulled => worker[v].pc # "idle"
  BY DEF Pulled, Acting
<1> QED BY <1>1, <1>2, <1>4, <1>5 DEF RevisionKnown, RowsKept

\* What is true of requests while none is added and the provider unchanged.
LEMMA WireStaysNewest ==
  ASSUME DeliveryInv, RowsKept, wire' \subseteq wire, provider' = provider, now' = now
  PROVE  WireNewest'
<1>1. ASSUME NEW q \in wire'
      PROVE  /\ q \in wire /\ Live(q)' = Live(q)
             /\ effects'[q.effect].name = effects[q.effect].name
             /\ effects'[q.effect].rev = effects[q.effect].rev
             /\ effects'[q.effect].delete = effects[q.effect].delete
  <2>1. q \in wire /\ q.effect \in 1..Len(effects)
    BY DEF DeliveryInv, QueueInv, Indexed
  <2> QED BY <2>1 DEF RowsKept, EffectsKept, Live
<1> QED BY <1>1 DEF DeliveryInv, WireNewest, Delivered

LEMMA SameBounds ==
  ASSUME DeliveryInv, revision' = revision, provider' = provider, target'.converged = target.converged
  PROVE  RevisionBounds'
BY DEF DeliveryInv, RevisionBounds, Delivered

\* A request that lands leaves no other live one, and is not newer than the
\* newest revision.
LEMMA LandsNewest ==
  ASSUME DeliveryInv, NEW q \in wire, wire' = wire \ {q}, Lands(q) \/ provider' = provider,
         UNCHANGED <<revision, target, jobs, effects, now>>
  PROVE  RevisionBounds' /\ WireNewest' /\ RowsKept
<1>1. RowsKept
  BY SameJobs, SameEffects DEF RowsKept, DeliveryInv, QueueInv
<1>2. CASE provider' = provider
  BY <1>1, <1>2, WireStaysNewest, SameBounds
<1>3. CASE Lands(q)
  <2>1. \A r \in wire' : ~Live(r)'
    BY <1>3 DEF Lands, Live, DeliveryInv, QueueInv, WireKnown
  <2>2. WireNewest'
    BY <2>1 DEF WireNewest
  <2>3. /\ provider \in [Names -> Nat \cup {Foreign, Late}] /\ q.effect \in 1..Len(effects) /\ RowsTypeOK
        /\ IntentKnown(q.effect) /\ effects[q.effect].job \in 1..Len(jobs)
    BY DEF DeliveryInv, QueueInv, RowsTypeOK, Indexed
  <2>4. effects[q.effect].name \in Names /\ effects[q.effect].rev \in Nat
    BY <2>3, EffectParts
  <2> DEFINE x == IF effects[q.effect].delete THEN 0 ELSE effects[q.effect].rev
  <2>5. x \in Nat /\ (Delivered(x) => x <= revision)
    <3>1. CASE effects[q.effect].delete
      BY <3>1 DEF Delivered
    <3>2. CASE ~effects[q.effect].delete
      <4>1. JobOf(q.effect).kind = "converge"
        BY <2>3, <3>2, JobParts DEF IntentKnown, JobOf
      <4> QED BY <2>3, <2>4, <3>2, <4>1 DEF IntentKnown
    <3> QED BY <3>1, <3>2
  <2>6. provider' = [provider EXCEPT ![effects[q.effect].name] = x]
    BY <1>3 DEF Lands
  <2> HIDE DEF x
  <2>7. RevisionBounds'
    BY <2>3, <2>4, <2>5, <2>6 DEF DeliveryInv, RevisionBounds
  <2> QED BY <1>1, <2>2, <2>7
<1> QED BY <1>2, <1>3

\* A trigger starts a new generation, or moves the revision past a target that
\* takes no converge job.
LEMMA TriggerKeepsDelivery ==
  ASSUME DeliveryInv, Trigger
  PROVE  DeliveryInv'
<1>1. /\ QueueInv /\ RowsTypeOK
      /\ Triggered \/ PublishedAside
      /\ revision \in Nat /\ revision' \in Nat /\ revision' \in {revision, revision + 1}
      /\ UNCHANGED <<effects, worker, wire, provider, now>>
      /\ target'.converged = target.converged /\ target.converged \in Nat /\ target.gen \in Nat
  <2>1. QueueInv /\ RowsTypeOK /\ target.converged \in Nat /\ target.gen \in Nat
    BY TargetParts DEF DeliveryInv, QueueInv
  <2>2. revision \in Revisions /\ revision' \in Revisions /\ revision' \in {revision, revision + 1}
    BY <2>1, TriggerEffect DEF RowsTypeOK
  <2> QED BY <2>1, <2>2, DesiredAssumption, TriggerEffect DEF Triggered, PublishedAside
<1>2. /\ JobsAdmitted' /\ JobsKept
      /\ \A i \in 1..Len(jobs) :
           jobs[i].kind = "converge" /\ jobs'[i].gen = target'.gen => revision' = revision
  <2>1. CASE PublishedAside
    <3>1. target' = target /\ jobs' = jobs /\ ~(target.state = "active" /\ ~target.paused)
      BY <2>1 DEF PublishedAside
    <3> QED BY <1>1, <3>1, SameJobs DEF DeliveryInv, JobsAdmitted
  <2>2. CASE Triggered
    <3>1. /\ JobsKept /\ target'.gen = target.gen + 1 /\ target.state = "active"
          /\ Len(jobs') \in {Len(jobs), Len(jobs) + 1}
      BY <2>2 DEF Triggered
    <3>2. \A i \in 1..Len(jobs) : jobs'[i].gen < target'.gen /\ jobs'[i].kind # "scrub"
                                  /\ jobs'[i].gen \in Nat
      BY <1>1, <3>1, JobParts DEF JobsKept, DeliveryInv, JobsAdmitted
    <3>3. ASSUME NEW i \in 1..Len(jobs')
          PROVE /\ jobs'[i].gen <= target'.gen
                /\ jobs'[i].kind = "converge" /\ jobs'[i].gen = target'.gen =>
                     target'.state = "active" /\ ~target'.paused
                /\ jobs'[i].kind = "scrub" => target'.state = "tombstoned"
      <4>1. CASE i \in 1..Len(jobs)
        BY <1>1, <3>1, <3>2, <4>1
      <4>2. CASE i = Len(jobs) + 1 /\ Len(jobs') = Len(jobs) + 1
        <5>1. /\ jobs'[i].gen = target'.gen
              /\ jobs'[i].kind = "converge" => target'.state = "active" /\ ~target'.paused
              /\ jobs'[i].kind = "scrub" => target'.state = "tombstoned"
          BY <2>2, <4>2 DEF Triggered
        <5> QED BY <1>1, <3>1, <5>1
      <4> QED BY <1>1, <3>1, <4>1, <4>2, JobParts
    <3>4. JobsAdmitted'
      BY <3>3 DEF JobsAdmitted
    <3>5. \A i \in 1..Len(jobs) : jobs'[i].gen # target'.gen
      BY <1>1, <3>1, <3>2
    <3> QED BY <3>1, <3>4, <3>5
  <2> QED BY <1>1, <2>1, <2>2
<1>3. \A i \in 1..Len(jobs) : jobs[i].kind = "converge" /\ jobs'[i].gen = target'.gen =>
        jobs[i].gen = target.gen
  <2>1. CASE PublishedAside
    BY <2>1 DEF PublishedAside
  <2>2. CASE Triggered
    <3>1. JobsKept /\ target'.gen = target.gen + 1
      BY <2>2 DEF Triggered
    <3>2. \A i \in 1..Len(jobs) : jobs[i].gen <= target.gen /\ jobs[i].gen \in Nat
      BY <1>1, JobParts DEF DeliveryInv, JobsAdmitted
    <3>3. \A i \in 1..Len(jobs) : jobs'[i].gen # target'.gen
      BY <1>1, <3>1, <3>2 DEF JobsKept
    <3> QED BY <3>3
  <2> QED BY <1>1, <2>1, <2>2
<1>4. ASSUME NEW w \in Workers PROVE RevisionKnown(w)'
  <2>1. RevisionKnown(w)
    BY DEF DeliveryInv
  <2>2. worker[w].pc # "idle" =>
          /\ Job(w)'.kind = Job(w).kind
          /\ Job(w).kind = "converge" /\ Job(w)'.gen = target'.gen =>
               Job(w).gen = target.gen /\ revision' = revision
    BY <1>1, <1>2, <1>3 DEF QueueInv, Indexed, JobsKept, Job
  <2>3. worker[w].pc \in Pulled => worker[w].pc # "idle"
    BY DEF Pulled, Acting
  <2> QED BY <1>1, <2>1, <2>2, <2>3 DEF RevisionKnown
<1>5. ASSUME NEW e \in 1..Len(effects') PROVE IntentKnown(e)'
  <2>1. e \in 1..Len(effects) /\ IntentKnown(e) /\ effects[e].job \in 1..Len(jobs)
    BY <1>1 DEF DeliveryInv, QueueInv, Indexed
  <2>2. /\ JobOf(e)'.kind = JobOf(e).kind
        /\ JobOf(e).kind = "converge" /\ JobOf(e)'.gen = target'.gen =>
             JobOf(e).gen = target.gen /\ revision' = revision
    BY <1>1, <1>2, <1>3, <2>1 DEF JobsKept, JobOf
  <2>3. effects[e].rev \in 1..revision => effects[e].rev \in 1..revision'
    BY <1>1
  <2> QED BY <1>1, <2>1, <2>2, <2>3 DEF IntentKnown
<1>6. RevisionBounds'
  <2>1. \A n \in Names : provider[n] \in Nat \cup {Foreign, Late}
    BY <1>1 DEF RowsTypeOK
  <2> QED BY <1>1, <2>1 DEF DeliveryInv, RevisionBounds, Delivered
<1>7. WireNewest'
  BY <1>1 DEF DeliveryInv, WireNewest, Live, Delivered
<1> QED BY <1>1, <1>2, <1>4, <1>5, <1>6, <1>7, TriggerKeepsQueue DEF DeliveryInv

LEMMA OnwardKeepsDelivery ==
  ASSUME DeliveryInv, NEW w \in Workers, Onward(w)
  PROVE  DeliveryInv'
<1>1. QueueInv /\ RowsTypeOK
  BY DEF DeliveryInv, QueueInv
<1>2. /\ RowsKept /\ \A v \in Workers : v # w => worker'[v] = worker[v]
      /\ UNCHANGED <<revision, jobs, effects, wire, provider, now>>
      /\ target'.converged = target.converged /\ target'.gen = target.gen
  BY <1>1, SameJobs, SameEffects, OnlyOther DEF Onward, RowsKept, TargetKept
<1>3. RevisionKnown(w)'
  <2>1. RevisionKnown(w) /\ worker[w].pc # "idle" /\ worker[w].job \in 1..Len(jobs)
    BY <1>1 DEF DeliveryInv, Onward, QueueInv, Indexed
  <2>2. worker'[w].pc # "idle" => Job(w)' = Job(w)
    BY <1>2 DEF Job, Onward
  <2>3. worker'[w].pc \in Pulled => worker'[w].pc # "idle"
    BY DEF Pulled, Acting
  <2>4. CASE Calm(w)
    <3>1. CASE worker'[w].pc = "idle"
      BY <3>1 DEF RevisionKnown, Pulled, Acting
    <3>2. CASE worker'[w].pc # "idle"
      <4>1. worker'[w].rev = worker[w].rev /\ (worker'[w].pc \in Pulled => worker[w].pc \in Pulled)
        BY <2>4, <3>2 DEF Calm
      <4>2. worker'[w].pc \in Acting =>
              /\ worker[w].pc \in Acting /\ worker'[w].effect = worker[w].effect
              /\ worker'[w].job = worker[w].job
        BY <3>2 DEF Onward, Acting
      <4> QED BY <1>2, <2>1, <2>2, <3>2, <4>1, <4>2 DEF RevisionKnown
    <3> QED BY <3>1, <3>2
  <2>5. CASE Load(w)
    <3>1. worker'[w].pc = "loaded" /\ (Job(w).kind = "converge" => worker'[w].rev = revision)
      BY <1>1, <2>5, LoadOnward
    <3>2. revision # 0
      BY <1>1, DesiredAssumption DEF RowsTypeOK
    <3> QED BY <1>2, <2>2, <3>1, <3>2 DEF RevisionKnown, Acting
  <2> QED BY <2>4, <2>5 DEF Onward
<1>4. \A v \in Workers : RevisionKnown(v)'
  BY <1>2, <1>3, RowsKeptWorker
<1> QED BY <1>1, <1>2, <1>4, RowsKeptKnown, WireStaysNewest, SameBounds, OnwardKeepsQueue
        DEF DeliveryInv

LEMMA ClaimedKeepsDelivery ==
  ASSUME DeliveryInv, NEW w \in Workers, NEW i \in 1..Len(jobs), Claimed(w, i)
  PROVE  DeliveryInv'
<1>1. QueueInv /\ RowsTypeOK
  BY DEF DeliveryInv, QueueInv
<1>2. /\ RowsKept /\ \A v \in Workers : v # w => worker'[v] = worker[v]
      /\ UNCHANGED <<revision, wire, provider, now>> /\ target'.converged = target.converged
  BY <1>1, OnlyOther DEF Claimed, RowsKept, TargetKept
<1>3. RevisionKnown(w)'
  BY DEF Claimed, RevisionKnown, Pulled, Acting
<1>4. \A v \in Workers : RevisionKnown(v)'
  BY <1>2, <1>3, RowsKeptWorker
<1> QED BY <1>1, <1>2, <1>4, RowsKeptKnown, WireStaysNewest, SameBounds, ClaimedKeepsQueue
        DEF DeliveryInv

LEMMA IntendsKeepsDelivery ==
  ASSUME DeliveryInv, NEW w \in Workers, NEW n \in Names, Intends(w, n)
  PROVE  DeliveryInv'
<1> DEFINE x == Len(effects) + 1
<1>1. QueueInv /\ RowsTypeOK /\ Len(effects) \in Nat /\ revision \in Nat /\ revision # 0
  BY EffectParts, DesiredAssumption DEF DeliveryInv, QueueInv, RowsTypeOK
<1>2. /\ \A v \in Workers : v # w => worker'[v] = worker[v]
      /\ UNCHANGED <<revision, wire, provider, now>> /\ target'.converged = target.converged
      /\ target'.gen = target.gen /\ target'.state = target.state /\ target'.paused = target.paused
      /\ Len(jobs') = Len(jobs) /\ JobsKept /\ Custody(w)
  BY <1>1, OnlyOther DEF Intends, TargetKept
<1>3. /\ worker[w].pc = "syncing" /\ worker'[w].pc = "prepared" /\ worker'[w].effect = x
      /\ worker'[w].job = worker[w].job /\ worker'[w].rev = worker[w].rev
  BY DEF Intends
<1>4. /\ Len(effects') = x /\ \A e \in 1..Len(effects) : effects'[e] = effects[e]
      /\ effects'[x].job = worker[w].job /\ effects'[x].name = n /\ effects'[x].rev = worker[w].rev
      /\ effects'[x].delete = (n \notin Desires(w))
  BY DEF Intends
<1>5. /\ worker[w].job \in 1..Len(jobs) /\ Job(w).gen = target.gen /\ RevisionKnown(w)
      /\ Job(w)'.kind = Job(w).kind /\ Job(w)'.gen = Job(w).gen
  BY <1>1, <1>2, <1>3 DEF DeliveryInv, QueueInv, Indexed, Custody, JobsKept, Job
<1>6. JobsAdmitted'
  BY <1>2 DEF DeliveryInv, JobsAdmitted, JobsKept
<1>7. Job(w).kind = "converge" => worker[w].rev = revision
  BY <1>3, <1>5 DEF RevisionKnown, Pulled
<1>8. ASSUME NEW v \in Workers PROVE RevisionKnown(v)'
  <2>1. CASE v = w
    BY <1>2, <1>3, <1>4, <1>5, <1>7, <1>1, <2>1 DEF RevisionKnown
  <2>2. CASE v # w
    <3>1. RevisionKnown(v) /\ worker'[v] = worker[v]
      BY <1>2, <2>2 DEF DeliveryInv
    <3>2. worker[v].pc # "idle" => Job(v)'.kind = Job(v).kind /\ Job(v)'.gen = Job(v).gen
      BY <1>1, <1>2, <3>1 DEF QueueInv, Indexed, JobsKept, Job
    <3>3. worker[v].pc \in Acting => effects'[worker[v].effect] = effects[worker[v].effect]
      BY <1>1, <1>4 DEF QueueInv, Indexed
    <3>4. worker[v].pc \in Pulled => worker[v].pc # "idle"
      BY DEF Pulled, Acting
    <3> QED BY <1>2, <3>1, <3>2, <3>3, <3>4 DEF RevisionKnown
  <2> QED BY <2>1, <2>2
<1>9. ASSUME NEW e \in 1..Len(effects') PROVE IntentKnown(e)'
  <2>1. CASE e \in 1..Len(effects)
    <3>1. IntentKnown(e) /\ effects'[e] = effects[e] /\ effects[e].job \in 1..Len(jobs)
      BY <1>1, <1>4, <2>1 DEF DeliveryInv, QueueInv, Indexed
    <3>2. JobOf(e)'.kind = JobOf(e).kind /\ JobOf(e)'.gen = JobOf(e).gen
      BY <1>2, <3>1 DEF JobOf, JobsKept
    <3> QED BY <1>2, <3>1, <3>2 DEF IntentKnown
  <2>2. CASE e = x
    <3>1. JobOf(e)'.kind = Job(w).kind /\ JobOf(e)'.gen = Job(w).gen
      BY <1>2, <1>3, <1>4, <1>5, <2>2 DEF JobOf, JobsKept, Job
    <3>2. CASE Job(w).kind = "scrub"
      BY <1>4, <2>2, <3>1, <3>2 DEF IntentKnown, Desires
    <3>3. CASE Job(w).kind = "converge"
      <4>1. effects'[e].delete <=> n \notin Desired[worker[w].rev]
        BY <1>4, <2>2, <3>3 DEF Desires
      <4> QED BY <1>1, <1>2, <1>4, <1>7, <2>2, <3>1, <3>3, <4>1 DEF IntentKnown
    <3> QED BY <1>1, <1>5, <3>2, <3>3, JobParts DEF Job
  <2> QED BY <1>1, <1>4, <2>1, <2>2
<1>10. WireNewest'
  <2>1. \A q \in wire : effects'[q.effect] = effects[q.effect]
    BY <1>1, <1>4 DEF QueueInv, Indexed
  <2> QED BY <1>2, <2>1 DEF DeliveryInv, WireNewest, Live, Delivered
<1> QED BY <1>1, <1>2, <1>6, <1>8, <1>9, <1>10, SameBounds, IntendsKeepsQueue DEF DeliveryInv

\* What is sent is the newest revision.
LEMMA SendKeepsDelivery ==
  ASSUME DeliveryInv, NEW w \in Workers, Send(w)
  PROVE  DeliveryInv'
<1>1. QueueInv /\ RowsTypeOK
  BY DEF DeliveryInv, QueueInv
<1>2. /\ Only(w) /\ worker[w].pc = "prepared" /\ worker'[w].pc = "sent" /\ Custody(w)
      /\ worker'[w].job = worker[w].job /\ worker'[w].effect = worker[w].effect
      /\ worker'[w].rev = worker[w].rev
      /\ UNCHANGED <<revision, target, jobs, effects, ledger, provider, now>>
  BY <1>1, SendEffect
<1>3. RowsKept /\ \A v \in Workers : v # w => worker'[v] = worker[v]
  BY <1>1, <1>2, SameJobs, SameEffects, OnlyOther DEF RowsKept
<1>4. RevisionKnown(w)'
  <2>1. RevisionKnown(w) /\ Job(w)' = Job(w)
    BY <1>2 DEF DeliveryInv, Job
  <2> QED BY <1>2, <2>1 DEF RevisionKnown, Pulled, Acting
<1>5. \A v \in Workers : RevisionKnown(v)'
  BY <1>3, <1>4, RowsKeptWorker
<1>6. PICK q : wire' = wire \cup {q} /\ q.effect = worker[w].effect
  BY <1>1, SendEffect
<1>7. WireNewest'
  <2> DEFINE f == worker[w].effect
  <2>1. /\ f \in 1..Len(effects) /\ effects[f].rev = worker[w].rev /\ effects[f].job = worker[w].job
        /\ IntentKnown(f) /\ worker[w].job \in 1..Len(jobs)
    BY <1>1, <1>2 DEF DeliveryInv, RevisionKnown, QueueInv, Indexed, Acting
  <2>2. effects[f].name \in Names
    BY <1>1, <2>1, EffectParts
  <2>3. ~effects[f].delete => effects[f].rev = revision
    <3>1. JobOf(f).gen = target.gen /\ JobOf(f).kind \in {"converge", "scrub"}
      BY <1>1, <1>2, <2>1, JobParts DEF JobOf, Custody, Job
    <3> QED BY <2>1, <3>1 DEF IntentKnown
  <2>4. ~effects[f].delete /\ Delivered(provider[effects[f].name]) =>
          provider[effects[f].name] <= effects[f].rev
    BY <2>2, <2>3 DEF DeliveryInv, RevisionBounds
  <2>5. \A r \in wire' : r \in wire \/ r.effect = f
    BY <1>6
  <2> HIDE DEF f
  <2> QED BY <1>2, <2>4, <2>5 DEF DeliveryInv, WireNewest, Live, Delivered
<1> QED BY <1>1, <1>2, <1>3, <1>5, <1>7, RowsKeptKnown, SameBounds, SendKeepsQueue DEF DeliveryInv

LEMMA RespondKeepsDelivery ==
  ASSUME DeliveryInv, NEW w \in Workers, NEW applied \in BOOLEAN, NEW seen \in BOOLEAN,
         Respond(w, applied, seen)
  PROVE  DeliveryInv'
<1>1. QueueInv /\ RowsTypeOK
  BY DEF DeliveryInv, QueueInv
<1>2. /\ Only(w) /\ worker[w].pc = "sent" /\ worker'[w].pc = "replied"
      /\ worker'[w].job = worker[w].job /\ worker'[w].effect = worker[w].effect
      /\ worker'[w].rev = worker[w].rev
      /\ UNCHANGED <<revision, target, jobs, effects, ledger, now>>
  BY <1>1, RespondEffect
<1>3. PICK q \in wire : wire' = wire \ {q} /\ (Lands(q) \/ provider' = provider)
  BY <1>1, RespondEffect
<1>4. RevisionBounds' /\ WireNewest' /\ RowsKept
  BY <1>2, <1>3, LandsNewest
<1>5. RevisionKnown(w)'
  <2>1. RevisionKnown(w) /\ Job(w)' = Job(w)
    BY <1>2 DEF DeliveryInv, Job
  <2> QED BY <1>2, <2>1 DEF RevisionKnown, Pulled, Acting
<1>6. \A v \in Workers : RevisionKnown(v)'
  BY <1>1, <1>2, <1>4, <1>5, RowsKeptWorker, OnlyOther
<1> QED BY <1>1, <1>4, <1>6, RowsKeptKnown, RespondKeepsQueue DEF DeliveryInv

LEMMA LandOrphanKeepsDelivery ==
  ASSUME DeliveryInv, NEW q \in wire, LandOrphan(q)
  PROVE  DeliveryInv'
<1>1. QueueInv /\ RowsTypeOK
  BY DEF DeliveryInv, QueueInv
<1>2. /\ Lands(q) /\ wire' = wire \ {q}
      /\ UNCHANGED <<revision, target, jobs, effects, ledger, worker, now>>
  BY LandOrphanEffect
<1>3. RevisionBounds' /\ WireNewest' /\ RowsKept
  BY <1>2, LandsNewest
<1>4. \A v \in Workers : RevisionKnown(v)'
  BY <1>2, <1>3, RowsKeptWorker
<1> QED BY <1>1, <1>3, <1>4, RowsKeptKnown, LandOrphanKeepsQueue DEF DeliveryInv

LEMMA RecordedKeepsDelivery ==
  ASSUME DeliveryInv, NEW w \in Workers, Recorded(w)
  PROVE  DeliveryInv'
<1>1. QueueInv /\ RowsTypeOK
  BY DEF DeliveryInv, QueueInv
<1>2. /\ RowsKept /\ \A v \in Workers : v # w => worker'[v] = worker[v]
      /\ UNCHANGED <<revision, jobs, wire, provider, now>> /\ target'.converged = target.converged
      /\ worker[w].pc = "replied" /\ worker'[w].pc \in {"syncing", "closing"}
      /\ worker'[w].job = worker[w].job /\ worker'[w].rev = worker[w].rev
      /\ target'.gen = target.gen
  BY <1>1, SameJobs, OnlyOther DEF Recorded, RowsKept, TargetKept
<1>3. RevisionKnown(w)'
  <2>1. RevisionKnown(w) /\ Job(w)' = Job(w)
    BY <1>2 DEF DeliveryInv, Job
  <2> QED BY <1>2, <2>1 DEF RevisionKnown, Pulled, Acting
<1>4. \A v \in Workers : RevisionKnown(v)'
  BY <1>2, <1>3, RowsKeptWorker
<1> QED BY <1>1, <1>2, <1>4, RowsKeptKnown, WireStaysNewest, SameBounds, RecordedKeepsQueue
        DEF DeliveryInv

\* A target converges on the newest revision.
LEMMA ConvergesOnNewest ==
  ASSUME DeliveryInv, NEW w \in Workers, Succeed(w), Job(w).kind = "converge"
  PROVE  worker[w].rev = revision
<1>1. worker[w].pc = "syncing" /\ Job(w).gen = target.gen
  BY DEF Succeed, Settles
<1> QED BY <1>1 DEF DeliveryInv, RevisionKnown, Pulled

LEMMA SettledKeepsDelivery ==
  ASSUME DeliveryInv, NEW w \in Workers, Settled(w), worker[w].job \in 1..Len(jobs),
         worker[w].job = target.active
  PROVE  DeliveryInv' /\ target'.converged >= target.converged
<1>1. QueueInv /\ RowsTypeOK /\ target.converged \in Nat /\ revision \in Nat
  BY TargetParts, DesiredAssumption DEF DeliveryInv, QueueInv, RowsTypeOK
<1>2. /\ RowsKept /\ \A v \in Workers : v # w => worker'[v] = worker[v]
      /\ UNCHANGED <<revision, wire, provider, now>> /\ worker'[w].pc = "idle"
  BY <1>1, SameEffects, OnlyOther DEF Settled, RowsKept, Idle
<1>3. \A v \in Workers : RevisionKnown(v)'
  <2>1. RevisionKnown(w)'
    BY <1>2 DEF RevisionKnown, Pulled, Acting
  <2> QED BY <1>2, <2>1, RowsKeptWorker
<1>4. target'.converged = target.converged \/ target'.converged = revision
  BY ConvergesOnNewest DEF Settled
<1>5. target.converged <= revision
  BY DEF DeliveryInv, RevisionBounds
<1>6. RevisionBounds'
  BY <1>1, <1>2, <1>4, <1>5 DEF DeliveryInv, RevisionBounds, Delivered
<1>7. target'.converged >= target.converged
  BY <1>1, <1>4, <1>5
<1> QED BY <1>1, <1>2, <1>3, <1>6, <1>7, RowsKeptKnown, WireStaysNewest, SettledKeepsQueue
        DEF DeliveryInv

LEMMA TickKeepsDelivery ==
  ASSUME DeliveryInv, Tick
  PROVE  DeliveryInv'
<1>1. QueueInv /\ RowsTypeOK /\ now \in Nat /\ now' = now + 1
      /\ UNCHANGED <<revision, target, jobs, effects, ledger, worker, wire, provider>>
  BY DEF DeliveryInv, QueueInv, RowsTypeOK, Tick
<1>2. RowsKept
  BY <1>1, SameJobs, SameEffects DEF RowsKept
<1>3. \A q \in wire : Live(q)' => Live(q)
  <2>1. \A q \in wire : q.until \in Nat
    BY <1>1 DEF RowsTypeOK, Requests
  <2> QED BY <1>1, <2>1 DEF Live
<1>4. WireNewest'
  BY <1>1, <1>3 DEF DeliveryInv, WireNewest, Delivered
<1> QED BY <1>1, <1>2, <1>4, RowsKeptKnown, RowsKeptWorker, SameBounds, TickKeepsQueue
        DEF DeliveryInv

\* What somebody else adds is not delivered.
LEMMA AddedDelivers ==
  ASSUME Added, NEW n \in Names, Delivered(provider'[n])
  PROVE  provider'[n] = provider[n]
BY DEF Added, Delivered

LEMMA AddedKeepsDelivery ==
  ASSUME DeliveryInv, Added
  PROVE  DeliveryInv'
<1>1. QueueInv /\ RowsTypeOK /\ QueueInv'
      /\ UNCHANGED <<revision, target, jobs, effects, ledger, worker, wire, now>>
  BY AddedKeepsQueue DEF DeliveryInv, QueueInv, Added
<1>2. RowsKept
  BY <1>1, SameJobs, SameEffects DEF RowsKept
<1>3. \A e \in 1..Len(effects) : effects[e].name \in Names
  BY <1>1, EffectParts
<1>4. WireNewest' /\ RevisionBounds'
  <2>1. ASSUME NEW q \in wire, Live(q), ~effects[q.effect].delete,
               Delivered(provider'[effects[q.effect].name])
        PROVE  provider'[effects[q.effect].name] <= effects[q.effect].rev
    <3>1. q.effect \in 1..Len(effects)
      BY <1>1 DEF QueueInv, Indexed
    <3>2. provider'[effects[q.effect].name] = provider[effects[q.effect].name]
      BY <1>3, <2>1, <3>1, AddedDelivers
    <3> QED BY <2>1, <3>2 DEF DeliveryInv, WireNewest
  <2>2. WireNewest'
    BY <1>1, <2>1 DEF WireNewest, Live, Delivered
  <2>3. ASSUME NEW n \in Names, Delivered(provider'[n]) PROVE provider'[n] <= revision
    BY <2>3, AddedDelivers DEF DeliveryInv, RevisionBounds
  <2> QED BY <1>1, <2>2, <2>3 DEF DeliveryInv, RevisionBounds, Delivered
<1> QED BY <1>1, <1>2, <1>4, RowsKeptKnown, RowsKeptWorker DEF DeliveryInv

LEMMA DeliveryNext == DeliveryInv /\ [RuntimeNext]_runtimeVars => DeliveryInv'
<1> SUFFICES ASSUME DeliveryInv, [RuntimeNext]_runtimeVars PROVE DeliveryInv'
  OBVIOUS
<1>0. QueueInv
  BY DEF DeliveryInv
<1>1. ASSUME NEW w \in Workers, WorkerStep(w) PROVE DeliveryInv'
  BY <1>0, <1>1, WorkerStepCases, OnwardKeepsDelivery, ClaimedKeepsDelivery, IntendsKeepsDelivery,
     SendKeepsDelivery, RespondKeepsDelivery, RecordedKeepsDelivery, SettledKeepsDelivery
<1>2. CASE UNCHANGED runtimeVars
  <2>1. UNCHANGED <<revision, target, jobs, effects, ledger, worker, wire, provider, now>>
    BY <1>2 DEF runtimeVars
  <2>2. RowsTypeOK /\ QueueInv'
    BY <1>0, <1>2, QueueNext DEF QueueInv
  <2>3. RowsKept
    BY <2>1, <2>2, SameJobs, SameEffects DEF RowsKept
  <2> QED BY <2>1, <2>2, <2>3, RowsKeptKnown, RowsKeptWorker, WireStaysNewest, SameBounds
          DEF DeliveryInv
<1>3. ASSUME NEW n \in ForeignNames, SomebodyAdds(n) PROVE DeliveryInv'
  BY <1>0, <1>3, AddedEffect, AddedKeepsDelivery
<1> QED BY <1>1, <1>2, <1>3, TriggerKeepsDelivery, LandOrphanKeepsDelivery, TickKeepsDelivery
        DEF RuntimeNext, RuntimeStep

LEMMA ConvergedStep ==
  ASSUME DeliveryInv, [RuntimeNext]_runtimeVars
  PROVE  target'.converged >= target.converged
<1>1. QueueInv /\ target.converged \in Nat
  BY TargetParts DEF DeliveryInv, QueueInv
<1>2. CASE Trigger
  BY <1>1, <1>2, TriggerEffect DEF Triggered, PublishedAside
<1>3. ASSUME NEW w \in Workers, WorkerStep(w) PROVE target'.converged >= target.converged
  <2>1. CASE Onward(w)
    BY <1>1, <2>1 DEF Onward, TargetKept
  <2>2. CASE \E i \in 1..Len(jobs) : Claimed(w, i)
    BY <1>1, <2>2 DEF Claimed, TargetKept
  <2>3. CASE \E n \in Names : Intends(w, n)
    BY <1>1, <2>3 DEF Intends, TargetKept
  <2>4. CASE Send(w) \/ \E applied, seen \in BOOLEAN : Respond(w, applied, seen)
    BY <1>1, <2>4 DEF Send, Respond
  <2>5. CASE Recorded(w)
    BY <1>1, <2>5 DEF Recorded, TargetKept
  <2>6. CASE Settled(w) /\ worker[w].job \in 1..Len(jobs) /\ worker[w].job = target.active
    BY <2>6, SettledKeepsDelivery
  <2> QED BY <1>1, <1>3, <2>1, <2>2, <2>3, <2>4, <2>5, <2>6, WorkerStepCases
<1>4. CASE \/ (\E q \in wire : LandOrphan(q)) \/ (\E n \in ForeignNames : SomebodyAdds(n))
           \/ Tick \/ UNCHANGED runtimeVars
  BY <1>1, <1>4 DEF LandOrphan, SomebodyAdds, Tick, runtimeVars
<1> QED BY <1>2, <1>3, <1>4 DEF RuntimeNext, RuntimeStep

\* An older revision never replaces a newer one at the provider, and the
\* revision a target reports never goes back, whatever request is late.
THEOREM DeliveryNeverGoesBack == RuntimeSpec => NothingGoesBack
<1>1. DeliveryInv /\ [RuntimeNext]_runtimeVars =>
        [\A n \in Names : Delivered(provider[n]) /\ Delivered(provider'[n]) =>
           provider'[n] >= provider[n]]_runtimeVars
  <2> SUFFICES ASSUME DeliveryInv, [RuntimeNext]_runtimeVars, NEW n \in Names,
                      Delivered(provider[n]), Delivered(provider'[n])
               PROVE  provider'[n] >= provider[n]
    OBVIOUS
  <2>1. QueueInv /\ RowsTypeOK /\ provider \in [Names -> Nat \cup {Foreign, Late}]
        /\ provider[n] \in Nat
    BY DEF DeliveryInv, QueueInv, RowsTypeOK, Delivered
  <2>2. CASE provider' = provider
    BY <2>1, <2>2
  <2>3. ASSUME NEW q \in wire, Lands(q) PROVE provider'[n] >= provider[n]
    <3> DEFINE f == effects[q.effect]
               x == IF f.delete THEN 0 ELSE f.rev
    <3>1. q.effect \in 1..Len(effects) /\ f.name \in Names /\ f.rev \in Nat
      BY <2>1, EffectParts DEF QueueInv, Indexed
    <3>2. provider' = [provider EXCEPT ![f.name] = x]
      BY <2>3 DEF Lands
    <3>3. CASE n # f.name
      <4>1. provider'[n] = provider[n]
        BY <2>1, <3>2, <3>3
      <4> QED BY <2>1, <4>1
    <3>4. CASE n = f.name
      <4>1. provider'[n] = x
        BY <2>1, <3>1, <3>2, <3>4
      <4>2. ~f.delete
        BY <4>1 DEF Delivered
      <4>3. provider[n] <= f.rev
        BY <2>3, <3>4, <4>2 DEF DeliveryInv, WireNewest, Lands
      <4> QED BY <2>1, <3>1, <4>1, <4>2, <4>3
    <3> QED BY <3>3, <3>4
  <2>4. CASE Added
    BY <2>1, <2>4, AddedDelivers
  <2> QED BY <2>1, <2>2, <2>3, <2>4, ProviderStep
<1>2. DeliveryInv /\ [RuntimeNext]_runtimeVars => [target'.converged >= target.converged]_runtimeVars
  BY ConvergedStep
<1> QED BY <1>1, <1>2, RuntimeInitDelivery, DeliveryNext, PTL
        DEF RuntimeSpec, NothingGoesBack, NoStaleWrite, ConvergedAdvances
-----------------------------------------------------------------------------
(* What is reported is true.                                               *)

\* The provider lease, while one is held, is that of the last intent.
LeaseNewest == target.lease # NoLease => target.lease.effect = Len(effects)

\* Later intents are of no earlier generation.
EffectGens == \A e, f \in 1..Len(effects) : e < f => JobOf(e).gen <= JobOf(f).gen

\* What effect e writes, and that it is there: what somebody else adds after a
\* delete is not ours.
Written(e) == IF effects[e].delete THEN 0 ELSE effects[e].rev
Holds(e) ==
  IF effects[e].delete THEN ~Delivered(provider[effects[e].name])
  ELSE provider[effects[e].name] = effects[e].rev

\* What this generation wrote and saw acknowledged is there.
SuccessDelivered ==
  \A e \in 1..Len(effects) :
    effects[e].outcome = "success" /\ ~effects[e].delete /\ JobOf(e).gen = target.gen =>
      provider[effects[e].name] = effects[e].rev

\* Job j has seen its write of name n at revision r acknowledged.
Acked(j, n, r) ==
  \E e \in 1..Len(effects) :
    /\ effects[e].outcome = "success" /\ ~effects[e].delete
    /\ effects[e].job = j /\ effects[e].name = n /\ effects[e].rev = r

\* What a worker counts as done has been acknowledged.
DoneAcked(w) ==
  worker[w].pc # "idle" /\ Job(w).kind = "converge" /\ worker[w].rev # 0 =>
    \A n \in worker[w].done : n \in Desired[worker[w].rev] =>
      Acked(worker[w].job, n, worker[w].rev)

\* An acknowledgement not yet recorded is true as long as it can be recorded.
AckTrue(w) ==
  (/\ worker[w].pc = "replied" /\ worker[w].reply = "ok"
   /\ target.lease # NoLease /\ target.lease.effect = worker[w].effect)
  => Holds(worker[w].effect)

\* A converged target has no job and no request out.
AtRest ==
  target.status = "converged" /\ target.state = "active" =>
    target.active = 0 /\ target.lease = NoLease

ReportInv ==
  /\ DeliveryInv /\ LeaseNewest /\ EffectGens /\ SuccessDelivered
  /\ \A w \in Workers : DoneAcked(w) /\ AckTrue(w)
  /\ AtRest /\ ConvergedIsDelivered

LEMMA RuntimeInitReport == RuntimeInit => ReportInv
<1> SUFFICES ASSUME RuntimeInit PROVE ReportInv
  OBVIOUS
<1>1. /\ effects = << >> /\ worker = [w \in Workers |-> Idle]
      /\ target.lease = NoLease /\ target.status = "never"
  BY DEF RuntimeInit
<1>2. Len(effects) = 0 /\ \A w \in Workers : worker[w].pc = "idle"
  BY <1>1 DEF Idle
<1>3. LeaseNewest /\ EffectGens /\ SuccessDelivered /\ AtRest /\ ConvergedIsDelivered
  BY <1>1, <1>2 DEF LeaseNewest, EffectGens, SuccessDelivered, AtRest, ConvergedIsDelivered
<1>4. \A w \in Workers : DoneAcked(w) /\ AckTrue(w)
  BY <1>2 DEF DoneAcked, AckTrue
<1> QED BY <1>3, <1>4, RuntimeInitDelivery DEF ReportInv

LEMMA ReportParts ==
  ASSUME ReportInv
  PROVE  DeliveryInv /\ QueueInv /\ RowsTypeOK
BY DEF ReportInv, DeliveryInv, QueueInv

\* A job keeps kind and generation for the intents that name it.
LEMMA JobOfKept ==
  ASSUME QueueInv, RowsKept, NEW e \in 1..Len(effects)
  PROVE  JobOf(e)'.kind = JobOf(e).kind /\ JobOf(e)'.gen = JobOf(e).gen
<1>1. effects[e].job \in 1..Len(jobs)
  BY DEF QueueInv, Indexed
<1> QED BY <1>1 DEF JobOf, RowsKept, JobsKept, EffectsKept

LEMMA RowsKeptGens ==
  ASSUME ReportInv, RowsKept
  PROVE  EffectGens'
<1>1. \A e \in 1..Len(effects) : JobOf(e)'.gen = JobOf(e).gen
  BY ReportParts, JobOfKept
<1> QED BY <1>1 DEF ReportInv, EffectGens, RowsKept

\* The acknowledgements stay, and so what is done stays acknowledged.
LEMMA DoneStays ==
  ASSUME ReportInv, EffectsKept, JobsKept, NEW v \in Workers, worker[v].pc # "idle",
         worker'[v].job = worker[v].job, worker'[v].rev = worker[v].rev,
         \A n \in worker'[v].done : n \in worker[v].done \/ n \notin Desires(v)
                                    \/ Acked(worker[v].job, n, worker[v].rev)'
  PROVE  DoneAcked(v)'
<1>1. QueueInv /\ RowsTypeOK /\ DoneAcked(v)
  BY ReportParts DEF ReportInv
<1>2. worker[v].job \in 1..Len(jobs)
  BY <1>1 DEF QueueInv, Indexed
<1>3. Job(v)'.kind = Job(v).kind
  BY <1>2 DEF Job, JobsKept
<1>4. Len(effects) \in Nat /\ Len(effects') \in Nat
  BY <1>1, EffectParts DEF EffectsKept
<1>5. ASSUME Job(v).kind = "converge", worker[v].rev # 0,
             NEW n \in worker'[v].done, n \in Desired[worker[v].rev]
      PROVE  Acked(worker[v].job, n, worker[v].rev)'
  <2>1. CASE n \in worker[v].done
    <3>1. Acked(worker[v].job, n, worker[v].rev)
      BY <1>1, <1>5, <2>1 DEF DoneAcked
    <3>2. PICK e \in 1..Len(effects) :
            /\ effects[e].outcome = "success" /\ ~effects[e].delete
            /\ effects[e].job = worker[v].job /\ effects[e].name = n /\ effects[e].rev = worker[v].rev
      BY <3>1 DEF Acked
    <3>3. /\ effects'[e].outcome = "success" /\ ~effects'[e].delete
          /\ effects'[e].job = worker'[v].job /\ effects'[e].name = n
          /\ effects'[e].rev = worker'[v].rev /\ e \in 1..Len(effects')
      BY <1>4, <3>2 DEF EffectsKept
    <3> QED BY <3>3 DEF Acked
  <2>2. CASE n \notin Desires(v)
    BY <1>5, <2>2 DEF Desires
  <2> QED BY <2>1, <2>2
<1> QED BY <1>1, <1>3, <1>5 DEF DoneAcked

\* No new acknowledgement is recorded, and nothing lands.
LEMMA SuccessStays ==
  ASSUME ReportInv, RowsKept, provider' = provider,
         \A e \in 1..Len(effects) : effects'[e].outcome = "success" => effects[e].outcome = "success"
  PROVE  SuccessDelivered'
<1>1. ASSUME NEW e \in 1..Len(effects') , effects'[e].outcome = "success", ~effects'[e].delete,
             JobOf(e)'.gen = target'.gen
      PROVE  provider'[effects'[e].name] = effects'[e].rev
  <2>1. e \in 1..Len(effects)
    BY DEF RowsKept
  <2>2. /\ effects'[e].name = effects[e].name /\ effects'[e].rev = effects[e].rev
        /\ effects'[e].delete = effects[e].delete /\ target'.gen = target.gen
    BY <2>1 DEF RowsKept, EffectsKept
  <2>3. JobOf(e)'.gen = JobOf(e).gen
    BY <2>1, ReportParts, JobOfKept
  <2> QED BY <1>1, <2>1, <2>2, <2>3 DEF ReportInv, SuccessDelivered
<1> QED BY <1>1 DEF SuccessDelivered

\* An acknowledgement of v stays true while the provider and the intents do.
LEMMA AckStays ==
  ASSUME ReportInv, EffectsKept, NEW v \in Workers, worker'[v] = worker[v], provider' = provider,
         target'.lease = target.lease \/ target'.lease = NoLease
  PROVE  AckTrue(v)'
<1>1. CASE worker[v].pc = "replied" /\ target.lease # NoLease
  <2>1. worker[v].effect \in 1..Len(effects)
    BY <1>1, ReportParts DEF QueueInv, Indexed, Acting
  <2>2. Holds(worker[v].effect) => Holds(worker[v].effect)'
    BY <2>1 DEF EffectsKept, Holds, Delivered
  <2>3. AckTrue(v)
    BY DEF ReportInv
  <2> QED BY <2>2, <2>3 DEF AckTrue
<1>2. CASE ~(worker[v].pc = "replied" /\ target.lease # NoLease)
  BY <1>2 DEF AckTrue
<1> QED BY <1>1, <1>2

\* The report stays what it was.
LEMMA ConvergedStays ==
  ASSUME ReportInv, provider' = provider, target'.converged = target.converged,
         target'.status = target.status, target'.state = target.state
  PROVE  ConvergedIsDelivered'
BY DEF ReportInv, ConvergedIsDelivered

\* While a request is live or a job is open the target does not rest.
LEMMA NotAtRest ==
  ASSUME ReportInv, target.status = "converged", target.state = "active"
  PROVE  /\ \A q \in wire : ~Live(q)
         /\ \A i \in 1..Len(jobs) : ~Open(jobs[i])
<1>1. target.active = 0 /\ target.lease = NoLease
  BY DEF ReportInv, AtRest
<1>2. \A q \in wire : ~Live(q)
  BY <1>1, ReportParts DEF QueueInv, WireKnown
<1>3. \A i \in 1..Len(jobs) : ~Open(jobs[i])
  <2>1. \A i \in 1..Len(jobs) : i # 0
    BY ReportParts, JobParts
  <2> QED BY <1>1, <2>1, ReportParts, OpenByNumber
<1> QED BY <1>2, <1>3

\* A live request is of the last intent.  It writes what this generation has
\* delivered already, or another name.
LEMMA LandsOnSuccess ==
  ASSUME ReportInv, NEW q \in wire, Lands(q), UNCHANGED <<target, jobs, effects>>
  PROVE  SuccessDelivered' /\ ConvergedIsDelivered' /\
         \A v \in Workers : worker[v].pc = "replied" /\ worker'[v] = worker[v] => AckTrue(v)'
<1> DEFINE f == q.effect
<1>1. /\ DeliveryInv /\ QueueInv /\ RowsTypeOK /\ Live(q) /\ f \in 1..Len(effects)
      /\ provider \in [Names -> Nat \cup {Foreign, Late}] /\ Len(effects) \in Nat
  BY ReportParts, EffectParts DEF QueueInv, Indexed, Lands, RowsTypeOK
<1>2. target.lease # NoLease /\ target.lease.effect = f /\ f = Len(effects)
  BY <1>1 DEF QueueInv, WireKnown, ReportInv, LeaseNewest
<1>3. provider' = [provider EXCEPT ![effects[f].name] = Written(f)] /\ effects[f].name \in Names
  BY <1>1, EffectParts DEF Lands, Written
<1>4. ASSUME NEW e \in 1..Len(effects), effects[e].outcome = "success", ~effects[e].delete,
             JobOf(e).gen = target.gen
      PROVE  provider'[effects[e].name] = effects[e].rev
  <2>1. provider[effects[e].name] = effects[e].rev /\ effects[e].name \in Names
    BY <1>1, <1>4, EffectParts DEF ReportInv, SuccessDelivered
  <2>2. CASE effects[e].name # effects[f].name
    BY <1>1, <1>3, <2>1, <2>2
  <2>3. CASE effects[e].name = effects[f].name
    <3>1. effects[e].job \in 1..Len(jobs) /\ effects[f].job \in 1..Len(jobs)
          /\ IntentKnown(e) /\ IntentKnown(f)
      BY <1>1 DEF DeliveryInv, QueueInv, Indexed
    <3>2. JobOf(e).kind = "converge" /\ target.state = "active"
      BY <1>1, <1>4, <3>1, JobParts DEF IntentKnown, JobOf, DeliveryInv, JobsAdmitted
    <3>3. JobOf(f).gen = target.gen /\ JobOf(f).kind = "converge"
      <4>1. JobOf(f).gen \in Nat /\ JobOf(e).gen \in Nat /\ target.gen \in Nat
            /\ JobOf(f).gen <= target.gen /\ JobOf(f).kind = "converge"
        BY <1>1, <3>1, <3>2, JobParts, TargetParts DEF JobOf, DeliveryInv, JobsAdmitted
      <4>2. JobOf(e).gen <= JobOf(f).gen
        <5>1. e = f \/ e < f
          BY <1>1, <1>2
        <5> QED BY <1>1, <4>1, <5>1 DEF ReportInv, EffectGens
      <4> QED BY <1>4, <4>1, <4>2
    <3>4. effects[e].rev = revision /\ effects[f].rev = revision
      BY <1>4, <3>1, <3>2, <3>3 DEF IntentKnown
    <3>5. ~effects[f].delete
      BY <1>4, <2>3, <3>1, <3>2, <3>3, <3>4 DEF IntentKnown
    <3>6. Written(f) = effects[e].rev
      BY <3>4, <3>5 DEF Written
    <3> QED BY <1>1, <1>3, <2>3, <3>6
  <2> QED BY <2>2, <2>3
<1>5. SuccessDelivered'
  <2>1. \A e \in 1..Len(effects) : JobOf(e)' = JobOf(e)
    BY DEF JobOf
  <2> QED BY <1>4, <2>1 DEF SuccessDelivered
<1>6. ConvergedIsDelivered'
  BY <1>1, NotAtRest DEF ConvergedIsDelivered
<1>7. ASSUME NEW v \in Workers, worker[v].pc = "replied", worker'[v] = worker[v] PROVE AckTrue(v)'
  <2>1. worker[v].effect # f
    BY <1>1, <1>7 DEF QueueInv, WireKnown
  <2> QED BY <1>2, <1>7, <2>1 DEF AckTrue
<1> QED BY <1>5, <1>6, <1>7

LEMMA TriggerKeepsReport ==
  ASSUME ReportInv, Trigger
  PROVE  ReportInv'
<1>1. DeliveryInv /\ QueueInv /\ RowsTypeOK
  BY ReportParts
<1>2. /\ Triggered \/ PublishedAside
      /\ UNCHANGED <<effects, worker, wire, provider, now>>
  BY <1>1, TriggerEffect DEF Triggered, PublishedAside
<1>3. JobsKept /\ EffectsKept /\ (target'.lease = target.lease \/ target'.lease = NoLease)
      /\ target'.converged = target.converged
  BY <1>1, <1>2, SameJobs, SameEffects DEF Triggered, PublishedAside
<1>4. \A e \in 1..Len(effects) : effects[e].job \in 1..Len(jobs) /\ JobOf(e)'.gen = JobOf(e).gen
                                 /\ JobOf(e).gen \in Nat
  BY <1>1, <1>2, <1>3, JobParts DEF QueueInv, Indexed, JobOf, JobsKept
<1>5. LeaseNewest'
  BY <1>2, <1>3 DEF ReportInv, LeaseNewest
<1>6. EffectGens'
  BY <1>2, <1>4 DEF ReportInv, EffectGens
<1>7. SuccessDelivered'
  <2>1. CASE PublishedAside
    BY <1>2, <1>4, <2>1 DEF ReportInv, SuccessDelivered, PublishedAside
  <2>2. CASE Triggered
    <3>1. target'.gen = target.gen + 1 /\ target.gen \in Nat
      BY <1>1, <2>2, TargetParts DEF Triggered
    <3>2. \A e \in 1..Len(effects) : JobOf(e).gen <= target.gen
      BY <1>1, <1>4 DEF DeliveryInv, JobsAdmitted, JobOf
    <3>3. \A e \in 1..Len(effects) : JobOf(e)'.gen # target'.gen
      BY <1>4, <3>1, <3>2
    <3> QED BY <1>2, <3>3 DEF SuccessDelivered
  <2> QED BY <1>2, <2>1, <2>2
<1>8. ASSUME NEW w \in Workers PROVE DoneAcked(w)' /\ AckTrue(w)'
  <2>1. AckTrue(w)'
    BY <1>2, <1>3, AckStays
  <2>2. CASE worker[w].pc # "idle"
    BY <1>2, <1>3, <2>1, <2>2, DoneStays
  <2>3. CASE worker[w].pc = "idle"
    BY <1>2, <2>1, <2>3 DEF DoneAcked
  <2> QED BY <2>2, <2>3
<1>9. AtRest' /\ ConvergedIsDelivered'
  <2>1. CASE PublishedAside
    <3>1. target' = target
      BY <2>1 DEF PublishedAside
    <3> QED BY <1>2, <3>1 DEF ReportInv, AtRest, ConvergedIsDelivered
  <2>2. CASE Triggered
    <3>1. CASE Len(jobs') = Len(jobs)
      <4>1. /\ target'.active = 0 /\ target'.lease = NoLease /\ target.state = "active"
            /\ target'.state = "active" => target'.status = target.status
        BY <2>2, <3>1 DEF Triggered
      <4> QED BY <1>2, <1>3, <4>1 DEF ReportInv, AtRest, ConvergedIsDelivered
    <3>2. CASE Len(jobs') = Len(jobs) + 1
      <4>1. target'.status = "converging"
        BY <2>2, <3>2 DEF Triggered
      <4> QED BY <4>1 DEF AtRest, ConvergedIsDelivered
    <3> QED BY <2>2, <3>1, <3>2 DEF Triggered
  <2> QED BY <1>2, <2>1, <2>2
<1> QED BY <1>1, <1>5, <1>6, <1>7, <1>8, <1>9, TriggerKeepsDelivery DEF ReportInv

LEMMA OnwardKeepsReport ==
  ASSUME ReportInv, NEW w \in Workers, Onward(w)
  PROVE  ReportInv'
<1>1. DeliveryInv /\ QueueInv /\ RowsTypeOK
  BY ReportParts
<1>2. /\ \A v \in Workers : v # w => worker'[v] = worker[v]
      /\ UNCHANGED <<revision, jobs, effects, wire, provider, now>>
      /\ TargetKept /\ target'.lease = target.lease /\ worker[w].pc # "idle"
  BY <1>1, OnlyOther DEF Onward
<1>3. RowsKept /\ EffectsKept /\ JobsKept
  BY <1>1, <1>2, SameJobs, SameEffects DEF RowsKept, TargetKept
<1>4. LeaseNewest' /\ AtRest' /\ ConvergedIsDelivered' /\ EffectGens' /\ SuccessDelivered'
  <2>1. LeaseNewest' /\ AtRest'
    BY <1>2 DEF ReportInv, LeaseNewest, AtRest, TargetKept
  <2> QED BY <1>2, <1>3, <2>1, ConvergedStays, RowsKeptGens, SuccessStays DEF TargetKept
<1>5. \A v \in Workers : v # w => DoneAcked(v)' /\ AckTrue(v)'
  <2>1. ASSUME NEW v \in Workers, v # w PROVE DoneAcked(v)' /\ AckTrue(v)'
    <3>1. AckTrue(v)'
      BY <1>2, <1>3, <2>1, AckStays
    <3>2. CASE worker[v].pc # "idle"
      BY <1>2, <1>3, <2>1, <3>1, <3>2, DoneStays
    <3>3. CASE worker[v].pc = "idle"
      BY <1>2, <2>1, <3>1, <3>3 DEF DoneAcked
    <3> QED BY <3>2, <3>3
  <2> QED BY <2>1
<1>6. AckTrue(w)'
  <2>1. ~(worker'[w].pc = "replied" /\ worker'[w].reply = "ok")
    BY DEF Onward, Acting
  <2> QED BY <2>1 DEF AckTrue
<1>7. DoneAcked(w)'
  <2>1. CASE worker'[w].pc = "idle"
    BY <2>1 DEF DoneAcked
  <2>2. CASE worker'[w].pc # "idle" /\ Calm(w)
    <3>1. worker'[w].job = worker[w].job /\ worker'[w].rev = worker[w].rev
      BY <2>2 DEF Onward, Calm
    <3>2. \A n \in worker'[w].done : n \in worker[w].done \/ n \notin Desires(w)
      BY <2>2 DEF Calm
    <3> QED BY <1>2, <1>3, <3>1, <3>2, DoneStays
  <2>3. CASE Load(w)
    <3>1. worker'[w].pc # "idle" => worker'[w].job = worker[w].job
      BY DEF Onward
    <3>2. Job(w).kind = "converge" =>
            /\ worker'[w].rev = revision
            /\ worker'[w].done \subseteq
                 Completed(w, revision) \cup (IF revision = worker[w].rev THEN worker[w].done ELSE {})
      BY <1>1, <2>3, LoadOnward
    <3>3. worker'[w].pc = "loaded"
      BY <1>1, <2>3, LoadOnward
    <3>4. worker'[w].job = worker[w].job /\ Job(w)' = Job(w)
      BY <1>2, <3>1, <3>3 DEF Job
    <3>5. ASSUME Job(w).kind = "converge", worker'[w].rev # 0,
                 NEW n \in worker'[w].done, n \in Desired[revision]
          PROVE  Acked(worker[w].job, n, revision)
      <4>1. CASE n \in Completed(w, revision)
        <5>1. PICK e \in DOMAIN effects :
                /\ effects[e].job = worker[w].job /\ effects[e].name = n
                /\ effects[e].outcome = "success" /\ ~effects[e].delete /\ effects[e].rev = revision
          BY <4>1 DEF Completed
        <5>2. e \in 1..Len(effects)
          BY <1>1, EffectParts
        <5> QED BY <5>1, <5>2 DEF Acked
      <4>2. CASE n \in worker[w].done /\ revision = worker[w].rev
        <5>1. worker[w].rev # 0 /\ DoneAcked(w)
          BY <3>2, <3>5, <4>2 DEF ReportInv
        <5> QED BY <1>2, <3>5, <4>2, <5>1 DEF DoneAcked
      <4> QED BY <3>2, <3>5, <4>1, <4>2
    <3>6. ASSUME Job(w).kind = "converge", worker'[w].rev # 0,
                 NEW n \in worker'[w].done, n \in Desired[worker'[w].rev]
          PROVE  Acked(worker[w].job, n, worker[w].rev)'
      <4>1. n \in Desired[revision] /\ worker'[w].rev = revision
        BY <3>2, <3>6
      <4>2. PICK e \in 1..Len(effects) :
              /\ effects[e].outcome = "success" /\ ~effects[e].delete
              /\ effects[e].job = worker[w].job /\ effects[e].name = n /\ effects[e].rev = revision
        BY <3>5, <3>6, <4>1 DEF Acked
      <4> QED BY <1>2, <3>4, <4>1, <4>2 DEF Acked
    <3> QED BY <3>4, <3>6 DEF DoneAcked
  <2> QED BY <2>1, <2>2, <2>3 DEF Onward
<1>8. \A v \in Workers : DoneAcked(v)' /\ AckTrue(v)'
  BY <1>5, <1>6, <1>7
<1> QED BY <1>1, <1>4, <1>8, OnwardKeepsDelivery DEF ReportInv

\* What a step of w that keeps the rows, the provider and the report leaves of
\* the others.
LEMMA OthersKeepReport ==
  ASSUME ReportInv, RowsKept, NEW w \in Workers, NEW v \in Workers, v # w, worker'[v] = worker[v],
         provider' = provider, target'.lease = target.lease \/ target'.lease = NoLease
  PROVE  DoneAcked(v)' /\ AckTrue(v)'
<1>1. AckTrue(v)'
  BY AckStays DEF RowsKept
<1>2. CASE worker[v].pc # "idle"
  BY <1>1, <1>2, DoneStays DEF RowsKept
<1>3. CASE worker[v].pc = "idle"
  BY <1>1, <1>3 DEF DoneAcked
<1> QED BY <1>2, <1>3

LEMMA ClaimedKeepsReport ==
  ASSUME ReportInv, NEW w \in Workers, NEW i \in 1..Len(jobs), Claimed(w, i)
  PROVE  ReportInv'
<1>1. DeliveryInv /\ QueueInv /\ RowsTypeOK
  BY ReportParts
<1>2. /\ \A v \in Workers : v # w => worker'[v] = worker[v]
      /\ UNCHANGED <<revision, wire, provider, now>> /\ RowsKept /\ TargetKept
      /\ target'.lease = target.lease \/ target'.lease = NoLease
  BY <1>1, OnlyOther DEF Claimed, RowsKept, TargetKept
<1>3. LeaseNewest' /\ AtRest'
  BY <1>2 DEF ReportInv, LeaseNewest, AtRest, TargetKept, RowsKept
<1>4. ConvergedIsDelivered' /\ EffectGens'
  BY <1>2, ConvergedStays, RowsKeptGens DEF TargetKept
<1>5. SuccessDelivered'
  <2>1. \A e \in 1..Len(effects) : effects'[e].outcome = "success" => effects[e].outcome = "success"
    BY DEF Claimed
  <2> QED BY <1>2, <2>1, SuccessStays
<1>6. DoneAcked(w)' /\ AckTrue(w)'
  BY DEF Claimed, DoneAcked, AckTrue
<1>7. \A v \in Workers : DoneAcked(v)' /\ AckTrue(v)'
  BY <1>2, <1>6, OthersKeepReport
<1> QED BY <1>1, <1>3, <1>4, <1>5, <1>7, ClaimedKeepsDelivery DEF ReportInv

LEMMA IntendsKeepsReport ==
  ASSUME ReportInv, NEW w \in Workers, NEW n \in Names, Intends(w, n)
  PROVE  ReportInv'
<1> DEFINE x == Len(effects) + 1
<1>1. DeliveryInv /\ QueueInv /\ RowsTypeOK /\ Len(effects) \in Nat /\ target.gen \in Nat
  BY ReportParts, EffectParts, TargetParts
<1>2. /\ \A v \in Workers : v # w => worker'[v] = worker[v]
      /\ UNCHANGED <<revision, wire, provider, now>> /\ TargetKept
      /\ JobsKept /\ Custody(w) /\ worker[w].pc = "syncing"
      /\ worker'[w].pc = "prepared" /\ worker'[w].job = worker[w].job
      /\ worker'[w].rev = worker[w].rev /\ worker'[w].done = worker[w].done
      /\ target'.lease # NoLease /\ target'.lease.effect = x
  BY <1>1, OnlyOther DEF Intends
<1>3. /\ Len(effects') = x /\ \A e \in 1..Len(effects) : effects'[e] = effects[e]
      /\ effects'[x].job = worker[w].job /\ effects'[x].outcome = "open"
      /\ effects' \in Seq(Effects)
  BY DEF Intends
<1>4. EffectsKept
  BY <1>1, <1>3 DEF EffectsKept
<1>5. /\ worker[w].job \in 1..Len(jobs) /\ Job(w).gen = target.gen /\ Open(Job(w))
      /\ jobs'[worker[w].job].gen = target.gen
  BY <1>1, <1>2 DEF QueueInv, Indexed, Custody, JobsKept, Job, Open
<1>6. \A e \in 1..Len(effects) :
        JobOf(e)'.gen = JobOf(e).gen /\ JobOf(e).gen <= target.gen /\ JobOf(e).gen \in Nat
  <2>1. \A e \in 1..Len(effects) : effects[e].job \in 1..Len(jobs)
    BY <1>1 DEF QueueInv, Indexed
  <2> QED BY <1>1, <1>2, <1>3, <2>1, JobParts DEF JobOf, JobsKept, DeliveryInv, JobsAdmitted
<1>7. jobs'[effects'[x].job].gen = target.gen
  BY <1>3, <1>5
<1>8. \A e \in 1..Len(effects') : e \in 1..Len(effects) \/ e = x
  BY <1>1, <1>3
<1>9. LeaseNewest'
  BY <1>2, <1>3 DEF LeaseNewest
<1>10. EffectGens'
  <2>1. ASSUME NEW e \in 1..Len(effects'), NEW f \in 1..Len(effects'), e < f
        PROVE  JobOf(e)'.gen <= JobOf(f)'.gen
    <3>1. e \in 1..Len(effects)
      BY <1>1, <1>3, <2>1
    <3>2. CASE f \in 1..Len(effects)
      BY <1>6, <2>1, <3>1, <3>2 DEF ReportInv, EffectGens
    <3>3. CASE f = x
      <4>1. JobOf(f)'.gen = target.gen
        BY <1>7, <3>3 DEF JobOf
      <4> QED BY <1>6, <3>1, <4>1
    <3> QED BY <1>8, <3>2, <3>3
  <2> QED BY <2>1 DEF EffectGens
<1>11. SuccessDelivered'
  <2>1. ASSUME NEW e \in 1..Len(effects'), effects'[e].outcome = "success", ~effects'[e].delete,
               JobOf(e)'.gen = target'.gen
        PROVE  provider'[effects'[e].name] = effects'[e].rev
    <3>1. e \in 1..Len(effects)
      BY <1>3, <1>8, <2>1
    <3>2. target'.gen = target.gen /\ effects'[e] = effects[e] /\ JobOf(e)'.gen = JobOf(e).gen
      BY <1>2, <1>3, <1>6, <3>1 DEF TargetKept
    <3> QED BY <1>2, <2>1, <3>1, <3>2 DEF ReportInv, SuccessDelivered
  <2> QED BY <2>1 DEF SuccessDelivered
<1>12. ASSUME NEW v \in Workers PROVE DoneAcked(v)' /\ AckTrue(v)'
  <2>1. CASE v = w
    <3>1. DoneAcked(w)'
      BY <1>2, <1>4, DoneStays
    <3>2. AckTrue(w)'
      BY <1>2 DEF AckTrue
    <3> QED BY <2>1, <3>1, <3>2
  <2>2. CASE v # w
    <3>1. worker[v].pc = "replied" => worker[v].effect # x
      BY <1>1 DEF QueueInv, Indexed, Acting
    <3>2. AckTrue(v)'
      BY <1>2, <2>2, <3>1 DEF AckTrue
    <3>3. CASE worker[v].pc # "idle"
      BY <1>2, <1>4, <2>2, <3>2, <3>3, DoneStays
    <3>4. CASE worker[v].pc = "idle"
      BY <1>2, <2>2, <3>2, <3>4 DEF DoneAcked
    <3> QED BY <3>3, <3>4
  <2> QED BY <2>1, <2>2
<1>13. AtRest'
  <2>1. ~(target.status = "converged" /\ target.state = "active")
    BY <1>5, NotAtRest DEF Job
  <2> QED BY <1>2, <2>1 DEF AtRest, TargetKept
<1>14. ConvergedIsDelivered'
  BY <1>2, ConvergedStays DEF TargetKept
<1> QED BY <1>1, <1>9, <1>10, <1>11, <1>12, <1>13, <1>14, IntendsKeepsDelivery DEF ReportInv

LEMMA SendKeepsReport ==
  ASSUME ReportInv, NEW w \in Workers, Send(w)
  PROVE  ReportInv'
<1>1. DeliveryInv /\ QueueInv /\ RowsTypeOK
  BY ReportParts
<1>2. /\ Only(w) /\ worker[w].pc = "prepared" /\ worker'[w].pc = "sent"
      /\ worker'[w].job = worker[w].job /\ worker'[w].rev = worker[w].rev
      /\ worker'[w].done = worker[w].done
      /\ UNCHANGED <<revision, target, jobs, effects, ledger, provider, now>>
  BY <1>1, SendEffect
<1>3. RowsKept /\ EffectsKept /\ JobsKept /\ \A v \in Workers : v # w => worker'[v] = worker[v]
  BY <1>1, <1>2, SameJobs, SameEffects, OnlyOther DEF RowsKept
<1>4. LeaseNewest' /\ AtRest' /\ ConvergedIsDelivered' /\ EffectGens' /\ SuccessDelivered'
  <2>1. LeaseNewest' /\ AtRest'
    BY <1>2 DEF ReportInv, LeaseNewest, AtRest
  <2> QED BY <1>2, <1>3, <2>1, ConvergedStays, RowsKeptGens, SuccessStays
<1>5. DoneAcked(w)' /\ AckTrue(w)'
  <2>1. DoneAcked(w)'
    BY <1>2, <1>3, DoneStays
  <2> QED BY <1>2, <2>1 DEF AckTrue
<1>6. \A v \in Workers : DoneAcked(v)' /\ AckTrue(v)'
  BY <1>2, <1>3, <1>5, OthersKeepReport
<1> QED BY <1>1, <1>4, <1>6, SendKeepsDelivery DEF ReportInv

LEMMA RespondKeepsReport ==
  ASSUME ReportInv, NEW w \in Workers, NEW applied \in BOOLEAN, NEW seen \in BOOLEAN,
         Respond(w, applied, seen)
  PROVE  ReportInv'
<1>1. DeliveryInv /\ QueueInv /\ RowsTypeOK
  BY ReportParts
<1>2. /\ Only(w) /\ worker[w].pc = "sent" /\ worker'[w].pc = "replied"
      /\ worker'[w].job = worker[w].job /\ worker'[w].rev = worker[w].rev
      /\ worker'[w].done = worker[w].done /\ worker'[w].effect = worker[w].effect
      /\ UNCHANGED <<revision, target, jobs, effects, ledger, now>>
  BY <1>1, RespondEffect
<1>3. RowsKept /\ EffectsKept /\ JobsKept /\ \A v \in Workers : v # w => worker'[v] = worker[v]
  BY <1>1, <1>2, SameJobs, SameEffects, OnlyOther DEF RowsKept
<1>4. PICK q \in wire : /\ wire' = wire \ {q} /\ q.effect = worker[w].effect
                        /\ Lands(q) \/ (provider' = provider /\ worker'[w].reply # "ok")
  BY <1>1, RespondEffect
<1>5. LeaseNewest' /\ AtRest' /\ EffectGens'
  BY <1>2, <1>3, RowsKeptGens DEF ReportInv, LeaseNewest, AtRest
<1>6. ASSUME NEW v \in Workers PROVE DoneAcked(v)'
  <2>1. CASE v = w
    BY <1>2, <1>3, <2>1, DoneStays
  <2>2. CASE v # w /\ worker[v].pc # "idle"
    BY <1>3, <2>2, DoneStays
  <2>3. CASE v # w /\ worker[v].pc = "idle"
    BY <1>3, <2>3 DEF DoneAcked
  <2> QED BY <2>1, <2>2, <2>3
<1>7. CASE Lands(q)
  <2>1. AckTrue(w)'
    <3>1. /\ effects[q.effect].name \in Names /\ provider \in [Names -> Nat \cup {Foreign, Late}]
      BY <1>1, EffectParts DEF QueueInv, Indexed, RowsTypeOK
    <3>2. Holds(q.effect)'
      BY <1>2, <1>7, <3>1 DEF Lands, Holds, Delivered
    <3> QED BY <1>2, <1>4, <3>2 DEF AckTrue, Holds
  <2>2. /\ SuccessDelivered' /\ ConvergedIsDelivered'
        /\ \A v \in Workers : worker[v].pc = "replied" /\ worker'[v] = worker[v] => AckTrue(v)'
    BY <1>2, <1>7, LandsOnSuccess
  <2>3. ASSUME NEW v \in Workers, v # w PROVE AckTrue(v)'
    <3>1. CASE worker[v].pc = "replied"
      BY <1>3, <2>2, <2>3, <3>1
    <3>2. CASE worker[v].pc # "replied"
      BY <1>3, <2>3, <3>2 DEF AckTrue
    <3> QED BY <3>1, <3>2
  <2> QED BY <1>1, <1>5, <1>6, <2>1, <2>2, <2>3, RespondKeepsDelivery DEF ReportInv
<1>8. CASE provider' = provider /\ worker'[w].reply # "ok"
  <2>1. AckTrue(w)'
    BY <1>8 DEF AckTrue
  <2>2. \A v \in Workers : v # w => AckTrue(v)'
    BY <1>2, <1>3, <1>8, AckStays
  <2>3. SuccessDelivered' /\ ConvergedIsDelivered'
    BY <1>2, <1>3, <1>8, SuccessStays, ConvergedStays
  <2> QED BY <1>1, <1>5, <1>6, <2>1, <2>2, <2>3, RespondKeepsDelivery DEF ReportInv
<1> QED BY <1>4, <1>7, <1>8

LEMMA LandOrphanKeepsReport ==
  ASSUME ReportInv, NEW q \in wire, LandOrphan(q)
  PROVE  ReportInv'
<1>1. DeliveryInv /\ QueueInv /\ RowsTypeOK
  BY ReportParts
<1>2. /\ Lands(q) /\ UNCHANGED <<revision, target, jobs, effects, ledger, worker, now>>
  BY LandOrphanEffect
<1>3. RowsKept /\ EffectsKept /\ JobsKept
  BY <1>1, <1>2, SameJobs, SameEffects DEF RowsKept
<1>4. LeaseNewest' /\ AtRest' /\ EffectGens'
  BY <1>2, <1>3, RowsKeptGens DEF ReportInv, LeaseNewest, AtRest
<1>5. /\ SuccessDelivered' /\ ConvergedIsDelivered'
      /\ \A v \in Workers : worker[v].pc = "replied" /\ worker'[v] = worker[v] => AckTrue(v)'
  BY <1>2, LandsOnSuccess
<1>6. ASSUME NEW v \in Workers PROVE DoneAcked(v)' /\ AckTrue(v)'
  <2>1. AckTrue(v)'
    <3>1. CASE worker[v].pc = "replied"
      BY <1>2, <1>5, <3>1
    <3>2. CASE worker[v].pc # "replied"
      BY <1>2, <3>2 DEF AckTrue
    <3> QED BY <3>1, <3>2
  <2>2. CASE worker[v].pc # "idle"
    BY <1>2, <1>3, <2>1, <2>2, DoneStays
  <2>3. CASE worker[v].pc = "idle"
    BY <1>2, <2>1, <2>3 DEF DoneAcked
  <2> QED BY <2>2, <2>3
<1> QED BY <1>1, <1>4, <1>5, <1>6, LandOrphanKeepsDelivery DEF ReportInv

\* What is recorded as a success is at the provider.
LEMMA RecordedIsTrue ==
  ASSUME ReportInv, NEW w \in Workers, Recorded(w),
         effects'[worker[w].effect].outcome = "success"
  PROVE  Holds(worker[w].effect)
BY DEF ReportInv, AckTrue, Recorded

LEMMA RecordedKeepsReport ==
  ASSUME ReportInv, NEW w \in Workers, Recorded(w)
  PROVE  ReportInv'
<1> DEFINE x == worker[w].effect
<1>1. DeliveryInv /\ QueueInv /\ RowsTypeOK
  BY ReportParts
<1>2. /\ \A v \in Workers : v # w => worker'[v] = worker[v]
      /\ UNCHANGED <<revision, jobs, wire, provider, now>> /\ TargetKept /\ target'.lease = NoLease
      /\ worker[w].pc = "replied" /\ worker'[w].pc \in {"syncing", "closing"}
      /\ worker'[w].job = worker[w].job /\ worker'[w].rev = worker[w].rev
      /\ EffectsKept /\ Len(effects') = Len(effects)
      /\ \A e \in 1..Len(effects) : e # x => effects'[e] = effects[e]
  BY <1>1, OnlyOther DEF Recorded
<1>3. RowsKept /\ JobsKept
  BY <1>1, <1>2, SameJobs DEF RowsKept, TargetKept
<1>4. LeaseNewest' /\ AtRest' /\ ConvergedIsDelivered' /\ EffectGens'
  <2>1. LeaseNewest' /\ AtRest'
    BY <1>2 DEF ReportInv, LeaseNewest, AtRest, TargetKept
  <2> QED BY <1>2, <1>3, <2>1, ConvergedStays, RowsKeptGens DEF TargetKept
<1>5. x \in 1..Len(effects)
  BY <1>1, <1>2 DEF QueueInv, Indexed, Acting
<1>6. SuccessDelivered'
  <2>1. ASSUME NEW e \in 1..Len(effects'), effects'[e].outcome = "success", ~effects'[e].delete,
               JobOf(e)'.gen = target'.gen
        PROVE  provider'[effects'[e].name] = effects'[e].rev
    <3>1. /\ e \in 1..Len(effects) /\ effects'[e].name = effects[e].name
          /\ effects'[e].rev = effects[e].rev /\ effects'[e].delete = effects[e].delete
      BY <1>2 DEF EffectsKept
    <3>2. CASE e = x
      BY <1>2, <2>1, <3>1, <3>2, RecordedIsTrue DEF Holds
    <3>3. CASE e # x
      <4>1. effects'[e] = effects[e] /\ JobOf(e)'.gen = JobOf(e).gen /\ target'.gen = target.gen
        BY <1>1, <1>2, <1>3, <3>1, <3>3, JobOfKept DEF RowsKept
      <4> QED BY <1>2, <2>1, <3>1, <4>1 DEF ReportInv, SuccessDelivered
    <3> QED BY <3>2, <3>3
  <2> QED BY <2>1 DEF SuccessDelivered
<1>7. DoneAcked(w)'
  <2>1. CASE worker'[w].pc = "closing"
    <3>1. worker'[w].done = worker[w].done
      BY <2>1 DEF Recorded
    <3> QED BY <1>2, <1>3, <3>1, DoneStays
  <2>2. CASE worker'[w].pc = "syncing"
    <3>1. worker'[w].done = worker[w].done \cup {effects[x].name} /\ effects'[x].outcome = "success"
      BY <2>2 DEF Recorded
    <3>2. effects[x].rev = worker[w].rev /\ effects[x].job = worker[w].job /\ IntentKnown(x)
      BY <1>1, <1>2, <1>5 DEF DeliveryInv, RevisionKnown, Acting
    <3>3. worker[w].job \in 1..Len(jobs) /\ Job(w).kind \in {"converge", "scrub"}
      BY <1>1, <1>2, JobParts DEF QueueInv, Indexed, Job
    <3>4. effects[x].name \in Desires(w) => ~effects[x].delete
      <4>1. CASE Job(w).kind = "scrub"
        BY <4>1 DEF Desires
      <4>2. CASE Job(w).kind = "converge"
        BY <3>2, <4>2 DEF Desires, IntentKnown, JobOf, Job
      <4> QED BY <3>3, <4>1, <4>2
    <3>5. ASSUME NEW n, n = effects[x].name, n \in Desires(w)
          PROVE  Acked(worker[w].job, n, worker[w].rev)'
      <4>1. PICK e \in 1..Len(effects') : e = x
        BY <1>2, <1>5 DEF EffectsKept
      <4>2. /\ effects'[e].outcome = "success" /\ ~effects'[e].delete
            /\ effects'[e].job = worker'[w].job /\ effects'[e].name = n
            /\ effects'[e].rev = worker'[w].rev
        BY <1>2, <1>5, <3>1, <3>2, <3>4, <3>5, <4>1 DEF EffectsKept
      <4> QED BY <4>1, <4>2 DEF Acked
    <3>6. \A n \in worker'[w].done : n \in worker[w].done \/ n \notin Desires(w)
                                     \/ Acked(worker[w].job, n, worker[w].rev)'
      BY <3>1, <3>5
    <3> QED BY <1>2, <1>3, <3>6, DoneStays
  <2> QED BY <1>2, <2>1, <2>2
<1>8. AckTrue(w)'
  BY <1>2 DEF AckTrue
<1>9. \A v \in Workers : DoneAcked(v)' /\ AckTrue(v)'
  BY <1>2, <1>3, <1>7, <1>8, OthersKeepReport
<1> QED BY <1>1, <1>4, <1>6, <1>9, RecordedKeepsDelivery DEF ReportInv

\* A target that converges holds what it reports.
LEMMA SucceedIsTrue ==
  ASSUME ReportInv, NEW w \in Workers, Succeed(w), Job(w).kind = "converge",
         worker[w].job \in 1..Len(jobs)
  PROVE  /\ worker[w].rev \in Revisions /\ target.lease = NoLease
         /\ \A n \in Desired[worker[w].rev] : provider[n] = worker[w].rev
<1>1. DeliveryInv /\ QueueInv /\ RowsTypeOK
  BY ReportParts
<1>2. /\ worker[w].pc = "syncing" /\ Pending(w) = {} /\ target.gen = Job(w).gen
      /\ target.lease = NoLease
  BY DEF Succeed, Settles
<1>3. worker[w].rev = revision /\ revision \in Revisions /\ revision # 0
  BY <1>1, ConvergesOnNewest, DesiredAssumption DEF RowsTypeOK
<1>4. Desired[worker[w].rev] \subseteq worker[w].done
  BY <1>2 DEF Pending, Desires
<1>5. ASSUME NEW n \in Desired[worker[w].rev] PROVE provider[n] = worker[w].rev
  <2>1. PICK e \in 1..Len(effects) :
          /\ effects[e].outcome = "success" /\ ~effects[e].delete
          /\ effects[e].job = worker[w].job /\ effects[e].name = n /\ effects[e].rev = worker[w].rev
    BY <1>2, <1>3, <1>4, <1>5 DEF ReportInv, DoneAcked, Acked
  <2>2. JobOf(e).gen = target.gen
    BY <1>2, <2>1 DEF JobOf, Job
  <2> QED BY <2>1, <2>2 DEF ReportInv, SuccessDelivered
<1> QED BY <1>2, <1>3, <1>5

LEMMA SettledKeepsReport ==
  ASSUME ReportInv, NEW w \in Workers, Settled(w), worker[w].job \in 1..Len(jobs),
         worker[w].job = target.active
  PROVE  ReportInv'
<1>1. DeliveryInv /\ QueueInv /\ RowsTypeOK
  BY ReportParts
<1>2. /\ \A v \in Workers : v # w => worker'[v] = worker[v]
      /\ UNCHANGED <<revision, effects, wire, provider, now>> /\ worker'[w].pc = "idle"
      /\ target'.lease = target.lease /\ target'.state = target.state
  BY <1>1, OnlyOther DEF Settled, Idle
<1>3. RowsKept
  BY <1>1, SameEffects DEF Settled, RowsKept
<1>4. LeaseNewest' /\ EffectGens' /\ SuccessDelivered'
  <2>1. LeaseNewest'
    BY <1>2 DEF ReportInv, LeaseNewest
  <2> QED BY <1>2, <1>3, <2>1, RowsKeptGens, SuccessStays
<1>5. DoneAcked(w)' /\ AckTrue(w)'
  BY <1>2 DEF DoneAcked, AckTrue
<1>6. \A v \in Workers : DoneAcked(v)' /\ AckTrue(v)'
  BY <1>2, <1>3, <1>5, OthersKeepReport
<1>7. AtRest' /\ ConvergedIsDelivered'
  <2>1. target.active # 0
    BY <1>1, JobParts
  <2>2. CASE target'.converged = target.converged /\ target'.status \in {target.status, "failed"}
    <3>1. ~(target'.status = "converged" /\ target'.state = "active")
      BY <1>2, <2>1, <2>2 DEF ReportInv, AtRest
    <3> QED BY <3>1 DEF AtRest, ConvergedIsDelivered
  <2>3. CASE Job(w).kind = "scrub"
    <3>1. target.state = "tombstoned"
      BY <1>1, <2>3 DEF DeliveryInv, JobsAdmitted, Job
    <3> QED BY <1>2, <3>1 DEF AtRest, ConvergedIsDelivered
  <2>4. CASE /\ Succeed(w) /\ Job(w).kind = "converge"
             /\ target'.converged = worker[w].rev /\ target'.active = 0
    BY <1>2, <2>4, SucceedIsTrue DEF AtRest, ConvergedIsDelivered
  <2> QED BY <2>2, <2>3, <2>4 DEF Settled
<1> QED BY <1>1, <1>4, <1>6, <1>7, SettledKeepsDelivery DEF ReportInv

\* Time passes, or nothing happens.
LEMMA QuietKeepsReport ==
  ASSUME ReportInv, UNCHANGED <<revision, target, jobs, effects, worker, provider>>, DeliveryInv'
  PROVE  ReportInv'
<1>1. RowsKept /\ EffectsKept /\ JobsKept
  BY ReportParts, SameJobs, SameEffects DEF RowsKept
<1>2. LeaseNewest' /\ AtRest' /\ ConvergedIsDelivered' /\ EffectGens' /\ SuccessDelivered'
  <2>1. LeaseNewest' /\ AtRest'
    BY DEF ReportInv, LeaseNewest, AtRest
  <2> QED BY <1>1, <2>1, ConvergedStays, RowsKeptGens, SuccessStays
<1>3. ASSUME NEW v \in Workers PROVE DoneAcked(v)' /\ AckTrue(v)'
  <2>1. AckTrue(v)'
    BY <1>1, AckStays
  <2>2. CASE worker[v].pc # "idle"
    BY <1>1, <2>1, <2>2, DoneStays
  <2>3. CASE worker[v].pc = "idle"
    BY <2>1, <2>3 DEF DoneAcked
  <2> QED BY <2>2, <2>3
<1> QED BY <1>2, <1>3 DEF ReportInv

\* What is written is a revision, so the name is taken and nobody adds it.
LEMMA AddedKeepsReport ==
  ASSUME ReportInv, Added
  PROVE  ReportInv'
<1>1. /\ DeliveryInv /\ QueueInv /\ RowsTypeOK
      /\ UNCHANGED <<revision, target, jobs, effects, ledger, worker, wire, now>>
  BY ReportParts DEF Added
<1>2. RowsKept /\ EffectsKept /\ JobsKept
  BY <1>1, SameJobs, SameEffects DEF RowsKept
<1>3. LeaseNewest' /\ AtRest' /\ EffectGens'
  BY <1>1, <1>2, RowsKeptGens DEF ReportInv, LeaseNewest, AtRest
<1>4. ASSUME NEW e \in 1..Len(effects) PROVE Holds(e) => Holds(e)'
  <2>1. effects[e].name \in Names /\ effects[e].job \in 1..Len(jobs) /\ IntentKnown(e)
    BY <1>1, EffectParts DEF QueueInv, Indexed, DeliveryInv
  <2>2. CASE effects[e].delete
    BY <1>1, <2>1, <2>2, AddedDelivers DEF Holds, Delivered
  <2>3. CASE ~effects[e].delete
    <3>1. effects[e].rev # 0
      BY <1>1, <2>1, <2>3, JobParts DEF IntentKnown, JobOf
    <3> QED BY <1>1, <2>1, <2>3, <3>1 DEF Holds, Added
  <2> QED BY <2>2, <2>3
<1>5. SuccessDelivered'
  <2>1. \A e \in 1..Len(effects) : JobOf(e)' = JobOf(e)
    BY <1>1 DEF JobOf
  <2> QED BY <1>1, <1>4, <2>1 DEF ReportInv, SuccessDelivered, Holds
<1>6. ConvergedIsDelivered'
  <2>1. ASSUME target.status = "converged", target.state = "active",
               NEW n \in Desired[target.converged]
        PROVE  provider'[n] = target.converged
    <3>1. /\ target.converged \in Revisions /\ target.converged # 0 /\ n \in Names
          /\ provider[n] = target.converged
      BY <2>1, DesiredAssumption DEF ReportInv, ConvergedIsDelivered
    <3> QED BY <3>1 DEF Added
  <2> QED BY <1>1, <2>1 DEF ReportInv, ConvergedIsDelivered
<1>7. ASSUME NEW v \in Workers PROVE DoneAcked(v)' /\ AckTrue(v)'
  <2>1. AckTrue(v)'
    <3>1. worker[v].pc = "replied" => worker[v].effect \in 1..Len(effects)
      BY <1>1 DEF QueueInv, Indexed, Acting
    <3> QED BY <1>1, <1>4, <3>1 DEF ReportInv, AckTrue
  <2>2. CASE worker[v].pc # "idle"
    BY <1>1, <1>2, <2>1, <2>2, DoneStays
  <2>3. CASE worker[v].pc = "idle"
    BY <1>1, <2>1, <2>3 DEF DoneAcked
  <2> QED BY <2>2, <2>3
<1> QED BY <1>1, <1>3, <1>5, <1>6, <1>7, AddedKeepsDelivery DEF ReportInv

LEMMA ReportNext == ReportInv /\ [RuntimeNext]_runtimeVars => ReportInv'
<1> SUFFICES ASSUME ReportInv, [RuntimeNext]_runtimeVars PROVE ReportInv'
  OBVIOUS
<1>1. ASSUME NEW w \in Workers, WorkerStep(w) PROVE ReportInv'
  BY <1>1, ReportParts, WorkerStepCases, OnwardKeepsReport, ClaimedKeepsReport, IntendsKeepsReport,
     SendKeepsReport, RespondKeepsReport, RecordedKeepsReport, SettledKeepsReport
<1>2. CASE Tick \/ UNCHANGED runtimeVars
  <2>1. UNCHANGED <<revision, target, jobs, effects, worker, provider>>
    BY <1>2 DEF Tick, runtimeVars
  <2>2. DeliveryInv'
    BY ReportParts, DeliveryNext
  <2> QED BY <2>1, <2>2, QuietKeepsReport
<1>3. ASSUME NEW n \in ForeignNames, SomebodyAdds(n) PROVE ReportInv'
  BY <1>3, ReportParts, AddedEffect, AddedKeepsReport
<1> QED BY <1>1, <1>2, <1>3, TriggerKeepsReport, LandOrphanKeepsReport DEF RuntimeNext, RuntimeStep

\* An outcome is recorded once, and as a success only while it is true.
LEMMA OutcomeStep ==
  ASSUME ReportInv, [RuntimeNext]_runtimeVars, NEW e \in 1..Len(effects)
  PROVE  /\ effects[e].outcome = "open" /\ effects'[e].outcome = "success" =>
              Holds(e)
         /\ effects[e].outcome # "open" => effects'[e].outcome = effects[e].outcome
<1>1. QueueInv
  BY ReportParts
<1>2. CASE effects'[e] = effects[e]
  BY <1>2
<1>3. ASSUME NEW w \in Workers, WorkerStep(w)
      PROVE  \/ effects'[e] = effects[e]
             \/ \E i \in 1..Len(jobs) : Claimed(w, i)
             \/ Recorded(w)
  <2>1. CASE \/ Onward(w) \/ Send(w) \/ Settled(w)
             \/ \E applied, seen \in BOOLEAN : Respond(w, applied, seen)
    BY <2>1 DEF Onward, Send, Settled, Respond
  <2>2. CASE \E n \in Names : Intends(w, n)
    BY <2>2 DEF Intends
  <2> QED BY <1>1, <1>3, <2>1, <2>2, WorkerStepCases
<1>4. ASSUME NEW w \in Workers, NEW i \in 1..Len(jobs), Claimed(w, i)
      PROVE  /\ effects[e].outcome = "open" => effects'[e].outcome # "success"
             /\ effects[e].outcome # "open" => effects'[e].outcome = effects[e].outcome
  BY <1>4 DEF Claimed, EffectsKept
<1>5. ASSUME NEW w \in Workers, Recorded(w)
      PROVE  /\ effects[e].outcome = "open" /\ effects'[e].outcome = "success" =>
                  Holds(e)
             /\ effects[e].outcome # "open" => effects'[e].outcome = effects[e].outcome
  <2>1. /\ e # worker[w].effect => effects'[e] = effects[e]
        /\ effects[e].outcome # "open" => effects'[e].outcome = effects[e].outcome
    BY <1>5 DEF Recorded, EffectsKept
  <2>2. CASE e = worker[w].effect
    BY <1>5, <2>1, <2>2, RecordedIsTrue
  <2>3. CASE e # worker[w].effect
    BY <2>1, <2>3
  <2> QED BY <2>2, <2>3
<1>6. CASE \/ Trigger \/ (\E q \in wire : LandOrphan(q)) \/ (\E n \in ForeignNames : SomebodyAdds(n))
           \/ Tick \/ UNCHANGED runtimeVars
  <2>1. effects' = effects
    BY <1>1, <1>6, TriggerEffect
       DEF Triggered, PublishedAside, LandOrphan, SomebodyAdds, Tick, runtimeVars
  <2> QED BY <1>2, <2>1
<1> QED BY <1>2, <1>3, <1>4, <1>5, <1>6 DEF RuntimeNext, RuntimeStep

\* What the runtime reports is true: a converged target holds every desired name
\* at the revision it reports for as long as it says so, an outcome is recorded
\* as a success only while the provider holds what was written, and once.
THEOREM ReportsAlwaysTrue == RuntimeSpec => ReportsAreTrue
<1>1. ReportInv => ConvergedIsDelivered
  BY DEF ReportInv
<1>2. ReportInv /\ [RuntimeNext]_runtimeVars =>
        [\A e \in DOMAIN effects :
           /\ effects[e].outcome = "open" /\ effects'[e].outcome = "success" =>
                IF effects[e].delete THEN ~Delivered(provider[effects[e].name])
                ELSE provider[effects[e].name] = effects[e].rev
           /\ effects[e].outcome # "open" => effects'[e].outcome = effects[e].outcome]_runtimeVars
  <2> SUFFICES ASSUME ReportInv, [RuntimeNext]_runtimeVars, NEW e \in DOMAIN effects
               PROVE  /\ effects[e].outcome = "open" /\ effects'[e].outcome = "success" =>
                           IF effects[e].delete THEN ~Delivered(provider[effects[e].name])
                           ELSE provider[effects[e].name] = effects[e].rev
                      /\ effects[e].outcome # "open" => effects'[e].outcome = effects[e].outcome
    OBVIOUS
  <2>1. e \in 1..Len(effects)
    BY ReportParts, EffectParts
  <2> QED BY <2>1, OutcomeStep DEF Holds
<1> QED BY <1>1, <1>2, RuntimeInitReport, ReportNext, PTL
        DEF RuntimeSpec, ReportsAreTrue, OutcomesAreTrue
-----------------------------------------------------------------------------
(* What is recorded as refused does not happen any more.                   *)

Undecided == {"open", "unknown"}

\* What may still land has no outcome, or one that says so.
FateOpen ==
  /\ \A q \in wire : effects[q.effect].outcome \in Undecided
  /\ \A w \in Workers : worker[w].pc \in {"prepared", "sent"} =>
       effects[worker[w].effect].outcome \in Undecided

\* A step that puts nothing on the wire, prepares nothing, and decides nothing
\* that may still land.
LEMMA FateKept ==
  ASSUME QueueInv, FateOpen, wire' \subseteq wire,
         \A v \in Workers : worker'[v].pc \in {"prepared", "sent"} => worker'[v] = worker[v],
         \A e \in 1..Len(effects) :
           \/ effects'[e].outcome \in {effects[e].outcome, "unknown"}
           \/ /\ \A q \in wire : q.effect # e
              /\ \A v \in Workers : worker[v].pc \in {"prepared", "sent"} => worker[v].effect # e
  PROVE  FateOpen'
<1>1. ASSUME NEW q \in wire' PROVE effects'[q.effect].outcome \in Undecided
  <2>1. q \in wire /\ q.effect \in 1..Len(effects) /\ effects[q.effect].outcome \in Undecided
    BY DEF QueueInv, Indexed, FateOpen
  <2> QED BY <2>1 DEF Undecided
<1>2. ASSUME NEW v \in Workers, worker'[v].pc \in {"prepared", "sent"}
      PROVE  effects'[worker'[v].effect].outcome \in Undecided
  <2>1. worker'[v] = worker[v]
    BY <1>2
  <2>2. /\ worker[v].pc \in {"prepared", "sent"} /\ worker[v].effect \in 1..Len(effects)
        /\ effects[worker[v].effect].outcome \in Undecided
    BY <1>2, <2>1 DEF QueueInv, Indexed, Acting, FateOpen
  <2> QED BY <2>1, <2>2 DEF Undecided
<1> QED BY <1>1, <1>2 DEF FateOpen

\* An outcome is recorded of what is no longer on the wire.
LEMMA WorkerKeepsFate ==
  ASSUME QueueInv, FateOpen, NEW w \in Workers, WorkerStep(w)
  PROVE  FateOpen'
<1>0. RowsTypeOK
  BY DEF QueueInv
<1>1. CASE Onward(w) \/ Settled(w)
  <2>1. /\ Only(w) /\ wire' = wire /\ effects' = effects
        /\ worker'[w].pc \notin {"prepared", "sent"}
    BY <1>1 DEF Onward, Settled, Acting, Idle
  <2> QED BY <1>0, <2>1, OnlyOther, FateKept
<1>2. ASSUME NEW i \in 1..Len(jobs), Claimed(w, i) PROVE FateOpen'
  <2>1. /\ Only(w) /\ wire' = wire /\ worker'[w].pc = "claimed"
        /\ \A e \in 1..Len(effects) : effects'[e].outcome \in {effects[e].outcome, "unknown"}
    BY <1>2 DEF Claimed
  <2> QED BY <1>0, <2>1, OnlyOther, FateKept
<1>3. ASSUME NEW n \in Names, Intends(w, n) PROVE FateOpen'
  <2>1. /\ Only(w) /\ wire' = wire /\ worker'[w].effect = Len(effects) + 1
        /\ \A e \in 1..Len(effects) : effects'[e] = effects[e]
        /\ effects'[Len(effects) + 1] =
             [job |-> worker[w].job, name |-> n, rev |-> worker[w].rev,
              delete |-> n \notin Desires(w), outcome |-> "open"]
    BY <1>3 DEF Intends
  <2>2. effects'[Len(effects) + 1].outcome \in Undecided
    BY <2>1 DEF Undecided
  <2>3. \A v \in Workers : v # w => worker'[v] = worker[v]
    BY <1>0, <2>1, OnlyOther
  <2> QED BY <2>1, <2>2, <2>3 DEF FateOpen, QueueInv, Indexed, Acting
<1>4. CASE Send(w)
  <2>1. PICK q \in Requests : wire' = wire \cup {q} /\ q.effect = worker[w].effect
    BY <1>4, SendEffect
  <2>2. /\ Only(w) /\ worker[w].pc = "prepared" /\ worker'[w].effect = worker[w].effect
        /\ effects' = effects
    BY <1>4, SendEffect
  <2>3. \A v \in Workers : v # w => worker'[v] = worker[v]
    BY <1>0, <2>2, OnlyOther
  <2> QED BY <2>1, <2>2, <2>3 DEF FateOpen
<1>5. ASSUME NEW applied \in BOOLEAN, NEW seen \in BOOLEAN, Respond(w, applied, seen)
      PROVE  FateOpen'
  <2>1. /\ Only(w) /\ wire' \subseteq wire /\ worker'[w].pc = "replied" /\ effects' = effects
    BY <1>5, RespondEffect
  <2> QED BY <1>0, <2>1, OnlyOther, FateKept
<1>6. CASE Recorded(w)
  <2>1. /\ Only(w) /\ wire' = wire /\ worker[w].pc = "replied"
        /\ worker'[w].pc \in {"syncing", "closing"}
        /\ \A e \in 1..Len(effects) : e # worker[w].effect => effects'[e] = effects[e]
    BY <1>6 DEF Recorded
  <2>2. \A q \in wire : q.effect # worker[w].effect
    BY <2>1 DEF QueueInv, WireKnown
  <2>3. \A v \in Workers : worker[v].pc \in {"prepared", "sent"} =>
          worker[v].effect # worker[w].effect
    BY <2>1 DEF QueueInv, EffectsApart, Acting
  <2>4. \A v \in Workers : v # w => worker'[v] = worker[v]
    BY <1>0, <2>1, OnlyOther
  <2> QED BY <2>1, <2>2, <2>3, <2>4, FateKept
<1> QED BY <1>1, <1>2, <1>3, <1>4, <1>5, <1>6, WorkerStepCases

LEMMA FateNext == QueueInv /\ FateOpen /\ [RuntimeNext]_runtimeVars => FateOpen'
<1> SUFFICES ASSUME QueueInv, FateOpen, [RuntimeNext]_runtimeVars PROVE FateOpen'
  OBVIOUS
<1>1. CASE \/ Trigger \/ (\E q \in wire : LandOrphan(q)) \/ (\E n \in ForeignNames : SomebodyAdds(n))
           \/ Tick \/ UNCHANGED runtimeVars
  <2>1. effects' = effects /\ worker' = worker /\ wire' \subseteq wire
    BY <1>1, TriggerEffect DEF Triggered, PublishedAside, LandOrphan, SomebodyAdds, Tick, runtimeVars
  <2> QED BY <2>1, FateKept
<1> QED BY <1>1, WorkerKeepsFate DEF RuntimeNext, RuntimeStep

\* Whatever changes at the provider and is not somebody else's addition is what
\* an intent on record says, one whose outcome is not recorded yet or is unknown
\* (Prepare before the request, Finish after it): what was recorded as refused,
\* failed or done does not happen later, whatever crashed, was superseded or
\* answered late.
THEOREM DeliveriesAreIntended ==
  RuntimeSpec =>
    [][\A n \in Names : provider'[n] \notin {provider[n], Foreign, Late} =>
         \E e \in DOMAIN effects :
           /\ effects[e].name = n /\ effects[e].outcome \in {"open", "unknown"}
           /\ provider'[n] = IF effects[e].delete THEN 0 ELSE effects[e].rev]_runtimeVars
<1>1. RuntimeInit => FateOpen
  BY DEF RuntimeInit, FateOpen, Idle
<1>2. QueueInv /\ FateOpen /\ [RuntimeNext]_runtimeVars =>
        [\A n \in Names : provider'[n] \notin {provider[n], Foreign, Late} =>
           \E e \in DOMAIN effects :
             /\ effects[e].name = n /\ effects[e].outcome \in {"open", "unknown"}
             /\ provider'[n] = IF effects[e].delete THEN 0 ELSE effects[e].rev]_runtimeVars
  <2> SUFFICES ASSUME QueueInv, FateOpen, [RuntimeNext]_runtimeVars,
                      NEW n \in Names, provider'[n] \notin {provider[n], Foreign, Late}
               PROVE  \E e \in DOMAIN effects :
                        /\ effects[e].name = n /\ effects[e].outcome \in {"open", "unknown"}
                        /\ provider'[n] = IF effects[e].delete THEN 0 ELSE effects[e].rev
    OBVIOUS
  <2>1. PICK q \in wire : Lands(q)
    BY ProviderStep DEF Added
  <2>2. /\ q.effect \in DOMAIN effects /\ effects[q.effect].outcome \in {"open", "unknown"}
        /\ provider \in [Names -> Nat \cup {Foreign, Late}]
    BY EffectParts DEF QueueInv, RowsTypeOK, Indexed, FateOpen, Undecided
  <2>3. effects[q.effect].name = n
    BY <2>1, <2>2 DEF Lands
  <2>4. provider'[n] = IF effects[q.effect].delete THEN 0 ELSE effects[q.effect].rev
    BY <2>1, <2>2, <2>3 DEF Lands
  <2> QED BY <2>2, <2>3, <2>4
<1> QED BY <1>1, <1>2, FateNext, RuntimeInitQueue, QueueNext, PTL DEF RuntimeSpec
-----------------------------------------------------------------------------
(* What was delivered stays in custody while one process delivers.         *)

Ended == {"failed", "superseded"}
\* The target was torn down with its values left where they are, or its scrub failed.
LetGo ==
  /\ target.state = "tombstoned"
  /\ \A i \in 1..Len(jobs) : jobs[i].kind = "scrub" => jobs[i].state \in Ended

\* What is at the provider is claimed as written, or was let go.
DeliveredFirm ==
  \A n \in Names : Delivered(provider[n]) =>
    ledger[n] \in Firm \/ (ledger[n] = "released" /\ LetGo)

\* What the provider lease is about is claimed as written before it is sent.
LeaseFirm ==
  target.lease # NoLease =>
    /\ target.lease.effect \in 1..Len(effects)
    /\ ledger[effects[target.lease.effect].name] \in Firm

\* What an attempt of the present generation believes to be written is claimed.
SnapFirm(w) ==
  /\ \A n \in Names : worker[w].snap[n] # "released"
  /\ worker[w].pc \in Pulled /\ Job(w).gen = target.gen =>
       \A n \in Names \ worker[w].done : worker[w].snap[n] \in Firm => ledger[n] \in Firm

\* A write from a mere reservation has put nothing there unless it was applied.
ActingKnown(w) ==
  LET e == worker[w].effect
      n == effects[e].name
  IN  worker[w].pc \in Acting =>
        /\ worker[w].snap[n] \in Firm \/ (worker[w].snap[n] = "reserved" /\ ~effects[e].delete)
        /\ worker[w].pc = "replied" => worker[w].reply \in {"ok", "refused", "unknown", "unsent"}
        /\ /\ target.lease # NoLease /\ target.lease.effect = e /\ worker[w].snap[n] = "reserved"
           /\ worker[w].pc # "replied" \/ worker[w].reply \in {"refused", "unsent"}
           => ~Delivered(provider[n])

\* What a scrub has done with, or never had to do, is not claimed.
ScrubKnown(w) ==
  worker[w].pc # "idle" /\ Job(w).kind = "scrub" =>
    \A n \in Names :
      n \in worker[w].done \/ (worker[w].pc \in Pulled /\ worker[w].snap[n] = "none") =>
        ledger[n] \in Slack

\* After a scrub that succeeded nothing is there and nothing is under way.
ScrubDone ==
  (\E i \in 1..Len(jobs) : jobs[i].kind = "scrub" /\ jobs[i].state = "succeeded") =>
    /\ target.lease = NoLease /\ target.active = 0
    /\ \A n \in Names : ~Delivered(provider[n])

\* What an attempt knows of the claims.
AttemptKnown(w) == SnapFirm(w) /\ ActingKnown(w) /\ ScrubKnown(w)

CustodyInv ==
  /\ ReportInv /\ OneAttempt
  /\ DeliveredFirm /\ LeaseFirm /\ ScrubDone
  /\ \A w \in Workers : AttemptKnown(w)

LEMMA CustodyParts ==
  ASSUME CustodyInv
  PROVE  ReportInv /\ DeliveryInv /\ QueueInv /\ RowsTypeOK /\ ledger \in [Names -> Claims]
BY ReportParts DEF CustodyInv, RowsTypeOK

LEMMA RuntimeInitCustody == RuntimeInit => CustodyInv
<1> SUFFICES ASSUME RuntimeInit PROVE CustodyInv
  OBVIOUS
<1>1. /\ jobs = << >> /\ worker = [w \in Workers |-> Idle] /\ target.lease = NoLease
      /\ provider = [n \in Names |-> 0]
  BY DEF RuntimeInit
<1>2. /\ Len(jobs) = 0 /\ \A n \in Names : ~Delivered(provider[n])
      /\ \A w \in Workers : worker[w].pc = "idle" /\ \A n \in Names : worker[w].snap[n] = "none"
  BY <1>1 DEF Idle, Unclaimed, Delivered
<1>3. OneAttempt /\ DeliveredFirm /\ LeaseFirm /\ ScrubDone
  BY <1>1, <1>2 DEF OneAttempt, DeliveredFirm, LeaseFirm, ScrubDone
<1>4. \A w \in Workers : AttemptKnown(w)
  BY <1>2 DEF AttemptKnown, SnapFirm, ActingKnown, ScrubKnown, Pulled, Acting
<1> QED BY <1>3, <1>4, RuntimeInitReport DEF CustodyInv

\* An idle worker knows nothing.
LEMMA IdleKnows ==
  ASSUME NEW v \in Workers, worker'[v].pc = "idle", \A n \in Names : worker'[v].snap[n] # "released"
  PROVE  AttemptKnown(v)'
BY DEF AttemptKnown, SnapFirm, ActingKnown, ScrubKnown, Pulled, Acting

\* While w is in an attempt the others are idle.
LEMMA OthersIdle ==
  ASSUME CustodyInv, OneAttempt', NEW w \in Workers, Only(w),
         worker[w].pc # "idle" \/ worker'[w].pc # "idle"
  PROVE  \A v \in Workers : v # w => AttemptKnown(v)'
<1> SUFFICES ASSUME NEW v \in Workers, v # w PROVE AttemptKnown(v)'
  OBVIOUS
<1>1. worker'[v] = worker[v]
  BY CustodyParts, OnlyOther
<1>2. worker'[v].pc = "idle"
  BY <1>1 DEF CustodyInv, OneAttempt
<1>3. \A n \in Names : worker[v].snap[n] # "released"
  BY DEF CustodyInv, AttemptKnown, SnapFirm
<1> QED BY <1>1, <1>2, <1>3, IdleKnows

\* While a job is open or the lease is held no scrub has succeeded.
LEMMA NoScrubYet ==
  ASSUME CustodyInv, target.lease # NoLease \/ target.active # 0
  PROVE  \A i \in 1..Len(jobs) : ~(jobs[i].kind = "scrub" /\ jobs[i].state = "succeeded")
BY DEF CustodyInv, ScrubDone

LEMMA LetGoKept ==
  ASSUME RowsTypeOK, JobsKept, Len(jobs') = Len(jobs), target'.state = target.state, LetGo,
         \A i \in 1..Len(jobs) : jobs[i].state \in Ended => jobs'[i].state \in Ended
  PROVE  LetGo'
BY DEF LetGo, JobsKept

LEMMA TriggerKeepsCustody ==
  ASSUME CustodyInv, Trigger, OneAttempt'
  PROVE  CustodyInv'
<1>1. ReportInv /\ DeliveryInv /\ QueueInv /\ RowsTypeOK /\ ledger \in [Names -> Claims]
  BY CustodyParts
<1>2. ReportInv'
  BY <1>1, TriggerKeepsReport
<1>3. CASE PublishedAside
  <2>1. UNCHANGED <<target, jobs, effects, ledger, worker, provider>>
    BY <1>3 DEF PublishedAside
  <2>2. DeliveredFirm' /\ LeaseFirm' /\ ScrubDone'
    BY <2>1 DEF CustodyInv, DeliveredFirm, LeaseFirm, ScrubDone, LetGo
  <2>3. \A w \in Workers : AttemptKnown(w)'
    BY <2>1 DEF CustodyInv, AttemptKnown, SnapFirm, ActingKnown, ScrubKnown, Job
  <2> QED BY <1>2, <2>2, <2>3 DEF CustodyInv
<1>4. CASE Triggered
  <2>1. /\ UNCHANGED <<effects, worker, provider>> /\ JobsKept /\ target.state = "active"
        /\ Len(jobs') \in {Len(jobs), Len(jobs) + 1} /\ Len(jobs) \in Nat
        /\ target'.gen = target.gen + 1 /\ target.gen \in Nat
        /\ target'.lease = target.lease \/ target'.lease = NoLease
        /\ Len(jobs') = Len(jobs) => target'.lease = NoLease
        /\ Len(jobs') = Len(jobs) + 1 => Open(jobs'[Len(jobs')])
    BY <1>1, <1>4, JobParts, TargetParts DEF Triggered
  <2>2. \A i \in 1..Len(jobs) : jobs[i].kind # "scrub" /\ jobs'[i].kind # "scrub"
    BY <1>1, <2>1 DEF DeliveryInv, JobsAdmitted, JobsKept
  <2>3. \/ ledger' = ledger
        \/ /\ target'.state = "tombstoned" /\ Len(jobs') = Len(jobs)
           /\ \A n \in Names : ledger'[n] = ledger[n] \/ ledger'[n] = "released"
    BY <1>1, TriggerEffect
  <2>4. \A n \in Names : Delivered(provider[n]) => ledger[n] \in Firm
    BY <2>1 DEF CustodyInv, DeliveredFirm, LetGo
  <2>5. DeliveredFirm'
    <3>1. CASE ledger' = ledger
      BY <2>1, <2>4, <3>1 DEF DeliveredFirm
    <3>2. CASE /\ target'.state = "tombstoned" /\ Len(jobs') = Len(jobs)
               /\ \A n \in Names : ledger'[n] = ledger[n] \/ ledger'[n] = "released"
      <4>1. LetGo'
        BY <2>2, <3>2 DEF LetGo
      <4> QED BY <2>1, <2>4, <3>2, <4>1 DEF DeliveredFirm
    <3> QED BY <2>3, <3>1, <3>2
  <2>6. LeaseFirm'
    BY <2>1, <2>3 DEF CustodyInv, LeaseFirm
  <2>7. ScrubDone'
    <3>1. ASSUME NEW i \in 1..Len(jobs') PROVE ~(jobs'[i].kind = "scrub" /\ jobs'[i].state = "succeeded")
      <4>1. CASE i \in 1..Len(jobs)
        BY <2>2, <4>1
      <4>2. CASE i = Len(jobs') /\ Len(jobs') = Len(jobs) + 1
        BY <2>1, <4>2 DEF Open
      <4> QED BY <2>1, <4>1, <4>2
    <3> QED BY <3>1 DEF ScrubDone
  <2>8. ASSUME NEW w \in Workers PROVE AttemptKnown(w)'
    <3>1. AttemptKnown(w)
      BY DEF CustodyInv
    <3>2. worker[w].pc # "idle" =>
            /\ worker[w].job \in 1..Len(jobs) /\ Job(w)'.kind # "scrub" /\ Job(w)'.gen # target'.gen
      <4>1. ASSUME worker[w].pc # "idle" PROVE worker[w].job \in 1..Len(jobs)
        BY <1>1, <4>1 DEF QueueInv, Indexed
      <4>2. ASSUME worker[w].pc # "idle" PROVE Job(w).gen <= target.gen /\ Job(w).gen \in Nat
        BY <1>1, <4>1, <4>2, JobParts DEF DeliveryInv, JobsAdmitted, Job
      <4>3. ASSUME worker[w].pc # "idle" PROVE Job(w)'.gen = Job(w).gen
        BY <2>1, <4>1, <4>3 DEF JobsKept, Job
      <4> QED BY <2>1, <2>2, <4>1, <4>2, <4>3 DEF Job
    <3>3. SnapFirm(w)'
      BY <2>1, <3>1, <3>2 DEF AttemptKnown, SnapFirm, Pulled, Acting
    <3>4. ActingKnown(w)'
      BY <2>1, <3>1 DEF AttemptKnown, ActingKnown
    <3>5. ScrubKnown(w)'
      BY <2>1, <3>2 DEF ScrubKnown
    <3> QED BY <3>3, <3>4, <3>5 DEF AttemptKnown
  <2> QED BY <1>2, <2>5, <2>6, <2>7, <2>8 DEF CustodyInv
<1> QED BY <1>1, <1>3, <1>4, TriggerEffect

LEMMA OnwardKeepsCustody ==
  ASSUME CustodyInv, NEW w \in Workers, Onward(w), OneAttempt'
  PROVE  CustodyInv'
<1>1. ReportInv /\ DeliveryInv /\ QueueInv /\ RowsTypeOK /\ ledger \in [Names -> Claims]
  BY CustodyParts
<1>2. ReportInv' /\ \A v \in Workers : v # w => AttemptKnown(v)'
  BY <1>1, OnwardKeepsReport, OthersIdle DEF Onward
<1>3. /\ UNCHANGED <<jobs, effects, provider>> /\ target'.lease = target.lease
      /\ target'.state = target.state /\ target'.gen = target.gen /\ target'.active = target.active
      /\ worker[w].pc # "idle" /\ Minds(w) /\ Bookkeeps(w) /\ AttemptKnown(w)
  BY DEF Onward, TargetKept, CustodyInv
<1>4. \A n \in Names : ledger[n] \in Firm => ledger'[n] \in Firm
  BY <1>3 DEF Minds, Firm
<1>5. DeliveredFirm'
  <2>1. ASSUME NEW n \in Names, ledger[n] = "released", LetGo PROVE ledger'[n] = "released" /\ LetGo'
    BY <1>3, <2>1 DEF Minds, LetGo
  <2> QED BY <1>3, <1>4, <2>1 DEF CustodyInv, DeliveredFirm
<1>6. LeaseFirm'
  <2>1. \A e \in 1..Len(effects) : effects[e].name \in Names
    BY <1>1, EffectParts
  <2> QED BY <1>3, <1>4, <2>1 DEF CustodyInv, LeaseFirm
<1>7. ScrubDone'
  BY <1>3 DEF CustodyInv, ScrubDone
<1>8. worker'[w].pc # "idle" => Job(w)' = Job(w)
  BY <1>3 DEF Onward, Job
<1>9. SnapFirm(w)'
  <2>1. \A n \in Names : worker'[w].snap[n] # "released"
    BY <1>3 DEF Bookkeeps, AttemptKnown, SnapFirm
  <2>2. ASSUME worker'[w].pc \in Pulled, Job(w)'.gen = target'.gen, NEW n \in Names,
               n \notin worker'[w].done, worker'[w].snap[n] \in Firm
        PROVE  ledger'[n] \in Firm
    <3>1. Job(w).gen = target.gen
      BY <1>3, <1>8, <2>2 DEF Pulled, Acting
    <3>2. CASE /\ worker[w].pc \in Pulled /\ n \notin worker[w].done
               /\ worker'[w].snap[n] = worker[w].snap[n]
      BY <1>3, <1>4, <2>2, <3>1, <3>2 DEF AttemptKnown, SnapFirm
    <3> QED BY <1>3, <2>2, <3>2 DEF Minds
  <2> QED BY <2>1, <2>2 DEF SnapFirm
<1>10. ActingKnown(w)'
  <2>1. CASE worker'[w].pc \in Acting
    <3>1. /\ worker[w].pc = "prepared" /\ worker'[w].pc = "replied"
          /\ worker'[w].effect = worker[w].effect /\ worker'[w].reply = "unsent"
          /\ worker'[w].snap = worker[w].snap
      BY <1>3, <2>1 DEF Onward, Minds
    <3> QED BY <1>3, <3>1 DEF AttemptKnown, ActingKnown, Acting
  <2>2. CASE worker'[w].pc \notin Acting
    BY <2>2 DEF ActingKnown
  <2> QED BY <2>1, <2>2
<1>11. ScrubKnown(w)'
  <2>1. ASSUME worker'[w].pc # "idle", Job(w)'.kind = "scrub", NEW n \in Names,
               n \in worker'[w].done \/ (worker'[w].pc \in Pulled /\ worker'[w].snap[n] = "none")
        PROVE  ledger'[n] \in Slack
    <3>1. Job(w).kind = "scrub"
      BY <1>8, <2>1
    <3>2. \/ ledger'[n] \in Slack
          \/ n \in worker[w].done
          \/ worker[w].pc \in Pulled /\ worker[w].snap[n] = "none"
      BY <1>3, <2>1, <3>1 DEF Minds, Slack
    <3>3. ledger[n] \in Slack => ledger'[n] \in Slack
      BY <1>3, <3>1 DEF Minds
    <3> QED BY <1>3, <3>1, <3>2, <3>3 DEF AttemptKnown, ScrubKnown
  <2> QED BY <2>1 DEF ScrubKnown
<1>12. \A v \in Workers : AttemptKnown(v)'
  BY <1>2, <1>9, <1>10, <1>11 DEF AttemptKnown
<1> QED BY <1>2, <1>5, <1>6, <1>7, <1>12 DEF CustodyInv

LEMMA ClaimedKeepsCustody ==
  ASSUME CustodyInv, NEW w \in Workers, NEW i \in 1..Len(jobs), Claimed(w, i), OneAttempt'
  PROVE  CustodyInv'
<1>1. ReportInv /\ DeliveryInv /\ QueueInv /\ RowsTypeOK /\ ledger \in [Names -> Claims]
  BY CustodyParts
<1>2. ReportInv' /\ \A v \in Workers : v # w => AttemptKnown(v)'
  BY <1>1, ClaimedKeepsReport, OthersIdle DEF Claimed
<1>3. /\ UNCHANGED <<ledger, provider>> /\ JobsKept /\ Len(jobs') = Len(jobs)
      /\ EffectsKept /\ Len(effects') = Len(effects)
      /\ target'.lease = target.lease \/ target'.lease = NoLease
      /\ target'.state = target.state /\ target'.active = target.active
  BY DEF Claimed, TargetKept
<1>4. DeliveredFirm'
  <2>1. \A k \in 1..Len(jobs) : jobs[k].state \in Ended => jobs'[k].state \in Ended
    BY DEF Claimed, Open, Ended
  <2> QED BY <1>1, <1>3, <2>1, LetGoKept DEF CustodyInv, DeliveredFirm
<1>5. LeaseFirm'
  BY <1>3 DEF CustodyInv, LeaseFirm, EffectsKept
<1>6. ScrubDone'
  <2>1. ASSUME NEW k \in 1..Len(jobs'), jobs'[k].kind = "scrub", jobs'[k].state = "succeeded"
        PROVE  k \in 1..Len(jobs) /\ jobs[k].kind = "scrub" /\ jobs[k].state = "succeeded"
    BY <1>3, <2>1 DEF Claimed, JobsKept
  <2> QED BY <1>3, <2>1 DEF CustodyInv, ScrubDone
<1>7. AttemptKnown(w)'
  <2>1. worker'[w].pc = "claimed" /\ worker'[w].done = {} /\ worker'[w].snap = Unclaimed
    BY DEF Claimed
  <2> QED BY <2>1 DEF AttemptKnown, SnapFirm, ActingKnown, ScrubKnown, Pulled, Acting, Unclaimed
<1>8. \A v \in Workers : AttemptKnown(v)'
  BY <1>2, <1>7
<1> QED BY <1>2, <1>4, <1>5, <1>6, <1>8 DEF CustodyInv

\* Before an intent is written its name is claimed as written: a reservation
\* turns into such a claim, and what the attempt believes is so.
LEMMA PrepareClaims ==
  ASSUME CustodyInv, NEW w \in Workers, NEW n \in Names, Prepare(w, n)
  PROVE  /\ ledger'[n] \in Firm
         /\ \A m \in Names : ledger'[m] = ledger[m] \/ (m = n /\ ledger[n] = "reserved")
         /\ \/ worker[w].snap[n] \in Firm
            \/ worker[w].snap[n] = "reserved" /\ ledger[n] = "reserved" /\ n \in Desires(w)
<1>1. RowsTypeOK /\ ledger \in [Names -> Claims] /\ worker[w].snap \in [Names -> Claims]
  BY CustodyParts, WorkerParts
<1>2. /\ worker[w].pc = "syncing" /\ Custody(w)
      /\ Writes(w, n) \/ Prunes(w, n)
      /\ worker[w].snap[n] = "reserved" => ledger[n] = "reserved"
      /\ ledger' = IF worker[w].snap[n] = "reserved" THEN [ledger EXCEPT ![n] = "dispatched"] ELSE ledger
  BY DEF Prepare, Running, Snap
<1>3. /\ n \notin worker[w].done /\ worker[w].snap[n] # "none"
      /\ worker[w].snap[n] = "reserved" => n \in Desires(w)
  BY <1>2 DEF Writes, Prunes, Pending, Undesired, Snap
<1>4. SnapFirm(w) /\ Job(w).gen = target.gen
  BY <1>2 DEF CustodyInv, AttemptKnown, Custody
<1>5. CASE worker[w].snap[n] = "reserved"
  BY <1>1, <1>2, <1>3, <1>5 DEF Firm
<1>6. CASE worker[w].snap[n] # "reserved"
  <2>1. worker[w].snap[n] \in Firm
    BY <1>1, <1>3, <1>4, <1>6 DEF SnapFirm, Firm, Claims
  <2>2. ledger[n] \in Firm
    BY <1>2, <1>3, <1>4, <2>1 DEF SnapFirm, Pulled
  <2> QED BY <1>2, <1>6, <2>1, <2>2
<1> QED BY <1>5, <1>6

LEMMA IntendsKeepsCustody ==
  ASSUME CustodyInv, NEW w \in Workers, NEW n \in Names, Intends(w, n), Prepare(w, n), OneAttempt'
  PROVE  CustodyInv'
<1> DEFINE x == Len(effects) + 1
<1>1. ReportInv /\ DeliveryInv /\ QueueInv /\ RowsTypeOK /\ ledger \in [Names -> Claims]
      /\ Len(effects) \in Nat
  BY CustodyParts, EffectParts
<1>2. ReportInv' /\ \A v \in Workers : v # w => AttemptKnown(v)'
  BY <1>1, IntendsKeepsReport, OthersIdle DEF Intends
<1>3. /\ provider' = provider /\ JobsKept /\ Len(jobs') = Len(jobs) /\ Len(effects') = x
      /\ effects'[x].name = n /\ effects'[x].delete = (n \notin Desires(w))
      /\ target'.lease.effect = x /\ target'.state = target.state /\ target'.gen = target.gen
      /\ worker'[w].effect = x /\ worker'[w].snap = worker[w].snap
      /\ worker'[w].done = worker[w].done /\ worker'[w].job = worker[w].job
      /\ worker[w].pc = "syncing" /\ worker'[w].pc = "prepared" /\ Custody(w)
      /\ \A i \in 1..Len(jobs) : jobs'[i].state = jobs[i].state
  BY DEF Intends, TargetKept
<1>4. /\ ledger'[n] \in Firm
      /\ \A m \in Names : ledger'[m] = ledger[m] \/ (m = n /\ ledger[n] = "reserved")
      /\ \/ worker[w].snap[n] \in Firm
         \/ worker[w].snap[n] = "reserved" /\ ledger[n] = "reserved" /\ n \in Desires(w)
  BY PrepareClaims
<1>5. worker[w].job \in 1..Len(jobs) /\ Job(w)'.kind = Job(w).kind /\ Job(w)'.gen = Job(w).gen
  BY <1>1, <1>3 DEF QueueInv, Indexed, JobsKept, Job
<1>6. DeliveredFirm'
  BY <1>1, <1>3, <1>4, LetGoKept DEF CustodyInv, DeliveredFirm
<1>7. LeaseFirm'
  BY <1>1, <1>3, <1>4 DEF LeaseFirm
<1>8. ScrubDone'
  <2>1. target.active # 0
    <3>1. Open(jobs[worker[w].job])
      BY <1>3 DEF Custody, Job, Open
    <3> QED BY <1>1, <1>5, <3>1, OpenByNumber, JobParts
  <2> QED BY <1>3, <2>1, NoScrubYet DEF ScrubDone, JobsKept
<1>9. SnapFirm(w)'
  BY <1>3, <1>4, <1>5 DEF CustodyInv, AttemptKnown, SnapFirm, Pulled
<1>10. ActingKnown(w)'
  <2>1. worker[w].snap[n] = "reserved" => ~Delivered(provider[n])
    BY <1>4 DEF CustodyInv, DeliveredFirm, Firm
  <2> QED BY <1>3, <1>4, <2>1 DEF ActingKnown
<1>11. ScrubKnown(w)'
  BY <1>3, <1>4, <1>5 DEF CustodyInv, AttemptKnown, ScrubKnown, Slack, Pulled
<1>12. \A v \in Workers : AttemptKnown(v)'
  BY <1>2, <1>9, <1>10, <1>11 DEF AttemptKnown
<1> QED BY <1>2, <1>6, <1>7, <1>8, <1>12 DEF CustodyInv

LEMMA SendKeepsCustody ==
  ASSUME CustodyInv, NEW w \in Workers, Send(w), OneAttempt'
  PROVE  CustodyInv'
<1>1. ReportInv /\ DeliveryInv /\ QueueInv /\ RowsTypeOK
  BY CustodyParts
<1>2. /\ Only(w) /\ worker[w].pc = "prepared" /\ worker'[w].pc = "sent"
      /\ worker'[w].job = worker[w].job /\ worker'[w].effect = worker[w].effect
      /\ worker'[w].done = worker[w].done /\ worker'[w].snap = worker[w].snap
      /\ UNCHANGED <<target, jobs, effects, ledger, provider>>
  BY <1>1, SendEffect
<1>3. ReportInv' /\ \A v \in Workers : v # w => AttemptKnown(v)'
  BY <1>1, <1>2, SendKeepsReport, OthersIdle
<1>4. DeliveredFirm' /\ LeaseFirm' /\ ScrubDone'
  BY <1>2 DEF CustodyInv, DeliveredFirm, LeaseFirm, ScrubDone, LetGo
<1>5. AttemptKnown(w)'
  BY <1>2 DEF CustodyInv, AttemptKnown, SnapFirm, ActingKnown, ScrubKnown, Job, Pulled, Acting
<1>6. \A v \in Workers : AttemptKnown(v)'
  BY <1>3, <1>5
<1> QED BY <1>3, <1>4, <1>6 DEF CustodyInv

\* What lands is claimed as written.
LEMMA LandsClaimed ==
  ASSUME CustodyInv, NEW q \in wire, Lands(q), UNCHANGED <<target, jobs, effects, ledger>>
  PROVE  /\ DeliveredFirm' /\ LeaseFirm' /\ ScrubDone'
         /\ target.lease # NoLease /\ target.lease.effect = q.effect
         /\ \A n \in Names : n # effects[q.effect].name => provider'[n] = provider[n]
<1>1. QueueInv /\ RowsTypeOK /\ q.effect \in 1..Len(effects)
      /\ provider \in [Names -> Nat \cup {Foreign, Late}]
  BY CustodyParts DEF QueueInv, Indexed, RowsTypeOK
<1>2. target.lease # NoLease /\ target.lease.effect = q.effect
  BY <1>1 DEF QueueInv, WireKnown, Lands
<1>3. ledger[effects[q.effect].name] \in Firm
  BY <1>2 DEF CustodyInv, LeaseFirm
<1>4. \A n \in Names : n # effects[q.effect].name => provider'[n] = provider[n]
  BY <1>1 DEF Lands
<1>5. DeliveredFirm'
  BY <1>3, <1>4 DEF CustodyInv, DeliveredFirm, LetGo
<1>6. LeaseFirm'
  BY DEF CustodyInv, LeaseFirm
<1>7. ScrubDone'
  BY <1>2, NoScrubYet DEF ScrubDone
<1> QED BY <1>2, <1>4, <1>5, <1>6, <1>7

LEMMA RespondKeepsCustody ==
  ASSUME CustodyInv, NEW w \in Workers, NEW applied \in BOOLEAN, NEW seen \in BOOLEAN,
         Respond(w, applied, seen), OneAttempt'
  PROVE  CustodyInv'
<1>1. ReportInv /\ DeliveryInv /\ QueueInv /\ RowsTypeOK
  BY CustodyParts
<1>2. /\ Only(w) /\ worker[w].pc = "sent" /\ worker'[w].pc = "replied"
      /\ worker'[w].job = worker[w].job /\ worker'[w].effect = worker[w].effect
      /\ worker'[w].done = worker[w].done /\ worker'[w].snap = worker[w].snap
      /\ UNCHANGED <<target, jobs, effects, ledger>>
  BY <1>1, RespondEffect
<1>3. ReportInv' /\ \A v \in Workers : v # w => AttemptKnown(v)'
  BY <1>1, <1>2, RespondKeepsReport, OthersIdle
<1>4. PICK q \in wire :
        \/ Lands(q) /\ worker'[w].reply \in {"ok", "unknown"}
        \/ provider' = provider /\ worker'[w].reply \in {"refused", "unknown"}
  BY <1>1, RespondEffect
<1>5. DeliveredFirm' /\ LeaseFirm' /\ ScrubDone'
  <2>1. CASE Lands(q)
    BY <1>2, <2>1, LandsClaimed
  <2>2. CASE provider' = provider
    BY <1>2, <2>2 DEF CustodyInv, DeliveredFirm, LeaseFirm, ScrubDone, LetGo
  <2> QED BY <1>4, <2>1, <2>2
<1>6. SnapFirm(w)' /\ ScrubKnown(w)'
  BY <1>2 DEF CustodyInv, AttemptKnown, SnapFirm, ScrubKnown, Job, Pulled, Acting
<1>7. ActingKnown(w)'
  <2>1. CASE worker'[w].reply \in {"ok", "unknown"}
    BY <1>2, <2>1 DEF CustodyInv, AttemptKnown, ActingKnown, Acting
  <2>2. CASE provider' = provider /\ worker'[w].reply \in {"refused", "unknown"}
    BY <1>2, <2>2 DEF CustodyInv, AttemptKnown, ActingKnown, Acting
  <2> QED BY <1>4, <2>1, <2>2
<1>8. \A v \in Workers : AttemptKnown(v)'
  BY <1>3, <1>6, <1>7 DEF AttemptKnown
<1> QED BY <1>3, <1>5, <1>8 DEF CustodyInv

LEMMA LandOrphanKeepsCustody ==
  ASSUME CustodyInv, NEW q \in wire, LandOrphan(q), OneAttempt'
  PROVE  CustodyInv'
<1>1. ReportInv /\ DeliveryInv /\ QueueInv /\ RowsTypeOK
  BY CustodyParts
<1>2. /\ Lands(q) /\ UNCHANGED <<target, jobs, effects, ledger, worker>>
      /\ \A v \in Workers : ~(worker[v].pc = "sent" /\ worker[v].effect = q.effect)
  BY LandOrphanEffect DEF LandOrphan
<1>3. ReportInv'
  BY <1>1, LandOrphanKeepsReport
<1>4. /\ DeliveredFirm' /\ LeaseFirm' /\ ScrubDone'
      /\ target.lease # NoLease /\ target.lease.effect = q.effect
  BY <1>2, LandsClaimed
<1>5. ASSUME NEW v \in Workers PROVE AttemptKnown(v)'
  <2>1. worker[v].pc \in Acting => worker[v].effect # q.effect
    BY <1>1, <1>2 DEF QueueInv, WireKnown, Acting
  <2>2. ActingKnown(v)'
    BY <1>2, <1>4, <2>1 DEF CustodyInv, AttemptKnown, ActingKnown
  <2>3. SnapFirm(v)' /\ ScrubKnown(v)'
    BY <1>2 DEF CustodyInv, AttemptKnown, SnapFirm, ScrubKnown, Job
  <2> QED BY <2>2, <2>3 DEF AttemptKnown
<1> QED BY <1>3, <1>4, <1>5 DEF CustodyInv

\* An outcome leaves a claim wherever the write may be, and takes it back only
\* when nothing was put there or what was there is gone.
LEMMA RecordedClaims ==
  ASSUME CustodyInv, NEW w \in Workers, Recorded(w), worker[w].effect \in 1..Len(effects),
         NEW n \in Names, n = effects[worker[w].effect].name
  PROVE  /\ ledger[n] \in Firm
         /\ Delivered(provider[n]) => ledger'[n] \in Firm
         /\ worker[w].reply = "ok" /\ effects[worker[w].effect].delete => ledger'[n] = "released"
<1> DEFINE f == worker[w].effect
           s == worker[w].snap[n]
           a == worker[w].reply
<1>1. worker[w].pc = "replied" /\ target.lease # NoLease /\ target.lease.effect = f
  BY DEF Recorded
<1>2. ledger[n] \in Firm
  BY <1>1 DEF CustodyInv, LeaseFirm
<1>3. ledger'[n] = Completion(effects[f], a, s)
  BY <1>2 DEF Recorded, Firm
<1>4. /\ s \in Firm \/ (s = "reserved" /\ ~effects[f].delete)
      /\ a \in {"ok", "refused", "unknown", "unsent"}
      /\ s = "reserved" /\ a \in {"refused", "unsent"} => ~Delivered(provider[n])
  BY <1>1 DEF CustodyInv, AttemptKnown, ActingKnown, Acting
<1>5. a = "ok" /\ effects[f].delete => ~Delivered(provider[n])
  BY <1>1 DEF CustodyInv, ReportInv, AckTrue, Holds
<1>6. effects[f].delete \in BOOLEAN
  BY CustodyParts, EffectParts
<1> HIDE DEF s, a
<1>7. a = "ok" /\ effects[f].delete => ledger'[n] = "released"
  BY <1>3 DEF Completion
<1>8. CASE a = "ok"
  <2>1. ledger'[n] = IF effects[f].delete THEN "released" ELSE "owned"
    BY <1>3, <1>8 DEF Completion
  <2> QED BY <1>2, <1>5, <1>7, <1>8, <2>1 DEF Firm, a
<1>9. CASE a = "unknown"
  <2>1. ledger'[n] = IF effects[f].delete THEN s ELSE "dispatched"
    BY <1>3, <1>9 DEF Completion
  <2> QED BY <1>2, <1>4, <1>9, <2>1 DEF Firm, a
<1>10. CASE a \in {"refused", "unsent"}
  <2>1. s \in Firm => ledger'[n] = s
    BY <1>3, <1>10 DEF Completion, Firm
  <2> QED BY <1>2, <1>4, <1>10, <2>1 DEF Firm, a
<1> QED BY <1>4, <1>8, <1>9, <1>10

LEMMA RecordedKeepsCustody ==
  ASSUME CustodyInv, NEW w \in Workers, Recorded(w), OneAttempt'
  PROVE  CustodyInv'
<1> DEFINE f == worker[w].effect
           n == effects[f].name
<1>1. ReportInv /\ DeliveryInv /\ QueueInv /\ RowsTypeOK
  BY CustodyParts
<1>2. /\ Only(w) /\ worker[w].pc = "replied" /\ worker'[w].pc \in {"syncing", "closing"}
      /\ UNCHANGED <<jobs, provider>> /\ target'.lease = NoLease
      /\ target'.gen = target.gen /\ target'.state = target.state
      /\ worker'[w].job = worker[w].job
      /\ worker'[w].pc = "closing" => worker'[w].done = worker[w].done
      /\ worker'[w].pc = "syncing" => worker'[w].done = worker[w].done \cup {n} /\ worker[w].reply = "ok"
      /\ \A m \in Names : m # n => worker'[w].snap[m] = worker[w].snap[m] /\ ledger'[m] = ledger[m]
      /\ worker'[w].snap[n] \in {worker[w].snap[n], "owned"}
      /\ target.lease # NoLease
  BY DEF Recorded, TargetKept
<1>3. ReportInv' /\ \A v \in Workers : v # w => AttemptKnown(v)'
  BY <1>1, <1>2, RecordedKeepsReport, OthersIdle
<1>4. f \in 1..Len(effects) /\ n \in Names
  BY <1>1, <1>2, EffectParts DEF QueueInv, Indexed, Acting
<1>5. /\ ledger[n] \in Firm
      /\ Delivered(provider[n]) => ledger'[n] \in Firm
      /\ worker[w].reply = "ok" /\ effects[f].delete => ledger'[n] = "released"
  BY <1>4, RecordedClaims
<1>6. Job(w)' = Job(w) /\ worker[w].job \in 1..Len(jobs) /\ AttemptKnown(w)
  BY <1>1, <1>2 DEF QueueInv, Indexed, Job, CustodyInv
<1>7. Job(w).kind = "scrub" => effects[f].delete
  <2>1. effects[f].job = worker[w].job /\ IntentKnown(f)
    BY <1>1, <1>2, <1>4 DEF DeliveryInv, RevisionKnown, Acting
  <2> QED BY <2>1 DEF IntentKnown, JobOf, Job
<1> HIDE DEF n, f
<1>8. DeliveredFirm'
  <2>1. ASSUME NEW m \in Names, Delivered(provider[m])
        PROVE  ledger'[m] \in Firm \/ (ledger'[m] = "released" /\ LetGo')
    <3>1. CASE m = n
      BY <1>5, <2>1, <3>1
    <3>2. CASE m # n
      BY <1>2, <2>1, <3>2 DEF CustodyInv, DeliveredFirm, LetGo
    <3> QED BY <3>1, <3>2
  <2> QED BY <1>2, <2>1 DEF DeliveredFirm
<1>9. LeaseFirm' /\ ScrubDone'
  BY <1>2, NoScrubYet DEF LeaseFirm, ScrubDone
<1>10. SnapFirm(w)'
  <2>1. \A m \in Names : worker'[w].snap[m] # "released"
    BY <1>2, <1>6 DEF AttemptKnown, SnapFirm
  <2>2. ASSUME worker'[w].pc \in Pulled, Job(w)'.gen = target'.gen, NEW m \in Names,
               m \notin worker'[w].done, worker'[w].snap[m] \in Firm
        PROVE  ledger'[m] \in Firm
    <3>1. worker'[w].pc = "syncing" /\ m # n /\ m \notin worker[w].done
      BY <1>2, <2>2 DEF Pulled, Acting
    <3> QED BY <1>2, <1>6, <2>2, <3>1 DEF AttemptKnown, SnapFirm, Pulled, Acting
  <2> QED BY <2>1, <2>2 DEF SnapFirm
<1>11. ActingKnown(w)'
  BY <1>2 DEF ActingKnown, Acting
<1>12. ScrubKnown(w)'
  <2>1. ASSUME Job(w).kind = "scrub", NEW m \in Names,
               m \in worker'[w].done \/ (worker'[w].pc \in Pulled /\ worker'[w].snap[m] = "none")
        PROVE  ledger'[m] \in Slack
    <3>1. CASE m = n
      <4>1. n \notin worker[w].done
        BY <1>2, <1>4, <1>5, <1>6, <2>1 DEF AttemptKnown, ScrubKnown, Slack, Firm
      <4>2. worker'[w].pc = "syncing"
        BY <1>2, <2>1, <3>1, <4>1 DEF Pulled, Acting
      <4> QED BY <1>2, <1>5, <1>7, <2>1, <3>1, <4>2 DEF Slack
    <3>2. CASE m # n
      <4>1. m \in worker[w].done \/ (worker[w].pc \in Pulled /\ worker[w].snap[m] = "none")
        BY <1>2, <2>1, <3>2 DEF Pulled, Acting
      <4> QED BY <1>2, <1>6, <2>1, <3>2, <4>1 DEF AttemptKnown, ScrubKnown
    <3> QED BY <3>1, <3>2
  <2> QED BY <1>6, <2>1 DEF ScrubKnown
<1>13. \A v \in Workers : AttemptKnown(v)'
  BY <1>3, <1>10, <1>11, <1>12 DEF AttemptKnown
<1> QED BY <1>3, <1>8, <1>9, <1>13 DEF CustodyInv

\* A scrub that succeeds leaves nothing: it has done with every name it loaded.
LEMMA ScrubSucceeds ==
  ASSUME CustodyInv, NEW w \in Workers, Succeed(w), Job(w).kind = "scrub",
         worker[w].job \in 1..Len(jobs)
  PROVE  target.lease = NoLease /\ \A n \in Names : ~Delivered(provider[n])
<1>1. worker[w].pc = "syncing" /\ Undesired(w) = {} /\ target.lease = NoLease
  BY DEF Succeed, Settles
<1>2. ~LetGo
  <2>1. Job(w).state = "running"
    BY CustodyParts, WorkersAssumption DEF Succeed, Settles, QueueInv, OwnedIsRunning, Job
  <2> QED BY <2>1 DEF LetGo, Job, Ended
<1>3. ASSUME NEW n \in Names PROVE ledger[n] \in Slack
  <2>1. n \in worker[w].done \/ worker[w].snap[n] = "none"
    BY <1>1 DEF Undesired, Desires, Snap
  <2> QED BY <1>1, <2>1 DEF CustodyInv, AttemptKnown, ScrubKnown, Pulled
<1> QED BY <1>1, <1>2, <1>3 DEF CustodyInv, DeliveredFirm, Firm, Slack

LEMMA SettledKeepsCustody ==
  ASSUME CustodyInv, NEW w \in Workers, Settled(w), worker[w].job \in 1..Len(jobs),
         worker[w].job = target.active, OneAttempt'
  PROVE  CustodyInv'
<1>1. ReportInv /\ DeliveryInv /\ QueueInv /\ RowsTypeOK /\ target.active # 0
  BY CustodyParts, JobParts
<1>2. /\ Only(w) /\ worker[w].pc # "idle" /\ worker'[w] = Idle
      /\ UNCHANGED <<effects, provider>> /\ target'.lease = target.lease
      /\ ledger' = ledger \/ Drops(w)
      /\ target'.state = target.state /\ JobsKept /\ Len(jobs') = Len(jobs)
      /\ \A i \in 1..Len(jobs) : i # worker[w].job => jobs'[i] = jobs[i]
      /\ jobs'[worker[w].job].state = "succeeded" => Succeed(w) /\ target'.active = 0
  BY DEF Settled, Open
<1>3. ReportInv' /\ \A v \in Workers : v # w => AttemptKnown(v)'
  BY <1>1, <1>2, SettledKeepsReport, OthersIdle
<1>4. DeliveredFirm' /\ LeaseFirm'
  <2>1. CASE ledger' = ledger
    <3>1. \A i \in 1..Len(jobs) : jobs[i].state \in Ended => jobs'[i].state \in Ended
      <4>1. Job(w).state = "running"
        BY <1>1, WorkersAssumption DEF Settled, QueueInv, OwnedIsRunning, Job
      <4> QED BY <1>2, <4>1 DEF Job, Ended
    <3> QED BY <1>1, <1>2, <2>1, <3>1, LetGoKept DEF CustodyInv, DeliveredFirm, LeaseFirm
  <2>2. CASE Drops(w)
    <3>1. /\ target.state = "tombstoned" /\ target.lease = NoLease
          /\ jobs'[worker[w].job].state = "failed"
          /\ \A n \in Names : ledger'[n] = IF ledger[n] = "none" THEN "none" ELSE "released"
      BY <1>1, <2>2 DEF Drops, DeliveryInv, JobsAdmitted, Job
    <3>2. \A i \in 1..Len(jobs) : jobs[i].kind = "scrub" => i = worker[w].job \/ jobs[i].state \in Ended
      <4>1. ASSUME NEW i \in 1..Len(jobs), jobs[i].kind = "scrub", i # worker[w].job
            PROVE  ~Open(jobs[i]) /\ jobs[i].state # "succeeded"
        BY <1>1, <4>1, OpenByNumber, NoScrubYet
      <4> QED BY <1>1, <4>1, JobParts DEF Open, Ended
    <3>3. LetGo'
      BY <1>2, <3>1, <3>2 DEF LetGo, JobsKept, Ended
    <3>4. \A n \in Names : Delivered(provider[n]) => ledger[n] # "none"
      BY DEF CustodyInv, DeliveredFirm, Firm
    <3> QED BY <1>2, <3>1, <3>3, <3>4 DEF DeliveredFirm, LeaseFirm
  <2> QED BY <1>2, <2>1, <2>2
<1>6. ScrubDone'
  <2>1. ASSUME NEW i \in 1..Len(jobs'), jobs'[i].kind = "scrub", jobs'[i].state = "succeeded"
        PROVE  Succeed(w) /\ Job(w).kind = "scrub" /\ target'.active = 0
    <3>1. i = worker[w].job
      BY <1>1, <1>2, <2>1, NoScrubYet
    <3> QED BY <1>2, <2>1, <3>1 DEF JobsKept, Job
  <2> QED BY <1>2, <2>1, ScrubSucceeds DEF ScrubDone
<1>7. AttemptKnown(w)'
  BY <1>2, IdleKnows DEF Idle, Unclaimed
<1>8. \A v \in Workers : AttemptKnown(v)'
  BY <1>3, <1>7
<1> QED BY <1>3, <1>4, <1>6, <1>8 DEF CustodyInv

LEMMA AddedKeepsCustody ==
  ASSUME CustodyInv, Added
  PROVE  CustodyInv'
<1>1. /\ ReportInv /\ QueueInv /\ RowsTypeOK
      /\ UNCHANGED <<revision, target, jobs, effects, ledger, worker, wire, now>>
  BY CustodyParts DEF Added
<1>2. \A n \in Names : Delivered(provider[n])' => Delivered(provider[n])
  BY AddedDelivers DEF Delivered
<1>3. OneAttempt' /\ DeliveredFirm' /\ LeaseFirm' /\ ScrubDone'
  BY <1>1, <1>2 DEF CustodyInv, OneAttempt, DeliveredFirm, LeaseFirm, ScrubDone, LetGo
<1>4. ASSUME NEW w \in Workers PROVE AttemptKnown(w)'
  <2>1. worker[w].pc \in Acting => effects[worker[w].effect].name \in Names
    BY <1>1, EffectParts DEF QueueInv, Indexed
  <2>2. ActingKnown(w)'
    BY <1>1, <1>2, <2>1 DEF CustodyInv, AttemptKnown, ActingKnown
  <2>3. SnapFirm(w)' /\ ScrubKnown(w)'
    BY <1>1 DEF CustodyInv, AttemptKnown, SnapFirm, ScrubKnown, Job
  <2> QED BY <2>2, <2>3 DEF AttemptKnown
<1> QED BY <1>1, <1>3, <1>4, AddedKeepsReport DEF CustodyInv

LEMMA CustodyNext == CustodyInv /\ [RuntimeNext]_runtimeVars /\ OneAttempt' => CustodyInv'
<1> SUFFICES ASSUME CustodyInv, [RuntimeNext]_runtimeVars, OneAttempt' PROVE CustodyInv'
  OBVIOUS
<1>1. ReportInv /\ QueueInv
  BY CustodyParts
<1>2. CASE Tick \/ UNCHANGED runtimeVars
  <2>1. UNCHANGED <<target, jobs, effects, ledger, worker, provider>>
    BY <1>2 DEF Tick, runtimeVars
  <2>2. ReportInv'
    BY <1>1, ReportNext
  <2>3. OneAttempt' /\ DeliveredFirm' /\ LeaseFirm' /\ ScrubDone'
    BY <2>1 DEF CustodyInv, OneAttempt, DeliveredFirm, LeaseFirm, ScrubDone, LetGo
  <2>4. \A w \in Workers : AttemptKnown(w)'
    BY <2>1 DEF CustodyInv, AttemptKnown, SnapFirm, ActingKnown, ScrubKnown, Job
  <2> QED BY <2>2, <2>3, <2>4 DEF CustodyInv
<1>3. CASE RuntimeStep
  <2>1. ASSUME NEW w \in Workers, WorkerStep(w) PROVE CustodyInv'
    BY <1>1, <1>3, <2>1, WorkerStepCases, OnwardKeepsCustody, ClaimedKeepsCustody,
       IntendsKeepsCustody, SendKeepsCustody, RespondKeepsCustody, RecordedKeepsCustody,
       SettledKeepsCustody
  <2>2. ASSUME NEW n \in ForeignNames, SomebodyAdds(n) PROVE CustodyInv'
    BY <1>1, <2>2, AddedEffect, AddedKeepsCustody
  <2> QED BY <1>2, <1>3, <2>1, <2>2, TriggerKeepsCustody, LandOrphanKeepsCustody DEF RuntimeStep
<1> QED BY <1>2, <1>3 DEF RuntimeNext

LEMMA CustodyMeans == CustodyInv => CustodySound
<1> SUFFICES ASSUME CustodyInv PROVE DeliveredIsClaimed /\ ScrubLeavesNothing
  BY DEF CustodySound
<1>1. DeliveredIsClaimed
  BY DEF CustodyInv, DeliveredFirm, DeliveredIsClaimed, Firm
<1>2. ScrubLeavesNothing
  BY CustodyParts, JobParts DEF CustodyInv, ScrubDone, ScrubLeavesNothing
<1> QED BY <1>1, <1>2

\* Where one process delivers, and so attempts do not overlap, what was delivered
\* stays in custody: every value of ours at the provider is claimed in the ledger,
\* whatever answer is lost and whatever attempt crashes, and none is left once a
\* scrub has succeeded.
THEOREM CustodyAlwaysSound == RuntimeSpec => []CustodyKept
<1>1. (solo => CustodyInv) /\ [RuntimeNext]_runtimeVars => (solo => CustodyInv)'
  <2> SUFFICES ASSUME solo => CustodyInv, [RuntimeNext]_runtimeVars, solo' PROVE CustodyInv'
    OBVIOUS
  <2>1. CustodyInv
    BY DEF RuntimeNext, runtimeVars
  <2>2. OneAttempt'
    BY <2>1 DEF RuntimeNext, runtimeVars, CustodyInv, OneAttempt
  <2> QED BY <2>1, <2>2, CustodyNext
<1>2. (solo => CustodyInv) => CustodyKept
  BY CustodyMeans DEF CustodyKept
<1> QED BY <1>1, <1>2, RuntimeInitCustody, PTL DEF RuntimeSpec

\* Several nodes keep custody as well for as long as their attempts happen not to
\* overlap: the overlap, not the number of nodes, is what breaks it.
THEOREM CustodyWithoutOverlap == RuntimeSpec /\ []OneAttempt => []CustodySound
<1> QED BY RuntimeInitCustody, CustodyNext, CustodyMeans, PTL DEF RuntimeSpec
=============================================================================
