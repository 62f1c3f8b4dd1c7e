------------------------------ MODULE FileSync ------------------------------
(***************************************************************************)
(* `hikyo file-sync`: passes of one client (cli/file_sync.go) that publish *)
(* a set of files into a destination directory as one generation           *)
(* (filesync/publish.go), with crashes, I/O errors and power losses at     *)
(* every step, readers, and a user who edits the same directory.           *)
(*                                                                         *)
(* The directory lock admits one pass at a time.  What the kernel holds    *)
(* (`fsys`) and what a power loss keeps (`disk`) differ until a sync.  A   *)
(* generation's files are all rendered from one server revision; a file's  *)
(* bytes are the value of that revision.                                   *)
(***************************************************************************)
EXTENDS Integers, FiniteSets

CONSTANTS FileNames,    \* file names that may be configured
          Policies,     \* values of destination.on_removed in use
          Value,        \* Value[r]: what revision r renders to
          MaxRev,       \* bound: revisions the server reaches
          MaxGen,       \* bound: generations staged
          Faults,       \* kinds of fault: "stop" (crash or error), "power"
          MaxFaults,    \* bound: faults
          MaxEdits,     \* bound: configuration edits
          FirstUse,     \* the destination has not been claimed yet
          UserEdits     \* a user moves files of their own in and out

ASSUME FileSyncAssumption ==
  /\ Policies \subseteq {"refuse", "retain", "prune"} /\ Faults \subseteq {"stop", "power"}
  /\ MaxRev \in Nat \ {0} /\ MaxGen \in Nat /\ MaxFaults \in Nat /\ MaxEdits \in Nat
  /\ FirstUse \in BOOLEAN /\ UserEdits \in BOOLEAN

VARIABLES fsys,     \* the directory: generations, `current`, the entry of each name
          disk,     \* what of it survives a power loss
          binding,  \* .hikyo-gen/binding
          config,   \* hikyo-file-sync.yaml
          rev,      \* the server's revision
          cursor,   \* the saved cursor record
          snap,     \* revision of the saved snapshot, 0 for none
          proc,     \* the pass under way
          nextGen, faults, edits,
          reader    \* one reader of a set: what it resolved, swaps since then

vars == <<fsys, disk, binding, config, rev, cursor, snap, proc, nextGen, faults, edits, reader>>

Gens    == 1..MaxGen
Revs    == 1..MaxRev
Configs == [files : SUBSET FileNames \ {{}}, onRemoved : Policies]
Stamps  == [files : SUBSET FileNames, val : {Value[r] : r \in Revs}]

(* A generation: torn has no .complete, a husk has the marker and lacks files. *)
NoGen == [state |-> "none", stamp |-> [files |-> {}, val |-> 0], prev |-> 0]
NoPass == [pc |-> "idle", config |-> [files |-> {}, onRemoved |-> "refuse"], rev |-> 0,
           live |-> FALSE, old |-> 0, new |-> 0, removed |-> {}, todo |-> {}, checked |-> {},
           created |-> FALSE]
NoCursor == [rev |-> 0, config |-> NoPass.config, stamp |-> NoGen.stamp]

Complete(d, g) == g \in Gens /\ d.gen[g].state = "complete"
Files(d, g)    == IF g \in Gens THEN d.gen[g].stamp.files ELSE {}
Ours(n)        == fsys.link[n] = "ours"                \* linkIsOurs
Unmanaged(n)   == fsys.link[n] \in {"foreign", "kept"}

Readable(d, n) == \/ d.link[n] \in {"foreign", "kept"}
                  \/ d.link[n] = "ours" /\ Complete(d, d.current) /\ n \in Files(d, d.current)

\* syncDir of .hikyo-gen and of the destination itself.
GenSynced(f) == [disk EXCEPT !.gen = f.gen, !.current = f.current]
TopSynced(f) == [disk EXCEPT !.link = f.link]

Stamp(p) == [files |-> p.config.files, val |-> Value[p.rev]]

-----------------------------------------------------------------------------
Init ==
  /\ fsys = [gen |-> [g \in Gens |-> NoGen], current |-> 0, link |-> [n \in FileNames |-> "none"]]
  /\ disk = fsys
  /\ binding = IF FirstUse THEN "none" ELSE "ours"
  /\ config \in Configs
  /\ rev = 1 /\ cursor = NoCursor /\ snap = 0
  /\ proc = NoPass
  /\ nextGen = 1 /\ faults = 0 /\ edits = 0
  /\ reader = [gen |-> 0, behind |-> 0]

Env  == <<config, rev, nextGen, faults, edits>>
Rest == <<binding, cursor, snap, reader, config, rev, faults, edits>>

-----------------------------------------------------------------------------
(* Intact: every configured name links to a current generation that still  *)
(* has its stamp.                                                          *)
Intact == /\ Complete(fsys, fsys.current)
          /\ Files(fsys, fsys.current) = config.files
          /\ \A n \in config.files : Ours(n)

(* The cursor is presented when credential, configuration and destination match. *)
Presented == /\ cursor.rev # 0 /\ cursor.config = config /\ Intact
             /\ fsys.gen[fsys.current].stamp = cursor.stamp

(* "up to date": the cursor's revision is still the server's. *)
ClaimsCurrent == Presented /\ cursor.rev = rev

(* A delivery answered with rows, or the snapshot while the server is away. *)
StartPass(live) ==
  /\ proc = NoPass
  /\ IF live THEN ~ClaimsCurrent ELSE snap # 0
  /\ proc' = [NoPass EXCEPT !.pc = "claim", !.live = live, !.config = config,
                            !.rev = IF live THEN rev ELSE snap]
  /\ UNCHANGED <<fsys, disk, nextGen, Rest>>

(* claimBinding: the directory, then its record, created and then written. *)
ClaimBinding ==
  /\ proc.pc = "claim"
  /\ CASE binding = "none"  -> binding' = "dir" /\ UNCHANGED proc
       [] binding = "dir"   -> binding' = "empty" /\ proc' = [proc EXCEPT !.pc = "claiming"]
       [] binding = "empty" -> proc' = NoPass /\ UNCHANGED binding        \* ErrBinding
       [] binding = "ours"  -> proc' = [proc EXCEPT !.pc = "preflight"] /\ UNCHANGED binding
  /\ UNCHANGED <<fsys, disk, cursor, snap, reader, Env>>

WriteBinding ==
  /\ proc.pc = "claiming"
  /\ binding' = "ours"
  /\ proc' = [proc EXCEPT !.pc = "preflight"]
  /\ UNCHANGED <<fsys, disk, cursor, snap, reader, Env>>

(* recover: what a crash left without its marker, unless `current` names it. *)
Recovered == [fsys EXCEPT !.gen = [g \in Gens |->
                IF g # fsys.current /\ fsys.gen[g].state = "torn" THEN NoGen ELSE fsys.gen[g]]]

\* Mutation: only the current manifest says what was removed.
RemovedManifest(p) == Files(fsys, fsys.current) \ p.config.files

(* What an earlier publication left that this one drops: by the current    *)
(* manifest, and by managed links whose prune was interrupted.             *)
Removed(p) == (Files(fsys, fsys.current) \cup {n \in FileNames : Ours(n)}) \ p.config.files

\* Mutation: a retry does not look up the predecessor.
ReuseNoPredecessor(p) ==
  [p EXCEPT !.pc = "links", !.new = fsys.current, !.old = 0, !.todo = p.config.files]

(* An identical generation is reused and its cleanup done again. *)
Reuse(p) ==
  [p EXCEPT !.pc = "links", !.new = fsys.current, !.todo = p.config.files,
            !.old = fsys.gen[fsys.current].prev]

(* Publish up to staging: recover, preflight, on_removed, reuse or stage. *)
Preflight ==
  /\ proc.pc = "preflight"
  /\ fsys' = Recovered
  /\ LET p == [proc EXCEPT !.removed = Removed(proc), !.old = fsys.current]
     IN CASE (\E n \in p.config.files : Unmanaged(n)) -> proc' = NoPass        \* ErrForeign
          [] (\A n \in p.config.files : ~Unmanaged(n))
             /\ p.removed # {} /\ p.config.onRemoved = "refuse" -> proc' = NoPass  \* ErrRemoved
          [] OTHER -> proc' = IF /\ Complete(fsys, fsys.current)
                                 /\ fsys.gen[fsys.current].stamp = Stamp(p)
                              THEN Reuse(p) ELSE [p EXCEPT !.pc = "stage"]
  /\ UNCHANGED <<disk, nextGen, Rest>>

-----------------------------------------------------------------------------
Stage ==
  /\ proc.pc = "stage"
  /\ nextGen <= MaxGen
  /\ nextGen' = nextGen + 1
  /\ fsys' = [fsys EXCEPT !.gen[nextGen] =
                [state |-> "torn", stamp |-> Stamp(proc), prev |-> proc.old]]
  /\ proc' = [proc EXCEPT !.pc = "staging", !.new = nextGen]
  /\ UNCHANGED <<disk, Rest>>

\* .complete is written and both directories are synced.
Marked == [fsys EXCEPT !.gen[proc.new].state = "complete"]

\* Mutation: the generation is not synced before it may be swapped in.
StagedUnsynced ==
  /\ proc.pc = "staging"
  /\ fsys' = Marked
  /\ proc' = [proc EXCEPT !.pc = "retain",
                          !.todo = IF proc.config.onRemoved = "retain" THEN proc.removed ELSE {}]
  /\ UNCHANGED <<disk, nextGen, Rest>>

Staged ==
  /\ proc.pc = "staging"
  /\ fsys' = Marked /\ disk' = GenSynced(Marked)
  /\ proc' = [proc EXCEPT !.pc = "retain",
                          !.todo = IF proc.config.onRemoved = "retain" THEN proc.removed ELSE {}]
  /\ UNCHANGED <<nextGen, Rest>>

Fault(kind) == kind \in Faults /\ faults < MaxFaults /\ faults' = faults + 1

(* A full disk or a refused chown, or a context cancelled when all was     *)
(* staged: the new generation is removed.                                  *)
StageFails ==
  /\ proc.pc = "staging"
  /\ Fault("stop")
  /\ fsys' = [fsys EXCEPT !.gen[proc.new] = NoGen]
  /\ disk' \in {disk, GenSynced(Marked)}
  /\ proc' = NoPass
  /\ UNCHANGED <<binding, config, rev, cursor, snap, nextGen, edits, reader>>

(* retain: a name that is no longer ours is skipped, one that the old      *)
(* generation does not hold fails the publication.                         *)
RetainCheck(n) ==
  /\ proc.pc = "retain" /\ n \in proc.todo /\ proc.checked = {}
  /\ proc' = IF ~Ours(n) THEN [proc EXCEPT !.todo = @ \ {n}]
             ELSE IF n \in Files(fsys, proc.old) THEN [proc EXCEPT !.checked = {n}]
             ELSE NoPass
  /\ UNCHANGED <<fsys, disk, nextGen, Rest>>

\* Mutation: the retained copy is not synced before the swap.
RetainRenameUnsynced(n) ==
  /\ proc.pc = "retain" /\ n \in proc.checked
  /\ fsys' = [fsys EXCEPT !.link[n] = "kept"]
  /\ proc' = [proc EXCEPT !.todo = @ \ {n}, !.checked = {}]
  /\ UNCHANGED <<disk, nextGen, Rest>>

(* The copy is renamed over the name, whatever the name is by now, and the *)
(* directory is synced.  A retry after a stop between the two finds the    *)
(* name not ours and does not sync it.                                     *)
RetainRename(n) ==
  /\ proc.pc = "retain" /\ n \in proc.checked
  /\ fsys' = [fsys EXCEPT !.link[n] = "kept"]
  /\ proc' = [proc EXCEPT !.pc = "renamed", !.todo = @ \ {n}, !.checked = {}]
  /\ UNCHANGED <<disk, nextGen, Rest>>

RetainSynced ==
  /\ proc.pc = "renamed"
  /\ disk' = TopSynced(fsys)
  /\ proc' = [proc EXCEPT !.pc = "retain"]
  /\ UNCHANGED <<fsys, nextGen, Rest>>

(* swapCurrent, the commit point: a rename, and then its sync. *)
Swap ==
  /\ proc.pc = "retain" /\ proc.todo = {}
  /\ fsys' = [fsys EXCEPT !.current = proc.new]
  /\ reader' = IF reader.gen # 0 /\ reader.behind < 2
               THEN [reader EXCEPT !.behind = @ + 1] ELSE reader
  /\ proc' = [proc EXCEPT !.pc = "swapped"]
  /\ UNCHANGED <<disk, binding, cursor, snap, Env>>

SwapSynced ==
  /\ proc.pc = "swapped"
  /\ disk' = GenSynced(fsys)
  /\ proc' = [proc EXCEPT !.pc = "links", !.todo = proc.config.files]
  /\ UNCHANGED <<fsys, nextGen, Rest>>

-----------------------------------------------------------------------------
\* Mutation: the link is renamed into place over whatever is there.
LinkOver(n) ==
  /\ proc.pc = "links" /\ n \in proc.todo
  /\ fsys' = [fsys EXCEPT !.link[n] = "ours"]
  /\ proc' = [proc EXCEPT !.todo = @ \ {n}, !.created = @ \/ ~Ours(n)]
  /\ UNCHANGED <<disk, nextGen, Rest>>

(* ensureLinks: Symlink refuses a name that exists. *)
Link(n) ==
  /\ proc.pc = "links" /\ n \in proc.todo
  /\ IF Unmanaged(n) THEN proc' = NoPass /\ UNCHANGED fsys            \* ErrForeign
     ELSE /\ fsys' = [fsys EXCEPT !.link[n] = "ours"]
          /\ proc' = [proc EXCEPT !.todo = @ \ {n}, !.created = @ \/ ~Ours(n)]
  /\ UNCHANGED <<disk, nextGen, Rest>>

LinksDone ==
  /\ proc.pc = "links" /\ proc.todo = {}
  /\ disk' = IF proc.created THEN TopSynced(fsys) ELSE disk
  /\ proc' = [proc EXCEPT !.pc = "prune",
                          !.todo = IF proc.config.onRemoved = "prune" THEN proc.removed ELSE {}]
  /\ UNCHANGED <<fsys, nextGen, Rest>>

PruneCheck(n) ==
  /\ proc.pc = "prune" /\ n \in proc.todo /\ proc.checked = {}
  /\ proc' = IF Ours(n) THEN [proc EXCEPT !.checked = {n}] ELSE [proc EXCEPT !.todo = @ \ {n}]
  /\ UNCHANGED <<fsys, disk, nextGen, Rest>>

PruneRemove(n) ==
  /\ proc.pc = "prune" /\ n \in proc.checked
  /\ fsys' = [fsys EXCEPT !.link[n] = "none"]
  /\ proc' = [proc EXCEPT !.todo = @ \ {n}, !.checked = {}]
  /\ UNCHANGED <<disk, nextGen, Rest>>

PruneDone ==
  /\ proc.pc = "prune" /\ proc.todo = {}
  /\ disk' = IF proc.config.onRemoved = "prune" THEN TopSynced(fsys) ELSE disk
  /\ proc' = [proc EXCEPT !.pc = "collect"]
  /\ UNCHANGED <<fsys, nextGen, Rest>>

\* Mutation: what an interrupted removal left is not collected.
GarbageComplete == {g \in Gens : Complete(fsys, g) /\ g \notin {proc.new, proc.old}}

Garbage == {g \in Gens : fsys.gen[g] # NoGen /\ g \notin {proc.new, proc.old}}

(* collect: all but the new generation and its predecessor. *)
Collect(g) ==
  /\ proc.pc = "collect" /\ g \in Garbage
  /\ fsys' = [fsys EXCEPT !.gen[g] = NoGen]
  /\ UNCHANGED <<disk, nextGen, proc, Rest>>

(* RemoveAll stopped half way. *)
CollectStops(g) ==
  /\ proc.pc = "collect" /\ g \in Garbage
  /\ Fault("stop")
  /\ \E s \in {"torn", "husk"} : fsys' = [fsys EXCEPT !.gen[g].state = s]
  /\ proc' = NoPass
  /\ UNCHANGED <<disk, binding, config, rev, cursor, snap, nextGen, edits, reader>>

CollectDone ==
  /\ proc.pc = "collect" /\ Garbage = {}
  /\ disk' = GenSynced(fsys)
  /\ proc' = IF proc.live THEN [proc EXCEPT !.pc = "save"] ELSE NoPass
  /\ UNCHANGED <<fsys, nextGen, Rest>>

-----------------------------------------------------------------------------
(* After a live publication: the snapshot, then the cursor. *)
SaveSnapshot ==
  /\ proc.pc = "save"
  /\ snap' = proc.rev
  /\ proc' = [proc EXCEPT !.pc = "saved"]
  /\ UNCHANGED <<fsys, disk, binding, cursor, reader, Env>>

\* Mutation: the cursor keeps the stamp it had.
SaveCursorStale ==
  /\ proc.pc = "saved"
  /\ cursor' = [rev |-> proc.rev, config |-> proc.config, stamp |-> cursor.stamp]
  /\ proc' = NoPass
  /\ UNCHANGED <<fsys, disk, binding, snap, reader, Env>>

SaveCursor ==
  /\ proc.pc = "saved"
  /\ cursor' = [rev |-> proc.rev, config |-> proc.config, stamp |-> Stamp(proc)]
  /\ proc' = NoPass
  /\ UNCHANGED <<fsys, disk, binding, snap, reader, Env>>

-----------------------------------------------------------------------------
(* The process dies, or a step of Publish returns an error. *)
Stop ==
  /\ proc # NoPass
  /\ Fault("stop")
  /\ proc' = NoPass
  /\ UNCHANGED <<fsys, disk, binding, config, rev, cursor, snap, nextGen, edits, reader>>

\* What an unsynced generation may be after a power loss.
Unsynced == {g \in Gens : fsys.gen[g] # disk.gen[g]}
Survivors(g) ==
  {disk.gen[g], fsys.gen[g]}
    \cup {[x EXCEPT !.state = s] : x \in {disk.gen[g], fsys.gen[g]} \ {NoGen},
                                  s \in {"torn", "husk"}}

(* Each unsynced directory entry survives or not. *)
PowerLoss ==
  /\ Fault("power")
  /\ \E left \in [Unsynced -> UNION {Survivors(g) : g \in Unsynced}],
        current \in {disk.current, fsys.current},
        link \in [FileNames -> {disk.link[n] : n \in FileNames} \cup {fsys.link[n] : n \in FileNames}] :
       /\ \A g \in Unsynced : left[g] \in Survivors(g)
       /\ \A n \in FileNames : link[n] \in {disk.link[n], fsys.link[n]}
       /\ fsys' = [gen |-> [g \in Gens |-> IF g \in Unsynced THEN left[g] ELSE disk.gen[g]],
                   current |-> current, link |-> link]
       /\ disk' = fsys'
  /\ proc' = NoPass
  /\ reader' = [gen |-> 0, behind |-> 0]
  /\ UNCHANGED <<binding, config, rev, cursor, snap, nextGen, edits>>

ReaderResolves ==
  /\ fsys.current # 0
  /\ reader' = [gen |-> fsys.current, behind |-> 0]
  /\ UNCHANGED <<fsys, disk, binding, cursor, snap, proc, Env>>

(* The user's own file takes a name, or leaves it, for good and at any     *)
(* time: also between a check of the client and its act.                   *)
UserPlaces(n) ==
  /\ UserEdits /\ ~Unmanaged(n)
  /\ fsys' = [fsys EXCEPT !.link[n] = "foreign"]
  /\ disk' = [disk EXCEPT !.link[n] = "foreign"]
  /\ UNCHANGED <<proc, nextGen, Rest>>

UserTakes(n) ==
  /\ UserEdits /\ Unmanaged(n)
  /\ fsys' = [fsys EXCEPT !.link[n] = "none"]
  /\ disk' = [disk EXCEPT !.link[n] = "none"]
  /\ UNCHANGED <<proc, nextGen, Rest>>

EditConfig ==
  /\ edits < MaxEdits
  /\ edits' = edits + 1
  /\ config' \in Configs \ {config}
  /\ UNCHANGED <<fsys, disk, binding, rev, cursor, snap, proc, nextGen, faults, reader>>

NewRevision ==
  /\ rev < MaxRev
  /\ rev' = rev + 1
  /\ UNCHANGED <<fsys, disk, binding, config, cursor, snap, proc, nextGen, faults, edits, reader>>

-----------------------------------------------------------------------------
PassStep ==
  \/ ClaimBinding \/ WriteBinding \/ Preflight \/ Stage \/ Staged \/ RetainSynced \/ Swap \/ SwapSynced
  \/ LinksDone \/ PruneDone \/ CollectDone \/ SaveSnapshot \/ SaveCursor
  \/ \E n \in FileNames : RetainCheck(n) \/ RetainRename(n) \/ Link(n) \/ PruneCheck(n) \/ PruneRemove(n)
  \/ \E g \in Gens : Collect(g)

Next ==
  \/ \E live \in BOOLEAN : StartPass(live)
  \/ PassStep
  \/ StageFails \/ (\E g \in Gens : CollectStops(g)) \/ Stop \/ PowerLoss
  \/ ReaderResolves \/ (\E n \in FileNames : UserPlaces(n) \/ UserTakes(n))
  \/ EditConfig \/ NewRevision

Spec == Init /\ [][Next]_vars

\* A started pass goes on; the timer starts passes, and outages end.
FairSpec == Spec /\ WF_vars(PassStep) /\ SF_vars(StartPass(TRUE))

-----------------------------------------------------------------------------
Dirs == [gen : [Gens -> [state : {"none", "torn", "husk", "complete"},
                         stamp : Stamps \cup {NoGen.stamp}, prev : 0..MaxGen]],
         current : 0..MaxGen, link : [FileNames -> {"none", "ours", "foreign", "kept"}]]

TypeOK ==
  /\ fsys \in Dirs /\ disk \in Dirs
  /\ binding \in {"none", "dir", "empty", "ours"}
  /\ config \in Configs /\ rev \in Revs /\ snap \in 0..MaxRev
  /\ cursor \in [rev : 0..MaxRev, config : Configs \cup {NoPass.config},
                  stamp : Stamps \cup {NoGen.stamp}]
  /\ proc.old \in 0..MaxGen /\ proc.new \in 0..MaxGen
  /\ proc.removed \subseteq FileNames /\ proc.todo \subseteq FileNames
  /\ proc.checked \subseteq proc.todo
  /\ nextGen \in 1..(MaxGen + 1)
  /\ reader \in [gen : 0..MaxGen, behind : 0..2]

(* Readers see a complete generation whatever stops the client: `current`  *)
(* names one in the running system and in every state a power loss leaves. *)
CurrentComplete ==
  \A d \in {fsys, disk} : d.current # 0 => Complete(d, d.current)

(* A reader that resolved `current` just before a swap can finish: its     *)
(* generation outlives one publication, interrupted and retried ones too.  *)
ReaderFinishes ==
  reader.gen # 0 /\ reader.behind <= 1 => Complete(fsys, reader.gen)

(* Readers are safe whatever stops the client (Publish, collect): the one  *)
(* that resolves `current` now and the one that resolved it just before.   *)
ReadersSafe == TypeOK /\ CurrentComplete /\ ReaderFinishes

(* A pass that skips publishing is right to: while the cursor claims the   *)
(* server's revision is current, every configured name reads its value and *)
(* under prune no dropped name is left.  So until the configuration is     *)
(* edited twice: neither the stamp nor the cursor says which publication   *)
(* it was, so a configuration restored by a pass that stopped before its   *)
(* prune passes for the one that was published.                            *)
CurrentClaimHolds ==
  ClaimsCurrent =>
    /\ fsys.gen[fsys.current].stamp = [files |-> config.files, val |-> Value[rev]]
    /\ config.onRemoved = "prune" => \A n \in FileNames \ config.files : ~Ours(n)

(* What a power loss leaves of a name is what it is now. *)
EntrySynced(n) == disk.link[n] = fsys.link[n]

(* Files the client did not publish, and retained ones, are replaced or    *)
(* removed by it only in the window it cannot close, between its check     *)
(* that a dropped name is its own link and the rename or removal that      *)
(* follows (retain; prune): no configured name ever is, and none by a      *)
(* crash, a retry or a power loss, unless it is a copy whose retention     *)
(* stopped short of its sync.                                              *)
ForeignKept ==
  [][\A n \in FileNames : Unmanaged(n) /\ fsys'.link[n] # fsys.link[n] =>
       \/ UserTakes(n)
       \/ n \in proc.checked \ proc.config.files
       \/ faults' # faults /\ fsys.link[n] = "kept" /\ ~EntrySynced(n)]_vars

(* A dropped name keeps its last content unless the policy is prune: no    *)
(* step of the client makes a readable name unreadable, and neither does a *)
(* power loss when the name was readable on disk; only, once a fault has   *)
(* stopped a retention between its rename and its sync, the name must also *)
(* be the same on disk (Publish; retain, before swapCurrent).              *)
NoNameLost ==
  [][\A n \in FileNames :
       /\ Readable(fsys, n) /\ ~Readable(fsys', n)
       /\ faults' # faults => Readable(disk, n) /\ (faults = 0 \/ EntrySynced(n))
       => UserTakes(n) \/ proc.config.onRemoved = "prune"]_vars

(* After a publication only its generation and the predecessor are left,   *)
(* also of what earlier interrupted ones staged.                           *)
FinishLeavesTwo ==
  [][CollectDone => \A g \in Gens : fsys'.gen[g] # NoGen =>
                      g \in {fsys'.current, fsys'.gen[fsys'.current].prev}]_vars

(* No file the client did not publish, and no retained one, is replaced or *)
(* removed by it.                                                          *)
ForeignNeverReplaced ==
  [][\A n \in FileNames : Unmanaged(n) /\ fsys'.link[n] # fsys.link[n] => UserTakes(n)]_vars

(* What is retained stays, whatever stops the client and whenever. *)
RetainedSurvives ==
  [][\A n \in FileNames :
       /\ Readable(fsys, n) /\ ~Readable(fsys', n)
       /\ faults' # faults => Readable(disk, n)
       => UserTakes(n) \/ proc.config.onRemoved = "prune"]_vars

(* A publication that finished survives a power loss. *)
FinishedSurvives == Presented => \A n \in config.files : Readable(disk, n)

(* Once faults, edits and revisions cease, the client catches up. *)
CatchesUp == <>[](ClaimsCurrent)

(* A dropped name can be retained: what ErrRemoved tells the operator to   *)
(* set works for every name it lists.                                      *)
RetainWorks ==
  proc.pc = "retain" => \A n \in proc.todo : Ours(n) => n \in Files(fsys, proc.old)

(* An interrupted first publication does not make the directory look like  *)
(* another target's.                                                       *)
NeverMisbound == proc = NoPass => binding # "empty"
=============================================================================
