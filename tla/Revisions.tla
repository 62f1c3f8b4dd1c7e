------------------------------ MODULE Revisions ------------------------------
(***************************************************************************)
(* One project's draft-to-revision pipeline: drafts are staged against    *)
(* the published cells (internal/service/values.go, rollback.go), a       *)
(* publish closes a selection over key groups, checks that every draft is *)
(* fresh and materializes an immutable snapshot per environment           *)
(* (internal/service/publish.go), and every other path that moves cells   *)
(* or the schema (declare, copy, import, key, group and environment       *)
(* changes) materializes in its own transaction too.                      *)
(*                                                                         *)
(* Each handler is one serializable transaction, so it is one action; a   *)
(* refusal leaves the state unchanged and is not a step.                  *)
(***************************************************************************)
EXTENDS Naturals, Sequences, FiniteSets

CONSTANTS
  Principals,
  Envs,         \* every environment id the project may ever have
  Keys,         \* every key id the catalogue may ever have
  Groups,       \* key groups
  NoGroup,      \* a key outside every group
  Values,       \* plaintexts
  NoValue,      \* no plaintext: an absent cell, or a draft that clears one
  InitialEnvs,  \* the environments and
  InitialKeys,  \*   keys that exist at first
  PresenceInputs, \* the presence rules and
  AllowedInputs,  \*   the sets of legal values a declaration may be given
  Params,       \* the names of environment parameters
  Refs,         \* the parameters a value refers to: it is a template of them
  MaxPending,   \* MaxPendingPerProject
  MaxOps,       \* bound on the operations that mint ids
  MaxRevision,  \* bound on revisions of an environment
  MaxSchema     \* bound on the schema revision

ASSUME NoValueAssumption == NoValue \notin Values
ASSUME NoGroupAssumption == NoGroup \notin Groups
ASSUME InitialAssumption == InitialEnvs \subseteq Envs /\ InitialKeys \subseteq Keys
ASSUME InputsAssumption ==
  /\ PresenceInputs \subseteq {"free", "required", "forbidden"}
  /\ AllowedInputs \subseteq SUBSET Values
ASSUME RefsAssumption == Refs \in [Values -> SUBSET Params]
ASSUME RevisionBoundsAssumption ==
  /\ MaxPending \in Nat /\ MaxOps \in Nat /\ MaxRevision \in Nat /\ MaxSchema \in Nat

VARIABLES
  ops,        \* how many operations have minted ids
  live,       \* the environments that exist
  dropped,    \* the environments that were deleted
  catalogue,  \* the declared keys with their groups and rules, and the
              \*   parameters each environment declares
  retired,    \* the keys that were deleted
  drafts,     \* pending_changes
  cell,       \* value_entries: the published cells
  snaps,      \* snapshots: the revisions of each environment
  previews    \* the impact-preview tokens handed out by Restore

rvars == <<ops, live, dropped, catalogue, retired, drafts, cell, snaps, previews>>

\* The ids minted by the n-th operation are identified by n together with the
\* cell they belong to.  The value entry a draft becomes keeps its number.
Absent == [entry |-> 0, value |-> NoValue]
Cells == {Absent} \cup [entry : Nat \ {0}, value : Values]
Snapshots == [cells : [Keys -> Cells], schema : Nat, params : SUBSET Params]
Presence == {"free", "required", "forbidden"}
Catalogues ==
  [declared : SUBSET Keys, config : SUBSET Keys, group : [Keys -> Groups \cup {NoGroup}],
   presence : [Keys -> [Envs -> Presence]], allowed : [Keys -> SUBSET Values],
   params : [Envs -> SUBSET Params], revision : Nat]
Drafts ==
  [owner : Principals, env : Envs, key : Keys, n : Nat \ {0},
   value : Values \cup {NoValue}, from : Nat, at : Nat, restore : BOOLEAN]
Tokens == [changes : SUBSET Drafts, base : [Envs -> Nat], schema : Nat]

TypeOK ==
  /\ ops \in Nat
  /\ live \subseteq Envs
  /\ dropped \subseteq Envs
  /\ catalogue \in Catalogues
  /\ retired \subseteq Keys
  /\ drafts \subseteq Drafts
  /\ cell \in [Envs -> [Keys -> Cells]]
  /\ snaps \in [Envs -> Seq(Snapshots)]
  /\ previews \subseteq Tokens

\* A project whose keys, of class config, were declared before its environments
\* were created.
Init ==
  /\ ops = 0
  /\ live = InitialEnvs
  /\ dropped = {}
  /\ catalogue = [declared |-> InitialKeys, config |-> InitialKeys,
                  group |-> [k \in Keys |-> NoGroup],
                  presence |-> [k \in Keys |-> [e \in Envs |-> "free"]],
                  allowed |-> [k \in Keys |-> Values],
                  params |-> [e \in Envs |-> {}], revision |-> 1]
  /\ retired = {}
  /\ drafts = {}
  /\ cell = [e \in Envs |-> [k \in Keys |-> Absent]]
  /\ snaps = [e \in Envs |->
                IF e \in InitialEnvs
                THEN << [cells |-> [k \in Keys |-> Absent], schema |-> 1, params |-> {}] >>
                ELSE << >>]
  /\ previews = {}

-----------------------------------------------------------------------------
(* Materialization.                                                        *)

\* validateValueWithParameters, under the parameters decl: in a parameterized
\* environment a config value that refers to parameters is a template, which
\* must refer to declared ones and whose schema is checked at delivery; any
\* other value is a literal, which the schema must allow.
LegalValue(c, decl, k, v) ==
  IF k \in c.config /\ decl # {} /\ Refs[v] # {} THEN Refs[v] \subseteq decl
  ELSE v \in c.allowed[k]

\* validateResolvedPublish: presence rules, value rules, and a group's
\* presence is all-or-none.
Valid(c, decl, cells, e) ==
  /\ \A k \in c.declared :
       /\ c.presence[k][e] = "required" => cells[k] # Absent
       /\ c.presence[k][e] = "forbidden" => cells[k] = Absent
       /\ cells[k] # Absent => LegalValue(c, decl, k, cells[k].value)
  /\ \A k1, k2 \in c.declared :
       c.group[k1] # NoGroup /\ c.group[k1] = c.group[k2] =>
         (cells[k1] = Absent) = (cells[k2] = Absent)

\* Mutant: the snapshot is built from the cells as they were before the write.
SnapshotBefore(c, cells, e) ==
  [cells |-> cell[e], schema |-> c.revision, params |-> c.params[e]]

\* A snapshot captures the parameters its environment declares, for good.
Snapshot(c, cells, e) ==
  [cells |-> cells[e], schema |-> c.revision, params |-> c.params[e]]

\* Mutant: the newest revision is rewritten in place.
ReplaceRevision(log, s) == IF log = << >> THEN <<s>> ELSE [log EXCEPT ![Len(log)] = s]

\* The lineage's next revision number.
NextRevision(log, s) == Append(log, s)

\* Every environment of es is validated under catalogue c and gets its next
\* revision; cells and catalogue move with it or not at all.
Materialize(es, c, cells) ==
  /\ \A e \in es : Valid(c, c.params[e], cells[e], e) /\ Len(snaps[e]) < MaxRevision
  /\ cell' = cells
  /\ snaps' = [e \in Envs |-> IF e \in es THEN NextRevision(snaps[e], Snapshot(c, cells, e))
                              ELSE snaps[e]]
  /\ catalogue' = c

Latest(e) == snaps[e][Len(snaps[e])]

-----------------------------------------------------------------------------
(* Drafts.                                                                 *)

SameCell(d1, d2) == d1.owner = d2.owner /\ d1.env = d2.env /\ d1.key = d2.key

\* Staging collects the version it supersedes.
Staged(new) == {d \in drafts : \A x \in new : ~SameCell(d, x)} \cup new

Draft(p, e, k, v, restore) ==
  [owner |-> p, env |-> e, key |-> k, n |-> ops + 1, value |-> v,
   from |-> cell[e][k].entry, at |-> Len(snaps[e]), restore |-> restore]

\* Values.Set, Initialize and Unset (v = NoValue).
Stage(p, e, k, v) ==
  /\ ops < MaxOps
  /\ e \in live /\ k \in catalogue.declared
  /\ LET d == Draft(p, e, k, v, FALSE)
     IN  /\ Cardinality({x \in drafts : ~SameCell(x, d)}) < MaxPending
         /\ drafts' = Staged({d})
  /\ ops' = ops + 1
  /\ UNCHANGED <<live, dropped, catalogue, retired, cell, snaps, previews>>

-----------------------------------------------------------------------------
(* Publishing.                                                             *)

Own(ds, p) == {d \in ds : d.owner = p}

Coupled(d1, d2) ==
  /\ d1.env = d2.env
  /\ catalogue.group[d1.key] # NoGroup
  /\ catalogue.group[d1.key] = catalogue.group[d2.key]

\* Mutant: only the named drafts are published.
ClosureNone(ds, p, sel) == sel

\* Key-group closure over the drafts ds.  A key is in at most one group, so
\* one round reaches the fixed point.
Closure(ds, p, sel) == sel \cup {d \in Own(ds, p) : \E s \in sel : Coupled(s, d)}

\* A group whose pending members span two owners is refused.
OneOwner(ds, p, sel) == \A d \in ds : (\E s \in sel : Coupled(s, d)) => d.owner = p

\* Mutant: the baseline is compared by revision presence only.
FreshWhenSet(sel) == \A d \in sel : (cell[d.env][d.key].entry = 0) = (d.from = 0)

\* checkFreshness: each published cell is the one its draft was staged on.
Fresh(sel) == \A d \in sel : cell[d.env][d.key].entry = d.from

EnvsOf(sel) == {d.env : d \in sel}

\* Mutant: the token names the changes and the schema only.
TokenOfChanges(sel) ==
  [changes |-> sel, schema |-> catalogue.revision, base |-> [e \in Envs |-> 0]]

\* publishPreviewToken.
Token(sel) ==
  [changes |-> sel, schema |-> catalogue.revision,
   base |-> [e \in Envs |-> IF e \in EnvsOf(sel) THEN Len(snaps[e]) ELSE 0]]

\* Mutant: a published cell gets no entry id.
AppliedUnnumbered(sel) ==
  [e \in Envs |-> [k \in Keys |->
     IF \E d \in sel : d.env = e /\ d.key = k
     THEN [entry |-> 0, value |-> (CHOOSE x \in sel : x.env = e /\ x.key = k).value]
     ELSE cell[e][k]]]

\* putCell and clearing of cells, for every draft of the selection.
Applied(sel) ==
  [e \in Envs |-> [k \in Keys |->
     IF \E d \in sel : d.env = e /\ d.key = k
     THEN LET d == CHOOSE x \in sel : x.env = e /\ x.key = k
          IN  IF d.value = NoValue THEN Absent ELSE [entry |-> d.n, value |-> d.value]
     ELSE cell[e][k]]]

\* The tail of PublishPlanned: freshness, materialize, discard the drafts.
CommitSelection(sel) ==
  /\ Fresh(sel)
  /\ Materialize(EnvsOf(sel), catalogue, Applied(sel))
  /\ drafts' = drafts \ sel
  /\ UNCHANGED <<ops, live, dropped, retired, previews>>

\* A selection with a restored draft needs the token of a preview of exactly
\* this selection over exactly this state.
Previewed(sel) == (\E d \in sel : d.restore) => Token(sel) \in previews

Publish(p, sel) ==
  /\ sel # {} /\ sel \subseteq Own(drafts, p)
  /\ OneOwner(drafts, p, sel)
  /\ Previewed(Closure(drafts, p, sel))
  /\ CommitSelection(Closure(drafts, p, sel))

\* A restore names an earlier revision, and every declared key or one of them;
\* the whole revision only while each key it holds is still declared.
Restorable(e, r, ks) ==
  /\ e \in live /\ r \in 1..(Len(snaps[e]) - 1)
  /\ \/ /\ ks = catalogue.declared
        /\ \A k \in Keys : snaps[e][r].cells[k] # Absent => k \in ks
     \/ \E k \in catalogue.declared : ks = {k}

\* The difference to the published cells, as drafts.
Restored(p, e, r, ks) ==
  LET old(k) == snaps[e][r].cells[k].value
  IN  {Draft(p, e, k, old(k), TRUE) : k \in {x \in ks : old(x) # cell[e][x].value}}

\* buildImpactPreview, over the drafts ds.
ImpactPreview(ds, p, sel) == Token(Closure(ds, p, sel))

\* Revisions.Restore: the difference is staged, without the check of
\* MaxPending, and previewed; an empty one stages nothing and is not a step.
Restore(p, e, r, ks) ==
  /\ ops < MaxOps
  /\ Restorable(e, r, ks)
  /\ LET new == Restored(p, e, r, ks)
     IN  /\ new # {}
         /\ drafts' = Staged(new)
         /\ OneOwner(drafts', p, new)
         /\ previews' = previews \cup {ImpactPreview(drafts', p, new)}
  /\ ops' = ops + 1
  /\ UNCHANGED <<live, dropped, catalogue, retired, cell, snaps>>

-----------------------------------------------------------------------------
(* Direct writes: cells and snapshot move in one transaction, past drafts. *)

\* Values written to the keys DOMAIN vals of each environment of es.
Written(es, vals) ==
  [e \in Envs |-> [k \in Keys |->
     IF e \in es /\ k \in DOMAIN vals THEN [entry |-> ops + 1, value |-> vals[k]]
     ELSE cell[e][k]]]

\* writeCell for every value, then republish.
WriteThrough(es, vals) ==
  /\ ops < MaxOps
  /\ es # {} /\ es \subseteq live
  /\ DOMAIN vals # {} /\ DOMAIN vals \subseteq catalogue.declared
  /\ Materialize(es, catalogue, Written(es, vals))
  /\ ops' = ops + 1
  /\ UNCHANGED <<live, dropped, retired, drafts, previews>>

\* Values.Declare: one value into several environments.
Declare(es, k, v) == WriteThrough(es, [x \in {k} |-> v])

\* Values.Import: a key that is set is skipped unless its overwrite was asked.
Landing(e, vals, overwrite) ==
  {k \in DOMAIN vals : cell[e][k] = Absent \/ k \in overwrite}

Import(e, vals, overwrite) ==
  /\ DOMAIN vals \subseteq catalogue.declared
  /\ WriteThrough({e}, [k \in Landing(e, vals, overwrite) |-> vals[k]])

\* openSourceMaterial: the plaintexts a copy or a clone carries over.
Material(src, ks) == [k \in ks |-> cell[src][k].value]

\* copySourceTemplateKey: a value that is a template where it is read.
IsTemplate(e, k) ==
  k \in catalogue.config /\ catalogue.params[e] # {} /\ Refs[cell[e][k].value] # {}

\* Values.Copy: every key must be set in the source, and a template goes only
\* to parameterized environments.
Copy(src, es, ks) ==
  /\ src \in live \ es
  /\ \A k \in ks : cell[src][k] # Absent
  /\ (\E k \in ks : IsTemplate(src, k)) => \A e \in es : catalogue.params[e] # {}
  /\ WriteThrough(es, Material(src, ks))

-----------------------------------------------------------------------------
(* The environments.                                                       *)

\* cloneInto: the keys ks that are set in src and the caller may reveal (ks = {}
\* without a clone, or when the caller may reveal none of them); never out of a
\* parameterized environment.
CloneInto(src, ks) ==
  /\ ks # {} => src \in live /\ catalogue.params[src] = {}
  /\ \A k \in ks : k \in catalogue.declared /\ cell[src][k] # Absent

\* Environments.create.  Only the new environment is materialized.
CreateEnvironment(e, src, ks) ==
  /\ ops < MaxOps /\ catalogue.revision < MaxSchema
  /\ e \notin live \cup dropped
  /\ CloneInto(src, ks)
  /\ Materialize({e}, [catalogue EXCEPT !.revision = @ + 1],
                 Written({e}, Material(src, ks)))
  /\ live' = live \cup {e}
  /\ ops' = ops + 1
  /\ UNCHANGED <<dropped, retired, drafts, previews>>

\* Environments.Delete: the presence rules lose the environment, and its
\* cells, drafts and snapshots go; no other environment is materialized.
DeleteEnvironment(e) ==
  /\ catalogue.revision < MaxSchema
  /\ e \in live
  /\ live' = live \ {e}
  /\ dropped' = dropped \cup {e}
  /\ catalogue' = [catalogue EXCEPT !.revision = @ + 1, !.params[e] = {},
                     !.presence = [k \in Keys |-> [@[k] EXCEPT ![e] = "free"]]]
  /\ cell' = [cell EXCEPT ![e] = [k \in Keys |-> Absent]]
  /\ drafts' = {d \in drafts : d.env # e}
  /\ snaps' = [snaps EXCEPT ![e] = << >>]
  /\ UNCHANGED <<ops, retired, previews>>

-----------------------------------------------------------------------------
(* The schema.                                                             *)

\* A rule names existing environments, or binds every one, later ones too.
Rules ==
  {f \in [Envs -> PresenceInputs] :
     (\E r \in Presence : \A e \in Envs : f[e] = r) \/ (\A e \in Envs \ live : f[e] = "free")}

\* validateStaticMembership, for every group.
StaticMembership(c) ==
  \A k1, k2 \in c.declared :
    c.group[k1] # NoGroup /\ c.group[k1] = c.group[k2] =>
      \A e \in Envs : ~(c.presence[k1][e] = "required" /\ c.presence[k2][e] = "forbidden")

\* Mutant: a schema change that materializes nothing.
FanOutNothing(c) ==
  /\ catalogue.revision < MaxSchema
  /\ StaticMembership(c)
  /\ catalogue' = [c EXCEPT !.revision = @ + 1]
  /\ UNCHANGED <<ops, live, dropped, previews, cell, snaps>>

\* fanOut: the catalogue c becomes the next schema revision and every
\* environment of the project is validated and materialized under it.
FanOut(c) ==
  /\ catalogue.revision < MaxSchema
  /\ StaticMembership(c)
  /\ Materialize(live, [c EXCEPT !.revision = @ + 1], cell)
  /\ UNCHANGED <<ops, live, dropped, previews>>

\* Keys.Create, of class secret or config.
KeyCreate(k, g, rule, vs, config) ==
  /\ k \notin catalogue.declared \cup retired
  /\ rule \in Rules
  /\ FanOut([catalogue EXCEPT !.declared = @ \cup {k},
                              !.config = IF config THEN @ \cup {k} ELSE @,
                              !.group[k] = g, !.presence[k] = rule, !.allowed[k] = vs])
  /\ UNCHANGED <<retired, drafts>>

\* Keys.UpdateDeclaration.
UpdateDeclaration(k, rule, vs) ==
  /\ k \in catalogue.declared
  /\ rule \in Rules
  /\ rule # catalogue.presence[k] \/ vs # catalogue.allowed[k]
  /\ FanOut([catalogue EXCEPT !.presence[k] = rule, !.allowed[k] = vs])
  /\ UNCHANGED <<retired, drafts>>

\* Keys.SetGroup.
SetGroup(k, g) ==
  /\ k \in catalogue.declared /\ g # catalogue.group[k]
  /\ FanOut([catalogue EXCEPT !.group[k] = g])
  /\ UNCHANGED <<retired, drafts>>

\* KeyGroups.Delete.
DeleteGroup(g) ==
  /\ g \in Groups
  /\ FanOut([catalogue EXCEPT !.group = [k \in Keys |-> IF @[k] = g THEN NoGroup ELSE @[k]]])
  /\ UNCHANGED <<retired, drafts>>

\* Mutant: the drafts of the deleted key stay.
WithoutNothing(k) == drafts

\* Pending.DiscardKey.
WithoutKey(k) == {d \in drafts : d.key # k}

\* Keys.Delete.
KeyDelete(k) ==
  /\ k \in catalogue.declared
  /\ \A e \in live : cell[e][k] = Absent
  /\ drafts' = WithoutKey(k)
  /\ FanOut([catalogue EXCEPT !.declared = @ \ {k}, !.config = @ \ {k},
                              !.group[k] = NoGroup, !.allowed[k] = Values,
                              !.presence[k] = [e \in Envs |-> "free"]])
  /\ retired' = retired \cup {k}

\* The schema revision moves; no cell or rule of this model does.
Reissue == FanOut(catalogue) /\ UNCHANGED <<retired, drafts>>

\* bumpSchemaRevision: catalogue c is the next schema revision, and nothing is
\* materialized.
NextSchema(c) ==
  /\ catalogue.revision < MaxSchema
  /\ catalogue' = [c EXCEPT !.revision = @ + 1]
  /\ UNCHANGED <<ops, live, dropped, retired, drafts, cell, snaps, previews>>

BumpSchema == NextSchema(catalogue)

\* Keys.Rename: every environment is materialized again.
KeyRename(k) == k \in catalogue.declared /\ Reissue

\* Keys.Reclassify: a template becomes a literal or the other way round.
Reclassify(k) ==
  /\ k \in catalogue.declared
  /\ FanOut([catalogue EXCEPT !.config = IF k \in @ THEN @ \ {k} ELSE @ \cup {k}])
  /\ UNCHANGED <<retired, drafts>>

\* Keys.UpdateMetadata, KeyGroups.Create and Rename, Environments.Rename.
UpdateMetadata(k) == k \in catalogue.declared /\ BumpSchema
GroupCreate(g) == BumpSchema
GroupRename(g) == BumpSchema
EnvironmentRename(e) == e \in live /\ BumpSchema

\* Environments.SetParameter declares a parameter or deletes one, for the next
\* publication only.
SetParameter(e, q) ==
  /\ e \in live
  /\ NextSchema([catalogue EXCEPT !.params[e] = IF q \in @ THEN @ \ {q} ELSE @ \cup {q}])

-----------------------------------------------------------------------------
Drafting ==
  \E p \in Principals, e \in Envs :
    \/ \E k \in Keys, v \in Values \cup {NoValue} : Stage(p, e, k, v)
    \/ \E r \in 1..MaxRevision, ks \in SUBSET Keys : Restore(p, e, r, ks)

Publishing == \E p \in Principals : \E sel \in SUBSET Own(drafts, p) : Publish(p, sel)

\* Import and copy into environments of open.
Importing(open) ==
  \E e \in open, ks \in SUBSET Keys :
    \E vals \in [ks -> Values], overwrite \in SUBSET ks : Import(e, vals, overwrite)

Copying(open) == \E src \in live, es \in SUBSET open, ks \in SUBSET Keys : Copy(src, es, ks)

Structure ==
  \/ \E e, src \in Envs, ks \in SUBSET Keys : CreateEnvironment(e, src, ks)
  \/ \E k \in Keys, g \in Groups \cup {NoGroup} : SetGroup(k, g)
  \/ \E k \in Keys, rule \in Rules, vs \in AllowedInputs :
       \/ UpdateDeclaration(k, rule, vs)
       \/ \E g \in Groups \cup {NoGroup}, config \in BOOLEAN : KeyCreate(k, g, rule, vs, config)
  \/ \E k \in Keys : KeyDelete(k) \/ KeyRename(k) \/ Reclassify(k) \/ UpdateMetadata(k)
  \/ \E g \in Groups : DeleteGroup(g) \/ GroupCreate(g) \/ GroupRename(g)
  \/ \E e \in Envs : EnvironmentRename(e) \/ \E q \in Params : SetParameter(e, q)

Next ==
  \/ Drafting
  \/ Publishing
  \/ \E es \in SUBSET live, k \in Keys, v \in Values : Declare(es, k, v)
  \/ Importing(live)
  \/ Copying(live)
  \/ Structure
  \/ \E e \in Envs : DeleteEnvironment(e)

Spec == Init /\ [][Next]_rvars

-----------------------------------------------------------------------------
(* Properties.                                                             *)

\* What a consumer fetches from an environment (its newest snapshot) is what
\* the published cells say, on every write path: materialize runs in the
\* transaction that moved a cell (publish.go, materialize).
DeliveredIsLive == \A e \in live : snaps[e] # << >> /\ Latest(e).cells = cell[e]

\* What an environment delivers is legal under the rules as they are NOW,
\* although schema operations that do not fan out leave it at an older schema
\* revision, and under the parameters its snapshot captured, which need not be
\* the ones declared now (publish.go, fanOutSchemaPublish; keys.go,
\* BumpSchemaRevision; parameters.go, SetParameter: "Existing delivery remains
\* bound to the immutable contract captured by its snapshot").
DeliveredValid ==
  \A e \in live : Valid(catalogue, Latest(e).params, Latest(e).cells, e)

\* A pending change names a declared key of an existing environment and is the
\* only one of its owner for that cell, so nothing a publish selects can bring
\* back a deleted key or environment (keys.go, Delete: DiscardKey).
DraftsLive ==
  /\ \A d \in drafts : d.key \in catalogue.declared /\ d.env \in live
  /\ \A d1, d2 \in drafts : SameCell(d1, d2) => d1 = d2

\* The project is consistent after every write path (publish.go, materialize):
\* what is delivered is what is published, legal under the schema as it is now
\* and the parameters captured with it, and every pending change could still be
\* published.
ProjectConsistent == TypeOK /\ DeliveredIsLive /\ DeliveredValid /\ DraftsLive

\* The steps that consume drafts and move neither ids nor schema: publishes.
IsPublish == ops' = ops /\ catalogue' = catalogue

\* No lost update: a draft is published only if no revision since the one it
\* was staged at touched its cell, or if the cell was absent then and is again
\* absent now; every revision in between may have been made by any write path
\* (publish.go, checkFreshness, against stage and Restore).
NoLostUpdate ==
  [][IsPublish => \A d \in drafts \ drafts' :
       LET seen == snaps[d.env][d.at].cells[d.key] IN
         IF seen = Absent THEN cell[d.env][d.key] = Absent
         ELSE \A i \in d.at..Len(snaps[d.env]) : snaps[d.env][i].cells[d.key] = seen]_rvars

\* A key group is published as a whole: when a publish consumes a draft of a
\* grouped key, no pending change of that group and environment, of anyone,
\* is left behind (publish.go, selectVersions).
GroupNotSplit ==
  [][IsPublish => \A d \in drafts \ drafts', x \in drafts' : ~Coupled(d, x)]_rvars

\* A restore is published over the state it was previewed on: one of its
\* drafts was staged at the revision it is published over, although its other
\* drafts, and those the group closure adds, may be older (publish.go,
\* publishPreviewToken, against rollback.go, Restore).
RestoreIsCurrent ==
  [][IsPublish => LET restored == {d \in drafts \ drafts' : d.restore} IN
       restored # {} => \E d \in restored : d.at = Len(snaps[d.env])]_rvars

\* Nothing stale is published, neither a draft whose cell has moved since it was
\* staged nor a restore whose preview is outdated (publish.go, PublishPlanned).
PublishesCurrent == NoLostUpdate /\ RestoreIsCurrent

\* The revisions of each environment form one immutable, gapless log.
History == INSTANCE RevisionLog WITH history <- snaps, dropped <- dropped
ImplementsRevisionLog == History!Spec

\* A project holds at most MaxPendingPerProject pending changes (values.go).
PendingCap == Cardinality(drafts) <= MaxPending
=============================================================================
