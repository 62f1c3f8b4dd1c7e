--------------------------- MODULE RevisionsProofs ---------------------------
(***************************************************************************)
(* Proofs about Revisions, and about Approvals on top of it, for any       *)
(* principals, environments, keys, groups, values, policies and bounds.    *)
(***************************************************************************)
EXTENDS Approvals, FiniteSetTheorems, TLAPS

\* An environment has a history only while it exists.
HistoryOfLive ==
  /\ live \cap dropped = {}
  /\ \A e \in Envs \ live : snaps[e] = << >>

\* What revision i of the history h holds for key k.
Held(h, i, k) == h[i].cells[k]

\* No revision of h gives k the entry n.
Unused(h, k, n) == \A i \in 1..Len(h) : Held(h, i, k).entry # n

\* An entry of k that was replaced in h does not come back.
Runs(h, k) ==
  \A i, j \in 1..Len(h) :
    i <= j /\ Held(h, i, k).entry # 0 /\ Held(h, i, k).entry = Held(h, j, k).entry
      => \A m \in i..j : Held(h, m, k) = Held(h, i, k)

EntryRuns == \A e \in Envs, k \in Keys : Runs(snaps[e], k)

\* The numbers that operations will hand out are unused.
NumbersBounded ==
  /\ \A d \in drafts : d.n <= ops
  /\ \A e \in Envs, k \in Keys : cell[e][k].entry <= ops
  /\ \A e \in Envs, k \in Keys, n \in Nat : n > ops => Unused(snaps[e], k, n)

\* A draft knows the revision it was staged at and the entry it saw there.
DraftBase ==
  \A d \in drafts :
    d.at \in 1..Len(snaps[d.env]) /\ Held(snaps[d.env], d.at, d.key).entry = d.from

\* The number of a draft has not been used for its cell, by a revision or by
\* another draft.
DraftNumberUnused ==
  \A d \in drafts :
    /\ Unused(snaps[d.env], d.key, d.n)
    /\ \A x \in drafts : x.env = d.env /\ x.key = d.key /\ x.n = d.n => x = d

\* A preview token was handed out over the revision that one of its restored
\* drafts was staged at.
PreviewsStaged ==
  \A t \in previews : \E d \in t.changes : d.restore /\ d.at = t.base[d.env]

Structural == TypeOK /\ HistoryOfLive /\ DeliveredIsLive /\ DeliveredValid /\ DraftsLive
Numbering == NumbersBounded /\ DraftBase /\ DraftNumberUnused /\ EntryRuns
RInv == Structural /\ Numbering /\ PreviewsStaged

-----------------------------------------------------------------------------
(* Types.                                                                  *)

\* The parts of the catalogue.
LEMMA CatalogueType ==
  ASSUME NEW c \in Catalogues
  PROVE  /\ c.declared \subseteq Keys
         /\ c.group \in [Keys -> Groups \cup {NoGroup}]
         /\ c.presence \in [Keys -> [Envs -> Presence]]
         /\ c.allowed \in [Keys -> SUBSET Values]
         /\ c.params \in [Envs -> SUBSET Params]
         /\ c.config \subseteq Keys
         /\ c.revision \in Nat
BY DEF Catalogues

\* What a cell holds.
LEMMA CellType ==
  ASSUME NEW c \in Cells
  PROVE  /\ c.entry \in Nat
         /\ c.value \in Values \cup {NoValue}
         /\ c.entry = 0 <=> c = Absent
         /\ c = Absent <=> c.value = NoValue
BY NoValueAssumption DEF Cells, Absent

\* Appending a revision.
LEMMA Appended ==
  ASSUME NEW S, NEW s \in Seq(S), NEW x \in S
  PROVE  /\ Append(s, x) \in Seq(S)
         /\ Len(Append(s, x)) = Len(s) + 1
         /\ Append(s, x)[Len(s) + 1] = x
         /\ \A i \in 1..Len(s) : Append(s, x)[i] = s[i]
OBVIOUS

\* The history h grows by a revision that holds the cells x.
Extends(h, h2, x) ==
  /\ Len(h) \in Nat
  /\ Len(h2) = Len(h) + 1
  /\ h2[Len(h) + 1].cells = x
  /\ \A i \in 1..Len(h) : h2[i] = h[i]

\* Two catalogues with the same rules, whatever parameters they declare.
SameRules(c, c1) ==
  /\ c1.declared = c.declared /\ c1.config = c.config /\ c1.group = c.group
  /\ c1.presence = c.presence /\ c1.allowed = c.allowed

\* They agree on what is valid under given parameters.
LEMMA SameRulesValid ==
  ASSUME NEW c, NEW c1, SameRules(c, c1), NEW decl, NEW s, NEW e
  PROVE  Valid(c, decl, s, e) => Valid(c1, decl, s, e)
BY DEF SameRules, Valid, LegalValue

\* What a commit does to the histories: each environment of es gains one
\* revision that holds its cells, valid under the parameters it captures, and
\* no revision changes.
Grown(es, c, cells) ==
  /\ cell' = cells
  /\ catalogue' = c
  /\ snaps' \in [Envs -> Seq(Snapshots)]
  /\ \A e \in es :
       /\ Extends(snaps[e], snaps'[e], cells[e])
       /\ Valid(c, snaps'[e][Len(snaps[e]) + 1].params, cells[e], e)
  /\ \A e \in Envs \ es : snaps'[e] = snaps[e]

\* Materialization appends one revision to each environment it touches, and
\* none to the others.
LEMMA MaterializeGrows ==
  ASSUME TypeOK, NEW es \in SUBSET Envs, NEW c \in Catalogues,
         NEW cells \in [Envs -> [Keys -> Cells]], Materialize(es, c, cells)
  PROVE  Grown(es, c, cells)
<1>1. \A e \in Envs :
        /\ Snapshot(c, cells, e) \in Snapshots /\ Snapshot(c, cells, e).cells = cells[e]
        /\ Snapshot(c, cells, e).params = c.params[e]
  BY CatalogueType DEF Snapshot, Snapshots
<1>2. \A e \in Envs : snaps[e] \in Seq(Snapshots)
  BY DEF TypeOK
<1>3. snaps' = [e \in Envs |-> IF e \in es THEN Append(snaps[e], Snapshot(c, cells, e)) ELSE snaps[e]]
  BY DEF Materialize, NextRevision
<1>4. snaps' \in [Envs -> Seq(Snapshots)]
  BY <1>1, <1>2, <1>3, Appended
<1>5. ASSUME NEW e \in es
      PROVE  /\ Extends(snaps[e], snaps'[e], cells[e])
             /\ Valid(c, snaps'[e][Len(snaps[e]) + 1].params, cells[e], e)
  <2>1. e \in Envs /\ snaps'[e] = Append(snaps[e], Snapshot(c, cells, e))
    BY <1>3
  <2>2. Valid(c, c.params[e], cells[e], e)
    BY DEF Materialize
  <2>3. snaps'[e][Len(snaps[e]) + 1] = Snapshot(c, cells, e)
    BY <1>1, <1>2, <2>1, Appended
  <2>4. Extends(snaps[e], snaps'[e], cells[e])
    BY <1>1, <1>2, <2>1, Appended DEF Extends
  <2> QED BY <1>1, <2>1, <2>2, <2>3, <2>4
<1> QED BY <1>3, <1>4, <1>5 DEF Grown, Materialize

\* A number stays unused when the new revision does not use it.
LEMMA UnusedExtends ==
  ASSUME NEW h, NEW h2, NEW x, NEW k, NEW n, Extends(h, h2, x), Unused(h, k, n), x[k].entry # n
  PROVE  Unused(h2, k, n)
BY DEF Extends, Unused, Held

\* The new revision keeps the newest entry, clears the cell or uses a number
\* the history has not used.
LEMMA RunsExtends ==
  ASSUME NEW h, NEW h2, NEW x, NEW k, Extends(h, h2, x), Runs(h, k),
         \/ Len(h) > 0 /\ x[k] = Held(h, Len(h), k)
         \/ x[k].entry = 0
         \/ Unused(h, k, x[k].entry)
  PROVE  Runs(h2, k)
<1> SUFFICES ASSUME NEW i \in 1..Len(h2), NEW j \in 1..Len(h2), i <= j,
                    Held(h2, i, k).entry # 0, Held(h2, i, k).entry = Held(h2, j, k).entry,
                    NEW m \in i..j
             PROVE  Held(h2, m, k) = Held(h2, i, k)
  BY DEF Runs
<1> DEFINE L == Len(h)
<1>1. L \in Nat /\ Len(h2) = L + 1 /\ i \in Nat /\ j \in Nat /\ m \in Nat
  BY DEF Extends
<1>2. Held(h2, L + 1, k) = x[k]
  BY DEF Extends, Held
<1>3. \A y \in 1..L : Held(h2, y, k) = Held(h, y, k)
  BY DEF Extends, Held
<1> HIDE DEF L
<1>4. CASE i = j
  BY <1>1, <1>4
<1>5. CASE i # j /\ j <= L
  <2>1. i \in 1..L /\ j \in 1..L /\ m \in 1..L
    BY <1>1, <1>5
  <2>2. Held(h, i, k).entry # 0 /\ Held(h, i, k).entry = Held(h, j, k).entry
    BY <1>3, <2>1
  <2>3. Held(h, m, k) = Held(h, i, k)
    BY <2>1, <2>2 DEF Runs, L
  <2> QED BY <1>3, <2>1, <2>3
<1>6. CASE i # j /\ j = L + 1
  <2>1. i \in 1..L /\ L \in 1..L /\ i <= L
    BY <1>1, <1>6
  <2>2. Held(h, i, k).entry # 0 /\ Held(h, i, k).entry = x[k].entry
    BY <1>2, <1>3, <1>6, <2>1
  <2>3. x[k] = Held(h, L, k)
    BY <2>1, <2>2 DEF Unused, L
  <2>4. \A y \in i..L : Held(h, y, k) = Held(h, i, k)
    BY <2>1, <2>2, <2>3 DEF Runs, L
  <2>5. L \in i..L
    BY <1>1, <2>1
  <2>6. CASE m = L + 1
    BY <1>2, <1>3, <2>1, <2>3, <2>4, <2>5, <2>6
  <2>7. CASE m # L + 1
    <3>1. m \in i..L /\ m \in 1..L
      BY <1>1, <1>6, <2>1, <2>7
    <3> QED BY <1>3, <2>1, <2>4, <3>1
  <2> QED BY <2>6, <2>7
<1> QED BY <1>1, <1>4, <1>5, <1>6

-----------------------------------------------------------------------------
(* What a commit preserves.                                                *)

\* The side conditions under which a commit keeps the structural part.
LEMMA GrowStructural ==
  ASSUME Structural, NEW es \in SUBSET Envs, NEW c \in Catalogues,
         NEW cells \in [Envs -> [Keys -> Cells]], Grown(es, c, cells),
         live' \subseteq Envs, live' \subseteq live \cup es, live \subseteq live',
         es \subseteq live',
         dropped' = dropped, live' \cap dropped = {},
         \A e \in Envs \ es : cells[e] = cell[e],
         es = live \/ SameRules(catalogue, c),
         drafts' \subseteq drafts, \A d \in drafts' : d.key \in c.declared,
         ops' \in Nat, retired' \subseteq Keys, previews' = previews
  PROVE  Structural'
<1> USE DEF Structural
<1>1. TypeOK'
  BY DEF TypeOK, Grown
<1>2. HistoryOfLive'
  BY DEF HistoryOfLive, Grown
<1>3. ASSUME NEW e \in live'
      PROVE  snaps'[e] # << >> /\ snaps'[e][Len(snaps'[e])].cells = cells[e]
             /\ Valid(c, snaps'[e][Len(snaps'[e])].params, cells[e], e)
  <2>1. CASE e \in es
    <3>1. snaps'[e] \in Seq(Snapshots) /\ Len(snaps[e]) \in Nat
      BY <2>1 DEF Grown, TypeOK
    <3>2. Len(snaps'[e]) = Len(snaps[e]) + 1 /\ snaps'[e][Len(snaps[e]) + 1].cells = cells[e]
          /\ Valid(c, snaps'[e][Len(snaps[e]) + 1].params, cells[e], e)
      BY <2>1 DEF Grown, Extends
    <3> QED BY <3>1, <3>2
  <2>2. CASE e \notin es
    <3>1. e \in live \ es /\ e \in Envs
      BY <2>2
    <3>2. snaps'[e] = snaps[e] /\ cells[e] = cell[e] /\ cells[e] \in [Keys -> Cells]
      BY <3>1 DEF Grown
    <3>3. snaps[e] # << >> /\ snaps[e][Len(snaps[e])].cells = cell[e]
          /\ Valid(catalogue, snaps[e][Len(snaps[e])].params, cell[e], e)
      BY <3>1 DEF DeliveredIsLive, DeliveredValid, Latest
    <3>4. Valid(c, snaps[e][Len(snaps[e])].params, cell[e], e)
      BY <3>1, <3>3, SameRulesValid
    <3> QED BY <3>1, <3>2, <3>3, <3>4
  <2> QED BY <2>1, <2>2
<1>4. DeliveredIsLive' /\ DeliveredValid'
  BY <1>3 DEF DeliveredIsLive, DeliveredValid, Latest, Grown
<1>5. DraftsLive'
  BY DEF DraftsLive, Grown, SameCell
<1> QED BY <1>1, <1>2, <1>4, <1>5

\* The side conditions under which a commit keeps the numbering: each cell it
\* moves is cleared or takes a number that is new to the cell.
LEMMA GrowNumbering ==
  ASSUME Structural, Numbering, NEW es \in SUBSET Envs, NEW c \in Catalogues,
         NEW cells \in [Envs -> [Keys -> Cells]], Grown(es, c, cells),
         \A e \in Envs \ es : cells[e] = cell[e],
         drafts' \subseteq drafts, ops' \in Nat, ops' >= ops,
         \A e \in es, k \in Keys :
           \/ cells[e][k] = cell[e][k]
           \/ cells[e][k] = Absent
           \/ /\ cells[e][k].entry <= ops'
              /\ Unused(snaps[e], k, cells[e][k].entry)
              /\ \A d \in drafts' : d.env = e /\ d.key = k => d.n # cells[e][k].entry
  PROVE  Numbering'
<1>1. /\ ops \in Nat
      /\ \A e \in Envs, k \in Keys : cell[e][k] \in Cells /\ cells[e][k] \in Cells
      /\ \A e \in Envs : Len(snaps[e]) \in Nat
  BY DEF Structural, TypeOK
<1>2. \A d \in drafts : d.env \in live /\ d.env \in Envs /\ d.key \in Keys /\ d.n \in Nat \ {0}
  BY DEF Structural, TypeOK, Drafts, DraftsLive
<1>3. Absent.entry = 0
  BY DEF Absent
<1>4. \A e \in Envs, k \in Keys : cell[e][k].entry \in Nat /\ cells[e][k].entry \in Nat
  BY <1>1, CellType
<1>5. ASSUME NEW e \in Envs, NEW k \in Keys PROVE cells[e][k].entry <= ops'
  <2>1. cell[e][k].entry <= ops /\ cell[e][k].entry \in Nat /\ cells[e][k].entry \in Nat
    BY <1>4 DEF Numbering, NumbersBounded
  <2>2. \/ cells[e][k] = cell[e][k] \/ cells[e][k].entry = 0 \/ cells[e][k].entry <= ops'
    BY <1>3
  <2> QED BY <1>1, <2>1, <2>2
\* The cells of an environment that has a history are its newest revision.
<1>6. ASSUME NEW e \in Envs, NEW k \in Keys, Len(snaps[e]) > 0
      PROVE  cell[e][k] = Held(snaps[e], Len(snaps[e]), k) /\ Len(snaps[e]) \in 1..Len(snaps[e])
  <2>1. e \in live
    <3>1. ASSUME e \notin live PROVE snaps[e] = << >> BY <3>1 DEF Structural, HistoryOfLive
    <3> QED BY <1>6, <3>1
  <2>2. snaps[e][Len(snaps[e])].cells = cell[e]
    BY <2>1 DEF Structural, DeliveredIsLive, Latest
  <2> QED BY <1>1, <1>6, <2>2 DEF Held
\* A number unused before stays unused unless the new revision takes it.
<1>7. ASSUME NEW e \in Envs, NEW k \in Keys, NEW n \in Nat \ {0}, Unused(snaps[e], k, n),
             e \in es => (cells[e][k] = cell[e][k] /\ Len(snaps[e]) > 0) \/ cells[e][k].entry # n
      PROVE  Unused(snaps'[e], k, n)
  <2>1. CASE e \notin es
    BY <1>7, <2>1 DEF Grown
  <2>2. CASE e \in es
    <3>1. Extends(snaps[e], snaps'[e], cells[e])
      BY <2>2 DEF Grown
    <3>2. cells[e][k].entry # n
      BY <1>6, <1>7, <2>2 DEF Unused
    <3> QED BY <1>7, <3>1, <3>2, UnusedExtends
  <2> QED BY <2>1, <2>2
<1>8. NumbersBounded'
  <2>1. \A d \in drafts' : d.n <= ops'
    BY <1>1, <1>2 DEF Numbering, NumbersBounded
  <2>2. ASSUME NEW e \in Envs, NEW k \in Keys, NEW n \in Nat, n > ops'
        PROVE  Unused(snaps'[e], k, n)
    <3>1. n \in Nat \ {0} /\ n > ops /\ cells[e][k].entry # n
      BY <1>1, <1>4, <1>5, <2>2
    <3>2. Unused(snaps[e], k, n)
      BY <3>1 DEF Numbering, NumbersBounded
    <3> QED BY <1>7, <3>1, <3>2
  <2> QED BY <1>5, <2>1, <2>2 DEF NumbersBounded, Grown
<1>9. DraftBase'
  <2> SUFFICES ASSUME NEW d \in drafts'
               PROVE  d.at \in 1..Len(snaps'[d.env]) /\ Held(snaps'[d.env], d.at, d.key).entry = d.from
    BY DEF DraftBase
  <2>1. d \in drafts /\ d.env \in Envs /\ d.at \in 1..Len(snaps[d.env])
        /\ Held(snaps[d.env], d.at, d.key).entry = d.from
    BY <1>2 DEF Numbering, DraftBase
  <2>2. CASE d.env \notin es
    BY <2>1, <2>2 DEF Grown
  <2>3. CASE d.env \in es
    <3>1. Extends(snaps[d.env], snaps'[d.env], cells[d.env])
      BY <2>3 DEF Grown
    <3>2. d.at \in 1..Len(snaps'[d.env])
      BY <2>1, <3>1 DEF Extends
    <3>3. snaps'[d.env][d.at] = snaps[d.env][d.at]
      BY <2>1, <3>1 DEF Extends
    <3>4. Held(snaps'[d.env], d.at, d.key) = Held(snaps[d.env], d.at, d.key)
      BY <3>3 DEF Held
    <3> QED BY <2>1, <3>2, <3>4
  <2> QED BY <2>2, <2>3
<1>10. DraftNumberUnused'
  <2> SUFFICES ASSUME NEW d \in drafts' PROVE Unused(snaps'[d.env], d.key, d.n)
    BY DEF Numbering, DraftNumberUnused
  <2>1. d \in drafts /\ d.env \in live /\ d.env \in Envs /\ d.key \in Keys /\ d.n \in Nat \ {0}
    BY <1>2
  <2>2. Unused(snaps[d.env], d.key, d.n)
    BY <2>1 DEF Numbering, DraftNumberUnused
  <2>3. Len(snaps[d.env]) > 0
    BY <1>1, <2>1 DEF Structural, DeliveredIsLive, TypeOK
  <2> QED BY <1>3, <1>7, <2>1, <2>2, <2>3
<1>11. EntryRuns'
  <2> SUFFICES ASSUME NEW e \in Envs, NEW k \in Keys PROVE Runs(snaps'[e], k)
    BY DEF EntryRuns
  <2>1. Runs(snaps[e], k)
    BY DEF Numbering, EntryRuns
  <2>2. CASE e \notin es
    BY <2>1, <2>2 DEF Grown
  <2>3. CASE e \in es
    <3>1. Extends(snaps[e], snaps'[e], cells[e])
      BY <2>3 DEF Grown
    <3>2. CASE Len(snaps[e]) > 0
      BY <1>3, <1>6, <2>1, <2>3, <3>1, <3>2, RunsExtends
    <3>3. CASE Len(snaps[e]) = 0
      <4>1. Unused(snaps[e], k, cells[e][k].entry)
        BY <3>3 DEF Unused
      <4> QED BY <2>1, <3>1, <4>1, RunsExtends
    <3> QED BY <1>1, <3>2, <3>3
  <2> QED BY <2>2, <2>3
<1> QED BY <1>8, <1>9, <1>10, <1>11 DEF Numbering

-----------------------------------------------------------------------------
(* One lemma per kind of step.                                             *)

\* Staging: drafts of one owner and one environment, on declared keys, that
\* record the published entry and the newest revision.
LEMMA StagingInv ==
  ASSUME Structural, Numbering, NEW p \in Principals, NEW e \in live,
         NEW new \in SUBSET Drafts,
         \A d \in new : /\ d.owner = p /\ d.env = e /\ d.key \in catalogue.declared
                        /\ d.n = ops + 1 /\ d.from = cell[e][d.key].entry
                        /\ d.at = Len(snaps[e]),
         \A d1, d2 \in new : d1.key = d2.key => d1 = d2,
         drafts' = Staged(new), ops' = ops + 1, previews' \subseteq Tokens,
         UNCHANGED <<live, dropped, catalogue, retired, cell, snaps>>
  PROVE  Structural' /\ Numbering'
<1>1. /\ ops \in Nat /\ e \in Envs /\ catalogue.declared \subseteq Keys
      /\ snaps[e] \in Seq(Snapshots) /\ Len(snaps[e]) \in Nat
  BY CatalogueType DEF Structural, TypeOK
<1>2. \A d \in drafts : d \in Drafts /\ d.n \in Nat
  BY DEF Structural, TypeOK, Drafts
<1>3. \A d \in drafts' : d \in new \/ (d \in drafts /\ \A x \in new : ~SameCell(d, x))
  BY DEF Staged
<1>4. TypeOK'
  BY <1>1, <1>2, <1>3 DEF Structural, TypeOK
<1>5. HistoryOfLive' /\ DeliveredIsLive' /\ DeliveredValid'
  BY DEF Structural, HistoryOfLive, DeliveredIsLive, DeliveredValid, Latest
<1>6. DraftsLive'
  <2>1. \A d \in drafts' : d.key \in catalogue.declared /\ d.env \in live
    BY <1>3 DEF Structural, DraftsLive
  <2>2. \A d1, d2 \in drafts' : SameCell(d1, d2) => d1 = d2
    BY <1>3 DEF Structural, DraftsLive, SameCell
  <2> QED BY <2>1, <2>2 DEF DraftsLive
<1>7. NumbersBounded'
  <2>1. \A d \in drafts' : d.n <= ops'
    BY <1>1, <1>2, <1>3 DEF Numbering, NumbersBounded
  <2>2. \A f \in Envs, k \in Keys : cell[f][k].entry <= ops'
    <3>1. \A f \in Envs, k \in Keys : cell[f][k].entry \in Nat
      BY CellType DEF Structural, TypeOK
    <3> QED BY <1>1, <3>1 DEF Numbering, NumbersBounded
  <2>3. \A f \in Envs, k \in Keys, n \in Nat : n > ops' => Unused(snaps[f], k, n)
    BY <1>1 DEF Numbering, NumbersBounded
  <2> QED BY <2>1, <2>2, <2>3 DEF NumbersBounded
<1>8. DraftBase'
  <2>1. \A d \in new : d.at \in 1..Len(snaps[d.env]) /\ Held(snaps[d.env], d.at, d.key).entry = d.from
    <3>1. snaps[e] # << >> /\ snaps[e][Len(snaps[e])].cells = cell[e]
      BY DEF Structural, DeliveredIsLive, Latest
    <3>2. Len(snaps[e]) \in 1..Len(snaps[e])
      BY <1>1, <3>1
    <3> QED BY <3>1, <3>2 DEF Held
  <2> QED BY <1>3, <2>1 DEF Numbering, DraftBase
<1>9. DraftNumberUnused'
  <2>1. \A d \in new : d.key \in Keys /\ Unused(snaps[e], d.key, ops + 1)
    BY <1>1 DEF Numbering, NumbersBounded
  <2>2. \A d \in drafts : d.n # ops + 1
    BY <1>1, <1>2 DEF Numbering, NumbersBounded
  <2>3. \A d \in drafts' : Unused(snaps[d.env], d.key, d.n)
    BY <1>3, <2>1 DEF Numbering, DraftNumberUnused
  <2>4. \A d, x \in drafts' : x.env = d.env /\ x.key = d.key /\ x.n = d.n => x = d
    BY <1>3, <2>2 DEF Numbering, DraftNumberUnused
  <2> QED BY <2>3, <2>4 DEF DraftNumberUnused
<1>10. EntryRuns'
  BY DEF Numbering, EntryRuns
<1> QED BY <1>4, <1>5, <1>6, <1>7, <1>8, <1>9, <1>10 DEF Structural, Numbering

\* What a draft records.
LEMMA DraftFields ==
  ASSUME TypeOK, NEW e \in Envs, NEW k \in Keys
  PROVE  ops + 1 \in Nat \ {0} /\ cell[e][k].entry \in Nat /\ Len(snaps[e]) \in Nat
BY CellType DEF TypeOK

\* Values.Stage and Unset keep the invariant.
LEMMA StageInv ==
  ASSUME RInv, NEW p \in Principals, NEW e \in Envs, NEW k \in Keys,
         NEW v \in Values \cup {NoValue}, Stage(p, e, k, v)
  PROVE  RInv'
<1> DEFINE d == Draft(p, e, k, v, FALSE)
<1>1. /\ e \in live /\ k \in catalogue.declared /\ drafts' = Staged({d}) /\ ops' = ops + 1
      /\ UNCHANGED <<live, dropped, catalogue, retired, cell, snaps, previews>>
  BY DEF Stage
<1>2. d \in Drafts /\ d.owner = p /\ d.env = e /\ d.key = k /\ d.n = ops + 1
      /\ d.from = cell[e][k].entry /\ d.at = Len(snaps[e])
  <2>1. TypeOK
    BY DEF RInv, Structural
  <2> QED BY <2>1, DraftFields DEF Draft, Drafts
<1>3. previews' \subseteq Tokens
  BY <1>1 DEF RInv, Structural, TypeOK
<1> HIDE DEF d
<1>4. Structural' /\ Numbering'
  BY <1>1, <1>2, <1>3, StagingInv DEF RInv
<1>5. PreviewsStaged'
  BY <1>1 DEF RInv, PreviewsStaged
<1> QED BY <1>4, <1>5 DEF RInv

\* The token of a selection of drafts.
LEMMA TokenType ==
  ASSUME TypeOK, NEW sel \in SUBSET Drafts
  PROVE  /\ Token(sel) \in Tokens
         /\ Token(sel).changes = sel
         /\ \A e \in EnvsOf(sel) : Token(sel).base[e] = Len(snaps[e])
<1>1. \A e \in Envs : Len(snaps[e]) \in Nat
  BY DEF TypeOK
<1>2. catalogue.revision \in Nat
  BY CatalogueType DEF TypeOK
<1>3. EnvsOf(sel) \subseteq Envs
  BY DEF EnvsOf, Drafts
<1> QED BY <1>1, <1>2, <1>3 DEF Token, Tokens

\* Rollback.Restore keeps the invariant: its drafts are based on what is
\* published when they are staged, and its preview records the same.
LEMMA RestoreInv ==
  ASSUME RInv, NEW p \in Principals, NEW e \in Envs, NEW r \in Nat,
         NEW ks \in SUBSET Keys, Restore(p, e, r, ks)
  PROVE  RInv'
<1> DEFINE new == Restored(p, e, r, ks)
           old(k) == snaps[e][r].cells[k].value
<1>0. TypeOK
  BY DEF RInv, Structural
<1>1. /\ e \in live /\ r \in 1..Len(snaps[e]) /\ ks \subseteq catalogue.declared
      /\ new # {} /\ drafts' = Staged(new) /\ ops' = ops + 1
      /\ previews' = previews \cup {ImpactPreview(drafts', p, new)}
      /\ UNCHANGED <<live, dropped, catalogue, retired, cell, snaps>>
  <2>1. Len(snaps[e]) \in Nat BY <1>0 DEF TypeOK
  <2> QED BY <2>1 DEF Restore, Restorable
<1>2. \A k \in ks : old(k) \in Values \cup {NoValue}
  <2>1. snaps[e][r] \in Snapshots
    BY <1>0, <1>1 DEF TypeOK
  <2>2. \A k \in ks : snaps[e][r].cells[k] \in Cells
    BY <2>1 DEF Snapshots
  <2> QED BY <2>2, CellType
<1>3. \A d \in new : \E k \in ks : d = Draft(p, e, k, old(k), TRUE)
  BY DEF Restored
<1>4. \A d \in new : /\ d \in Drafts /\ d.owner = p /\ d.env = e /\ d.key \in catalogue.declared
                     /\ d.n = ops + 1 /\ d.from = cell[e][d.key].entry
                     /\ d.at = Len(snaps[e]) /\ d.restore
                     /\ d = Draft(p, e, d.key, old(d.key), TRUE)
  <2> SUFFICES ASSUME NEW d \in new
               PROVE  /\ d \in Drafts /\ d.owner = p /\ d.env = e /\ d.key \in catalogue.declared
                      /\ d.n = ops + 1 /\ d.from = cell[e][d.key].entry
                      /\ d.at = Len(snaps[e]) /\ d.restore
                      /\ d = Draft(p, e, d.key, old(d.key), TRUE)
    OBVIOUS
  <2>1. PICK k \in ks : d = Draft(p, e, k, old(k), TRUE)
    BY <1>3
  <2>2. k \in Keys /\ k \in catalogue.declared /\ old(k) \in Values \cup {NoValue}
    BY <1>1, <1>2
  <2> HIDE DEF old, new
  <2>3. /\ d \in Drafts /\ d.owner = p /\ d.env = e /\ d.key = k
        /\ d.n = ops + 1 /\ d.from = cell[e][k].entry /\ d.at = Len(snaps[e]) /\ d.restore = TRUE
    BY <1>0, <2>1, <2>2, DraftFields DEF Draft, Drafts
  <2> QED BY <2>1, <2>2, <2>3
<1> HIDE DEF new, old
<1>5. \A d1, d2 \in new : d1.key = d2.key => d1 = d2
  <2> SUFFICES ASSUME NEW d1 \in new, NEW d2 \in new, d1.key = d2.key PROVE d1 = d2
    OBVIOUS
  <2>1. d1 = Draft(p, e, d1.key, old(d1.key), TRUE) /\ d2 = Draft(p, e, d2.key, old(d2.key), TRUE)
    BY <1>4
  <2> QED BY <2>1, Zenon
<1>6. new \in SUBSET Drafts /\ drafts' \subseteq Drafts
  BY <1>0, <1>1, <1>4 DEF Staged, TypeOK
<1> DEFINE t == ImpactPreview(drafts', p, new)
           cl == Closure(drafts', p, new)
<1>7. cl \in SUBSET Drafts /\ new \subseteq cl
  BY <1>6 DEF Closure, Own
<1>8. t = Token(cl)
  BY DEF ImpactPreview
<1> HIDE DEF cl
<1>9. t \in Tokens /\ t.changes = cl /\ \A f \in EnvsOf(cl) : t.base[f] = Len(snaps[f])
  BY <1>0, <1>7, <1>8, TokenType
<1>10. Structural' /\ Numbering'
  <2>1. previews' \subseteq Tokens
    BY <1>0, <1>1, <1>9 DEF TypeOK
  <2>2. \A d \in new : /\ d.owner = p /\ d.env = e /\ d.key \in catalogue.declared
                       /\ d.n = ops + 1 /\ d.from = cell[e][d.key].entry
                       /\ d.at = Len(snaps[e])
    BY <1>4
  <2>3. Structural /\ Numbering
    BY DEF RInv
  <2> QED BY <1>1, <1>5, <1>6, <2>1, <2>2, <2>3, StagingInv
<1>11. \E d \in t.changes : d.restore /\ d.at = t.base[d.env]
  <2>1. PICK d \in new : TRUE BY <1>1
  <2>2. d \in cl /\ d.env \in EnvsOf(cl)
    BY <1>7, <2>1 DEF EnvsOf
  <2>3. d.restore /\ d.at = Len(snaps[d.env])
    BY <1>4, <2>1
  <2> QED BY <1>9, <2>2, <2>3
<1>12. PreviewsStaged'
  BY <1>1, <1>11 DEF RInv, PreviewsStaged
<1> QED BY <1>10, <1>12 DEF RInv

\* What a selection writes to a cell comes from one of its drafts.
LEMMA AppliedCells ==
  ASSUME TypeOK, NEW sel \in SUBSET drafts
  PROVE  /\ Applied(sel) \in [Envs -> [Keys -> Cells]]
         /\ \A e \in Envs \ EnvsOf(sel) : Applied(sel)[e] = cell[e]
         /\ \A e \in Envs, k \in Keys :
              \/ Applied(sel)[e][k] = cell[e][k]
              \/ Applied(sel)[e][k] = Absent
              \/ \E d \in sel : d.env = e /\ d.key = k /\ Applied(sel)[e][k].entry = d.n
<1> DEFINE chosen(e, k) == CHOOSE x \in sel : x.env = e /\ x.key = k
           touched(e, k) == \E d \in sel : d.env = e /\ d.key = k
           wrote(e, k) == IF chosen(e, k).value = NoValue THEN Absent
                          ELSE [entry |-> chosen(e, k).n, value |-> chosen(e, k).value]
<1>1. \A e, k : touched(e, k) => chosen(e, k) \in sel /\ chosen(e, k).env = e /\ chosen(e, k).key = k
  OBVIOUS
<1>2. Applied(sel) = [e \in Envs |-> [k \in Keys |-> IF touched(e, k) THEN wrote(e, k) ELSE cell[e][k]]]
  BY DEF Applied
<1>3. \A d \in sel : d.n \in Nat \ {0} /\ d.value \in Values \cup {NoValue} /\ d.env \in Envs
  BY DEF TypeOK, Drafts
<1> HIDE DEF chosen, touched
<1>4. \A e, k : touched(e, k) =>
        wrote(e, k) \in Cells /\ (wrote(e, k) = Absent \/ wrote(e, k).entry = chosen(e, k).n)
  BY <1>1, <1>3 DEF Cells, Absent
<1> HIDE DEF wrote
<1>5. \A e \in Envs, k \in Keys : cell[e][k] \in Cells
  BY DEF TypeOK
<1>6. Applied(sel) \in [Envs -> [Keys -> Cells]]
  BY <1>2, <1>4, <1>5
<1>7. ASSUME NEW e \in Envs \ EnvsOf(sel) PROVE Applied(sel)[e] = cell[e]
  <2>1. \A k \in Keys : ~touched(e, k)
    BY DEF EnvsOf, touched
  <2>2. cell[e] = [k \in Keys |-> cell[e][k]]
    BY DEF TypeOK
  <2> QED BY <1>2, <2>1, <2>2
<1>8. ASSUME NEW e \in Envs, NEW k \in Keys, touched(e, k)
      PROVE  \/ Applied(sel)[e][k] = Absent
             \/ \E d \in sel : d.env = e /\ d.key = k /\ Applied(sel)[e][k].entry = d.n
  <2>1. Applied(sel)[e][k] = wrote(e, k)
    BY <1>2, <1>8
  <2> QED BY <1>1, <1>4, <1>8, <2>1
<1>9. \A e \in Envs, k \in Keys : ~touched(e, k) => Applied(sel)[e][k] = cell[e][k]
  BY <1>2
<1> QED BY <1>6, <1>7, <1>8, <1>9

\* The catalogue does not move: what was valid stays valid.
LEMMA CommitSelectionInv ==
  ASSUME Structural, Numbering, NEW sel \in SUBSET drafts, CommitSelection(sel)
  PROVE  Structural' /\ Numbering'
<1> DEFINE es == EnvsOf(sel)
           cells == Applied(sel)
<1>0. TypeOK /\ catalogue \in Catalogues
  BY DEF Structural, TypeOK
<1>1. /\ Materialize(es, catalogue, cells) /\ drafts' = drafts \ sel
      /\ UNCHANGED <<ops, live, dropped, retired, previews>>
  BY DEF CommitSelection
<1>2. /\ cells \in [Envs -> [Keys -> Cells]]
      /\ \A e \in Envs \ es : cells[e] = cell[e]
      /\ \A e \in Envs, k \in Keys :
           \/ cells[e][k] = cell[e][k]
           \/ cells[e][k] = Absent
           \/ \E d \in sel : d.env = e /\ d.key = k /\ cells[e][k].entry = d.n
  BY <1>0, AppliedCells
<1>3. es \in SUBSET Envs /\ es \subseteq live
  BY <1>0 DEF EnvsOf, Structural, DraftsLive, TypeOK
<1> HIDE DEF es, cells
<1>4. Grown(es, catalogue, cells)
  BY <1>0, <1>1, <1>2, <1>3, MaterializeGrows
<1>5. /\ live' \subseteq Envs /\ live' \subseteq live \cup es /\ live \subseteq live' /\ es \subseteq live'
      /\ dropped' = dropped /\ live' \cap dropped = {} /\ drafts' \subseteq drafts
      /\ \A d \in drafts' : d.key \in catalogue.declared
      /\ ops' \in Nat /\ ops' >= ops /\ retired' \subseteq Keys /\ previews' = previews
  BY <1>1, <1>3 DEF Structural, TypeOK, HistoryOfLive, DraftsLive
<1>6. Structural'
  <2>1. SameRules(catalogue, catalogue)
    BY DEF SameRules
  <2> QED BY <1>0, <1>2, <1>3, <1>4, <1>5, <2>1, GrowStructural
<1>7. ASSUME NEW e \in es, NEW k \in Keys
      PROVE  \/ cells[e][k] = cell[e][k]
             \/ cells[e][k] = Absent
             \/ /\ cells[e][k].entry <= ops'
                /\ Unused(snaps[e], k, cells[e][k].entry)
                /\ \A d \in drafts' : d.env = e /\ d.key = k => d.n # cells[e][k].entry
  <2> SUFFICES ASSUME NEW d \in sel, d.env = e, d.key = k, cells[e][k].entry = d.n
               PROVE  /\ d.n <= ops'
                      /\ Unused(snaps[e], k, d.n)
                      /\ \A x \in drafts' : x.env = e /\ x.key = k => x.n # d.n
    BY <1>2, <1>3
  <2>1. d.n <= ops'
    BY <1>1 DEF Numbering, NumbersBounded
  <2>2. Unused(snaps[e], k, d.n)
    BY DEF Numbering, DraftNumberUnused
  <2>3. \A x \in drafts' : x.env = e /\ x.key = k => x.n # d.n
    BY <1>1 DEF Numbering, DraftNumberUnused
  <2> QED BY <2>1, <2>2, <2>3
<1>8. Numbering'
  BY <1>0, <1>2, <1>3, <1>4, <1>5, <1>7, GrowNumbering
<1> QED BY <1>6, <1>8

\* Values written directly take the next number.
LEMMA WrittenCells ==
  ASSUME TypeOK, NEW es \in SUBSET Envs, NEW vals, \A k \in DOMAIN vals : vals[k] \in Values
  PROVE  /\ Written(es, vals) \in [Envs -> [Keys -> Cells]]
         /\ \A e \in Envs \ es : Written(es, vals)[e] = cell[e]
         /\ \A e \in Envs, k \in Keys :
              Written(es, vals)[e][k] = cell[e][k] \/ Written(es, vals)[e][k].entry = ops + 1
<1>1. ops + 1 \in Nat \ {0} /\ \A e \in Envs, k \in Keys : cell[e][k] \in Cells
  BY DEF TypeOK
<1>2. \A k \in DOMAIN vals : [entry |-> ops + 1, value |-> vals[k]] \in Cells
  BY <1>1 DEF Cells
<1>3. Written(es, vals) \in [Envs -> [Keys -> Cells]]
  BY <1>1, <1>2 DEF Written
<1>4. ASSUME NEW e \in Envs \ es PROVE Written(es, vals)[e] = cell[e]
  <2>1. cell[e] = [k \in Keys |-> cell[e][k]]
    BY DEF TypeOK
  <2> QED BY <2>1 DEF Written
<1>5. \A e \in Envs, k \in Keys :
        Written(es, vals)[e][k] = cell[e][k] \/ Written(es, vals)[e][k].entry = ops + 1
  BY DEF Written
<1> QED BY <1>3, <1>4, <1>5

\* Direct writes, under the catalogue as it is or as the creation of an
\* environment leaves it.
LEMMA DirectWriteInv ==
  ASSUME Structural, Numbering, NEW es \in SUBSET Envs, NEW c \in Catalogues,
         NEW vals, \A k \in DOMAIN vals : vals[k] \in Values,
         Materialize(es, c, Written(es, vals)),
         c = catalogue \/ c = [catalogue EXCEPT !.revision = @ + 1],
         live' = live \cup es, es \cap dropped = {},
         ops' = ops + 1, UNCHANGED <<dropped, retired, drafts, previews>>
  PROVE  Structural' /\ Numbering'
<1> DEFINE cells == Written(es, vals)
<1>0. TypeOK
  BY DEF Structural
<1>1. /\ cells \in [Envs -> [Keys -> Cells]]
      /\ \A e \in Envs \ es : cells[e] = cell[e]
      /\ \A e \in Envs, k \in Keys : cells[e][k] = cell[e][k] \/ cells[e][k].entry = ops + 1
  BY <1>0, WrittenCells
<1>2. Materialize(es, c, cells)
  OBVIOUS
<1> HIDE DEF cells
<1>3. Grown(es, c, cells)
  BY <1>0, <1>1, <1>2, MaterializeGrows
<1>4. c.declared = catalogue.declared /\ SameRules(catalogue, c)
  BY <1>0 DEF TypeOK, Catalogues, SameRules
<1>6. /\ live' \subseteq Envs /\ live' \subseteq live \cup es /\ live \subseteq live' /\ es \subseteq live'
      /\ dropped' = dropped /\ live' \cap dropped = {} /\ drafts' \subseteq drafts
      /\ \A d \in drafts' : d.key \in c.declared
      /\ ops' \in Nat /\ ops' >= ops /\ retired' \subseteq Keys /\ previews' = previews
  BY <1>0, <1>4 DEF Structural, TypeOK, HistoryOfLive, DraftsLive
<1>7. Structural'
  BY <1>1, <1>3, <1>4, <1>6, GrowStructural
<1>8. ASSUME NEW e \in es, NEW k \in Keys
      PROVE  \/ cells[e][k] = cell[e][k]
             \/ /\ cells[e][k].entry <= ops'
                /\ Unused(snaps[e], k, cells[e][k].entry)
                /\ \A d \in drafts' : d.env = e /\ d.key = k => d.n # cells[e][k].entry
  <2>1. ops \in Nat /\ \A d \in drafts : d.n \in Nat
    BY <1>0 DEF TypeOK, Drafts
  <2>2. Unused(snaps[e], k, ops + 1) /\ \A d \in drafts : d.n # ops + 1
    BY <2>1 DEF Numbering, NumbersBounded
  <2> QED BY <1>1, <2>1, <2>2
<1>9. Numbering'
  BY <1>1, <1>3, <1>6, <1>8, GrowNumbering
<1> QED BY <1>7, <1>9

\* The next schema revision.
LEMMA RevisionBump ==
  ASSUME NEW c \in Catalogues
  PROVE  LET c1 == [c EXCEPT !.revision = @ + 1]
         IN  c1 \in Catalogues /\ c1.declared = c.declared /\ SameRules(c, c1)
<1> DEFINE c1 == [c EXCEPT !.revision = @ + 1]
<1>1. c.revision + 1 \in Nat
  BY CatalogueType
<1>2. c1 \in Catalogues
  BY <1>1 DEF Catalogues
<1>3. /\ c1.declared = c.declared /\ c1.config = c.config /\ c1.group = c.group
      /\ c1.presence = c.presence /\ c1.allowed = c.allowed
  BY DEF Catalogues
<1> QED BY <1>2, <1>3 DEF SameRules

\* A schema change is validated everywhere, whatever the new catalogue is.
LEMMA FanOutInv ==
  ASSUME Structural, Numbering, NEW c \in Catalogues, FanOut(c),
         drafts' \subseteq drafts, \A d \in drafts' : d.key \in c.declared,
         retired' \subseteq Keys
  PROVE  Structural' /\ Numbering'
<1> DEFINE c1 == [c EXCEPT !.revision = @ + 1]
<1>0. TypeOK
  BY DEF Structural
<1>1. c1 \in Catalogues /\ c1.declared = c.declared
  BY DEF Catalogues
<1>2. Materialize(live, c1, cell) /\ UNCHANGED <<ops, live, dropped, previews>>
  BY DEF FanOut
<1> HIDE DEF c1
<1>3. live \in SUBSET Envs /\ cell \in [Envs -> [Keys -> Cells]] /\ ops \in Nat
  BY <1>0 DEF TypeOK
<1>4. Grown(live, c1, cell)
  BY <1>0, <1>1, <1>2, <1>3, MaterializeGrows
<1>5. /\ live' \subseteq Envs /\ live' \subseteq live \cup live /\ live \subseteq live' /\ live \subseteq live'
      /\ dropped' = dropped /\ live' \cap dropped = {}
      /\ \A d \in drafts' : d.key \in c1.declared
      /\ ops' \in Nat /\ ops' >= ops /\ previews' = previews
  BY <1>1, <1>2, <1>3 DEF Structural, HistoryOfLive
<1>6. Structural'
  BY <1>1, <1>3, <1>4, <1>5, GrowStructural
<1>7. Numbering'
  BY <1>1, <1>3, <1>4, <1>5, GrowNumbering
<1> QED BY <1>6, <1>7

\* A schema change that materializes nothing moves no rule: what is delivered
\* stays valid under the parameters captured with it.
LEMMA NextSchemaInv ==
  ASSUME Structural, Numbering, NEW c \in Catalogues, SameRules(catalogue, c), NextSchema(c)
  PROVE  Structural' /\ Numbering'
<1> USE DEF NextSchema
<1>1. catalogue' \in Catalogues /\ SameRules(catalogue, catalogue')
  BY RevisionBump DEF SameRules
<1>2. TypeOK'
  BY <1>1 DEF Structural, TypeOK
<1>3. DeliveredValid'
  BY <1>1, SameRulesValid DEF Structural, DeliveredValid, Latest
<1>4. HistoryOfLive' /\ DeliveredIsLive' /\ DraftsLive'
  BY <1>1 DEF Structural, HistoryOfLive, DeliveredIsLive, Latest, DraftsLive, SameCell, SameRules
<1>5. Numbering'
  BY DEF Numbering, NumbersBounded, DraftBase, DraftNumberUnused, EntryRuns
<1> QED BY <1>2, <1>3, <1>4, <1>5 DEF Structural

\* A deleted environment takes its cells, drafts, rules and history with it.
LEMMA DeleteEnvironmentInv ==
  ASSUME Structural, Numbering, NEW e \in Envs, DeleteEnvironment(e)
  PROVE  Structural' /\ Numbering'
<1>0. TypeOK
  BY DEF Structural
<1>1. /\ e \in live /\ live' = live \ {e} /\ dropped' = dropped \cup {e}
      /\ cell' = [cell EXCEPT ![e] = [k \in Keys |-> Absent]]
      /\ drafts' = {d \in drafts : d.env # e}
      /\ snaps' = [snaps EXCEPT ![e] = << >>]
      /\ UNCHANGED <<ops, retired, previews>>
  BY DEF DeleteEnvironment
<1>2. /\ catalogue' \in Catalogues
      /\ catalogue'.declared = catalogue.declared /\ catalogue'.group = catalogue.group
      /\ catalogue'.config = catalogue.config /\ catalogue'.allowed = catalogue.allowed
      /\ \A f \in Envs \ {e}, k \in Keys : catalogue'.presence[k][f] = catalogue.presence[k][f]
  <2>1. catalogue' = [catalogue EXCEPT !.revision = @ + 1, !.params[e] = {},
                     !.presence = [k \in Keys |-> [@[k] EXCEPT ![e] = "free"]]]
    BY DEF DeleteEnvironment
  <2>2. [k \in Keys |-> [catalogue.presence[k] EXCEPT ![e] = "free"]] \in [Keys -> [Envs -> Presence]]
    BY <1>0 DEF TypeOK, Catalogues, Presence
  <2> DEFINE P == [k \in Keys |-> [catalogue.presence[k] EXCEPT ![e] = "free"]]
  <2>3. \A f \in Envs \ {e}, k \in Keys : P[k][f] = catalogue.presence[k][f]
    BY <1>0, CatalogueType DEF TypeOK
  <2> DEFINE Q == [catalogue.params EXCEPT ![e] = {}]
  <2>4. P \in [Keys -> [Envs -> Presence]] /\ catalogue \in Catalogues
        /\ Q \in [Envs -> SUBSET Params]
    BY <1>0, <2>2, CatalogueType DEF TypeOK
  <2>5. catalogue' = [catalogue EXCEPT !.revision = @ + 1, !.params = Q, !.presence = P]
    BY <2>1
  <2> HIDE DEF P, Q
  <2>6. catalogue' = [declared |-> catalogue.declared, config |-> catalogue.config,
                      group |-> catalogue.group, presence |-> P, allowed |-> catalogue.allowed,
                      params |-> Q, revision |-> catalogue.revision + 1]
    BY <2>4, <2>5 DEF Catalogues
  <2>7. catalogue' \in Catalogues
    BY <2>4, <2>6, CatalogueType DEF Catalogues
  <2> QED BY <2>3, <2>6, <2>7
<1>3. cell' \in [Envs -> [Keys -> Cells]] /\ snaps' \in [Envs -> Seq(Snapshots)]
  <2>1. [k \in Keys |-> Absent] \in [Keys -> Cells] /\ << >> \in Seq(Snapshots)
    BY DEF Cells
  <2> QED BY <1>0, <1>1, <2>1 DEF TypeOK
<1>4. \A f \in Envs \ {e} : cell'[f] = cell[f] /\ snaps'[f] = snaps[f]
  BY <1>0, <1>1 DEF TypeOK
<1>5. snaps'[e] = << >> /\ \A k \in Keys : cell'[e][k].entry = 0
  BY <1>0, <1>1 DEF TypeOK, Absent
<1>6. TypeOK'
  BY <1>0, <1>1, <1>2, <1>3 DEF TypeOK
<1>7. HistoryOfLive'
  BY <1>0, <1>1, <1>4, <1>5 DEF Structural, HistoryOfLive, TypeOK
<1>8. DeliveredIsLive' /\ DraftsLive'
  BY <1>0, <1>1, <1>2, <1>4 DEF Structural, DeliveredIsLive, Latest, DraftsLive, SameCell, TypeOK
<1>9. DeliveredValid'
  <2> SUFFICES ASSUME NEW f \in live'
               PROVE  LET new == snaps'[f][Len(snaps'[f])] IN Valid(catalogue', new.params, new.cells, f)
    BY DEF DeliveredValid, Latest
  <2>1. f \in live /\ f \in Envs \ {e}
    BY <1>0, <1>1 DEF TypeOK
  <2>2. snaps'[f] = snaps[f]
        /\ Valid(catalogue, snaps[f][Len(snaps[f])].params, snaps[f][Len(snaps[f])].cells, f)
    BY <1>4, <2>1 DEF Structural, DeliveredValid, Latest
  <2>3. catalogue.declared \subseteq Keys
    BY <1>0, CatalogueType DEF TypeOK
  <2> QED BY <1>2, <2>1, <2>2, <2>3 DEF Valid, LegalValue
<1>10. Numbering'
  <2>1. \A k \in Keys, n \in Nat : Unused(snaps'[e], k, n)
    BY <1>5 DEF Unused
  <2>2. \A k \in Keys : Runs(snaps'[e], k)
    BY <1>5 DEF Runs
  <2>3. \A d \in drafts' : d \in drafts /\ d.env \in Envs \ {e}
    BY <1>0, <1>1 DEF TypeOK, Drafts
  <2>4. NumbersBounded'
    BY <1>0, <1>1, <1>4, <1>5, <2>1, <2>3 DEF Numbering, NumbersBounded, TypeOK
  <2>5. DraftBase' /\ DraftNumberUnused'
    BY <1>4, <2>3 DEF Numbering, DraftBase, DraftNumberUnused
  <2>6. EntryRuns'
    BY <1>4, <2>2 DEF Numbering, EntryRuns
  <2> QED BY <2>4, <2>5, <2>6 DEF Numbering
<1> QED BY <1>6, <1>7, <1>8, <1>9, <1>10 DEF Structural

-----------------------------------------------------------------------------
(* The next-state relation.                                                *)

\* The closure of a selection of live drafts consists of live drafts.
LEMMA ClosureLive ==
  ASSUME NEW p, NEW sel \in SUBSET Own(drafts, p)
  PROVE  Closure(drafts, p, sel) \in SUBSET drafts
BY DEF Closure, Own

\* Committing any selection keeps the invariant.
LEMMA CommitInv ==
  ASSUME RInv, NEW sel \in SUBSET drafts, CommitSelection(sel)
  PROVE  RInv'
<1>1. previews' = previews
  BY DEF CommitSelection
<1>2. Structural' /\ Numbering'
  BY CommitSelectionInv DEF RInv
<1> QED BY <1>1, <1>2 DEF RInv, PreviewsStaged

\* A publish keeps the invariant.
LEMMA PublishInv ==
  ASSUME RInv, NEW p \in Principals, NEW sel \in SUBSET Own(drafts, p), Publish(p, sel)
  PROVE  RInv'
BY ClosureLive, CommitInv DEF Publish

\* Values written directly to published cells keep the invariant.
LEMMA WriteThroughInv ==
  ASSUME RInv, NEW es, NEW vals, \A k \in DOMAIN vals : vals[k] \in Values, WriteThrough(es, vals)
  PROVE  RInv'
<1>1. /\ es \subseteq live /\ Materialize(es, catalogue, Written(es, vals)) /\ ops' = ops + 1
      /\ UNCHANGED <<live, dropped, retired, drafts, previews>>
  BY DEF WriteThrough
<1>2. es \in SUBSET Envs /\ catalogue \in Catalogues /\ live' = live \cup es /\ es \cap dropped = {}
  BY <1>1 DEF RInv, Structural, TypeOK, HistoryOfLive
<1>3. Structural' /\ Numbering'
  BY <1>1, <1>2, DirectWriteInv DEF RInv
<1> QED BY <1>1, <1>3 DEF RInv, PreviewsStaged

\* The values that were published are plaintexts.
LEMMA MaterialValues ==
  ASSUME TypeOK, NEW src \in Envs, NEW ks \in SUBSET Keys, \A k \in ks : cell[src][k] # Absent
  PROVE  \A k \in DOMAIN Material(src, ks) : Material(src, ks)[k] \in Values
<1>1. \A k \in ks : cell[src][k] \in Cells
  BY DEF TypeOK
<1>2. \A k \in ks : cell[src][k].value \in Values
  BY <1>1 DEF Cells
<1> QED BY <1>2 DEF Material

\* Declare, import and copy keep the invariant.
LEMMA WritesInv ==
  ASSUME RInv,
         \/ \E es \in SUBSET live, k \in Keys, v \in Values : Declare(es, k, v)
         \/ Importing(live)
         \/ Copying(live)
  PROVE  RInv'
<1>1. ASSUME NEW es \in SUBSET live, NEW k \in Keys, NEW v \in Values, Declare(es, k, v) PROVE RInv'
  BY <1>1, WriteThroughInv DEF Declare
<1>2. ASSUME NEW e \in live, NEW ks \in SUBSET Keys, NEW vals \in [ks -> Values],
             NEW overwrite \in SUBSET ks, Import(e, vals, overwrite)
      PROVE  RInv'
  <2> DEFINE landed == [k \in Landing(e, vals, overwrite) |-> vals[k]]
  <2>1. \A k \in DOMAIN landed : landed[k] \in Values
    BY DEF Landing
  <2>2. WriteThrough({e}, landed)
    BY <1>2 DEF Import
  <2> HIDE DEF landed
  <2> QED BY <2>1, <2>2, WriteThroughInv
<1>3. ASSUME NEW src \in live, NEW es \in SUBSET live, NEW ks \in SUBSET Keys, Copy(src, es, ks)
      PROVE  RInv'
  <2>1. WriteThrough(es, Material(src, ks)) /\ \A k \in ks : cell[src][k] # Absent
    BY <1>3 DEF Copy
  <2>2. TypeOK /\ src \in Envs
    BY DEF RInv, Structural, TypeOK
  <2>3. \A k \in DOMAIN Material(src, ks) : Material(src, ks)[k] \in Values
    BY <2>1, <2>2, MaterialValues
  <2> QED BY <2>1, <2>3, WriteThroughInv
<1> QED BY <1>1, <1>2, <1>3 DEF Importing, Copying

\* Creating an environment, empty or as a clone, keeps the invariant.
LEMMA CreateEnvironmentInv ==
  ASSUME RInv, NEW e \in Envs, NEW src \in Envs, NEW ks \in SUBSET Keys, CreateEnvironment(e, src, ks)
  PROVE  RInv'
<1> DEFINE c == [catalogue EXCEPT !.revision = @ + 1]
           vals == Material(src, ks)
<1>0. TypeOK /\ catalogue \in Catalogues
  BY DEF RInv, Structural, TypeOK
<1>1. /\ e \notin live \cup dropped /\ \A k \in ks : cell[src][k] # Absent
      /\ Materialize({e}, c, Written({e}, vals)) /\ live' = live \cup {e} /\ ops' = ops + 1
      /\ UNCHANGED <<dropped, retired, drafts, previews>>
  BY DEF CreateEnvironment, CloneInto
<1>2. \A k \in DOMAIN vals : vals[k] \in Values
  BY <1>0, <1>1, MaterialValues
<1>3. c \in Catalogues
  BY <1>0, RevisionBump
<1>4. {e} \in SUBSET Envs /\ {e} \cap dropped = {} /\ c = [catalogue EXCEPT !.revision = @ + 1]
  BY <1>1
<1> HIDE DEF c, vals
<1>5. Structural /\ Numbering
  BY DEF RInv
<1>6. Structural' /\ Numbering'
  BY <1>1, <1>2, <1>3, <1>4, <1>5, DirectWriteInv
<1> QED BY <1>1, <1>6 DEF RInv, PreviewsStaged

\* A schema change keeps the invariant.
LEMMA SchemaInv ==
  ASSUME RInv, NEW c \in Catalogues, FanOut(c), drafts' \subseteq drafts,
         \A d \in drafts' : d.key \in c.declared, retired' \subseteq Keys
  PROVE  RInv'
<1>1. Structural' /\ Numbering'
  BY FanOutInv DEF RInv
<1>2. previews' = previews
  BY DEF FanOut
<1> QED BY <1>1, <1>2 DEF RInv, PreviewsStaged

\* Keys.Create.
LEMMA KeyCreateInv ==
  ASSUME RInv, NEW k \in Keys, NEW g \in Groups \cup {NoGroup}, NEW rule \in Rules,
         NEW vs \in AllowedInputs, NEW config \in BOOLEAN, KeyCreate(k, g, rule, vs, config)
  PROVE  RInv'
<1>0. TypeOK /\ catalogue \in Catalogues /\ \A d \in drafts : d.key \in catalogue.declared
  BY DEF RInv, Structural, TypeOK, DraftsLive
<1> DEFINE D == catalogue.declared \cup {k}
           C == IF config THEN catalogue.config \cup {k} ELSE catalogue.config
           G == [catalogue.group EXCEPT ![k] = g]
           P == [catalogue.presence EXCEPT ![k] = rule]
           A == [catalogue.allowed EXCEPT ![k] = vs]
           c == [catalogue EXCEPT !.declared = D, !.config = C, !.group = G, !.presence = P,
                                  !.allowed = A]
<1>1. rule \in [Envs -> Presence] /\ vs \in SUBSET Values
  BY InputsAssumption DEF Rules, Presence
<1>2. /\ D \in SUBSET Keys /\ C \in SUBSET Keys /\ G \in [Keys -> Groups \cup {NoGroup}]
      /\ P \in [Keys -> [Envs -> Presence]] /\ A \in [Keys -> SUBSET Values]
  BY <1>0, <1>1, CatalogueType
<1>3. FanOut(c) /\ UNCHANGED <<retired, drafts>>
  BY DEF KeyCreate
<1>4. catalogue.declared \subseteq D
  OBVIOUS
<1> HIDE DEF D, C, G, P, A
<1>5. c \in Catalogues /\ c.declared = D
  BY <1>0, <1>2 DEF Catalogues
<1> HIDE DEF c
<1>6. (\A d \in drafts' : d.key \in c.declared) /\ retired' \subseteq Keys
  BY <1>0, <1>3, <1>4, <1>5 DEF TypeOK
<1> QED BY <1>3, <1>5, <1>6, SchemaInv

\* Keys.UpdateDeclaration.
LEMMA UpdateDeclarationInv ==
  ASSUME RInv, NEW k \in Keys, NEW rule \in Rules, NEW vs \in AllowedInputs,
         UpdateDeclaration(k, rule, vs)
  PROVE  RInv'
<1>0. TypeOK /\ catalogue \in Catalogues /\ \A d \in drafts : d.key \in catalogue.declared
  BY DEF RInv, Structural, TypeOK, DraftsLive
<1> DEFINE P == [catalogue.presence EXCEPT ![k] = rule]
           A == [catalogue.allowed EXCEPT ![k] = vs]
           c == [catalogue EXCEPT !.presence = P, !.allowed = A]
<1>1. rule \in [Envs -> Presence] /\ vs \in SUBSET Values
  BY InputsAssumption DEF Rules, Presence
<1>2. P \in [Keys -> [Envs -> Presence]] /\ A \in [Keys -> SUBSET Values]
  BY <1>0, <1>1, CatalogueType
<1>3. FanOut(c) /\ UNCHANGED <<retired, drafts>>
  BY DEF UpdateDeclaration
<1> HIDE DEF P, A
<1>4. c \in Catalogues /\ c.declared = catalogue.declared
  BY <1>0, <1>2 DEF Catalogues
<1> HIDE DEF c
<1>5. (\A d \in drafts' : d.key \in c.declared) /\ retired' \subseteq Keys
  BY <1>0, <1>3, <1>4 DEF TypeOK
<1> QED BY <1>3, <1>4, <1>5, SchemaInv

\* Keys.SetGroup and KeyGroups.Delete.
LEMMA RegroupInv ==
  ASSUME RInv, NEW G \in [Keys -> Groups \cup {NoGroup}],
         FanOut([catalogue EXCEPT !.group = G]), UNCHANGED <<retired, drafts>>
  PROVE  RInv'
<1>0. TypeOK /\ catalogue \in Catalogues /\ \A d \in drafts : d.key \in catalogue.declared
  BY DEF RInv, Structural, TypeOK, DraftsLive
<1> DEFINE c == [catalogue EXCEPT !.group = G]
<1>1. FanOut(c)
  OBVIOUS
<1>2. c \in Catalogues /\ c.declared = catalogue.declared
  BY <1>0 DEF Catalogues
<1> HIDE DEF c
<1>3. (\A d \in drafts' : d.key \in c.declared) /\ retired' \subseteq Keys
  BY <1>0, <1>2 DEF TypeOK
<1> QED BY <1>1, <1>2, <1>3, SchemaInv

\* Keys.SetGroup keeps the invariant.
LEMMA SetGroupInv ==
  ASSUME RInv, NEW k \in Keys, NEW g \in Groups \cup {NoGroup}, SetGroup(k, g)
  PROVE  RInv'
<1> DEFINE G == [catalogue.group EXCEPT ![k] = g]
<1>1. G \in [Keys -> Groups \cup {NoGroup}]
  BY CatalogueType DEF RInv, Structural, TypeOK
<1>2. FanOut([catalogue EXCEPT !.group = G]) /\ UNCHANGED <<retired, drafts>>
  BY DEF SetGroup
<1> HIDE DEF G
<1> QED BY <1>1, <1>2, RegroupInv

\* KeyGroups.Delete keeps the invariant.
LEMMA DeleteGroupInv ==
  ASSUME RInv, NEW g \in Groups, DeleteGroup(g)
  PROVE  RInv'
<1> DEFINE G == [k \in Keys |-> IF catalogue.group[k] = g THEN NoGroup ELSE catalogue.group[k]]
<1>1. G \in [Keys -> Groups \cup {NoGroup}]
  BY CatalogueType DEF RInv, Structural, TypeOK
<1>2. FanOut([catalogue EXCEPT !.group = G]) /\ UNCHANGED <<retired, drafts>>
  BY DEF DeleteGroup
<1> HIDE DEF G
<1> QED BY <1>1, <1>2, RegroupInv

\* Keys.Delete, which discards the drafts on the key.
LEMMA KeyDeleteInv ==
  ASSUME RInv, NEW k \in Keys, KeyDelete(k)
  PROVE  RInv'
<1>0. TypeOK /\ catalogue \in Catalogues /\ \A d \in drafts : d.key \in catalogue.declared
  BY DEF RInv, Structural, TypeOK, DraftsLive
<1> DEFINE D == catalogue.declared \ {k}
           C == catalogue.config \ {k}
           F == [e \in Envs |-> "free"]
           G == [catalogue.group EXCEPT ![k] = NoGroup]
           P == [catalogue.presence EXCEPT ![k] = F]
           A == [catalogue.allowed EXCEPT ![k] = Values]
           c == [catalogue EXCEPT !.declared = D, !.config = C, !.group = G, !.allowed = A,
                                  !.presence = P]
<1>1. F \in [Envs -> Presence]
  BY DEF Presence
<1>2. FanOut(c) /\ drafts' = {d \in drafts : d.key # k} /\ retired' = retired \cup {k}
  BY DEF KeyDelete, WithoutKey
<1> HIDE DEF F
<1>3. /\ D \in SUBSET Keys /\ C \in SUBSET Keys /\ G \in [Keys -> Groups \cup {NoGroup}]
      /\ P \in [Keys -> [Envs -> Presence]] /\ A \in [Keys -> SUBSET Values]
  BY <1>0, <1>1, CatalogueType
<1>4. drafts' \subseteq drafts /\ (\A d \in drafts' : d.key \in D) /\ retired' \subseteq Keys
  BY <1>0, <1>2 DEF TypeOK
<1> HIDE DEF D, C, G, P, A
<1>5. c \in Catalogues /\ c.declared = D
  BY <1>0, <1>3 DEF Catalogues
<1> HIDE DEF c
<1>6. \A d \in drafts' : d.key \in c.declared
  BY <1>4, <1>5
<1> QED BY <1>2, <1>4, <1>5, <1>6, SchemaInv

\* Keys.Rename, and Reclassify, which moves a key between the classes.
LEMMA ReissueInv ==
  ASSUME RInv, NEW k \in Keys, KeyRename(k) \/ Reclassify(k)
  PROVE  RInv'
<1>0. TypeOK /\ catalogue \in Catalogues /\ \A d \in drafts : d.key \in catalogue.declared
  BY DEF RInv, Structural, TypeOK, DraftsLive
<1>1. CASE KeyRename(k)
  <2>1. FanOut(catalogue) /\ UNCHANGED <<retired, drafts>>
    BY <1>1 DEF KeyRename, Reissue
  <2>2. retired' \subseteq Keys /\ drafts' \subseteq drafts /\ \A d \in drafts' : d.key \in catalogue.declared
    BY <1>0, <2>1 DEF TypeOK
  <2> QED BY <1>0, <2>1, <2>2, SchemaInv
<1>2. CASE Reclassify(k)
  <2> DEFINE C == IF k \in catalogue.config THEN catalogue.config \ {k} ELSE catalogue.config \cup {k}
             c == [catalogue EXCEPT !.config = C]
  <2>1. FanOut(c) /\ UNCHANGED <<retired, drafts>>
    BY <1>2 DEF Reclassify
  <2>2. C \in SUBSET Keys
    BY <1>0, CatalogueType
  <2> HIDE DEF C
  <2>3. c \in Catalogues /\ c.declared = catalogue.declared
    BY <1>0, <2>2 DEF Catalogues
  <2> HIDE DEF c
  <2>4. retired' \subseteq Keys /\ drafts' \subseteq drafts /\ \A d \in drafts' : d.key \in c.declared
    BY <1>0, <2>1, <2>3 DEF TypeOK
  <2> QED BY <2>1, <2>3, <2>4, SchemaInv
<1> QED BY <1>1, <1>2

\* Operations that only move the schema revision, or the parameters with it.
LEMMA UnmaterializedInv ==
  ASSUME RInv, BumpSchema \/ \E e \in Envs, q \in Params : SetParameter(e, q)
  PROVE  RInv'
<1>0. catalogue \in Catalogues
  BY DEF RInv, Structural, TypeOK
<1>1. \E c \in Catalogues : SameRules(catalogue, c) /\ NextSchema(c)
  <2>1. CASE BumpSchema
    BY <1>0, <2>1 DEF BumpSchema, SameRules
  <2>2. ASSUME NEW e \in Envs, NEW q \in Params, SetParameter(e, q)
        PROVE  \E c \in Catalogues : SameRules(catalogue, c) /\ NextSchema(c)
    <3> DEFINE Q == [catalogue.params EXCEPT ![e] = IF q \in @ THEN @ \ {q} ELSE @ \cup {q}]
               c == [catalogue EXCEPT !.params = Q]
    <3>1. NextSchema(c)
      BY <2>2 DEF SetParameter
    <3>2. Q \in [Envs -> SUBSET Params]
      BY <1>0, CatalogueType
    <3> HIDE DEF Q
    <3>3. c \in Catalogues /\ SameRules(catalogue, c)
      BY <1>0, <3>2 DEF Catalogues, SameRules
    <3> QED BY <3>1, <3>3
  <2> QED BY <2>1, <2>2
<1>2. Structural' /\ Numbering'
  BY <1>1, NextSchemaInv DEF RInv
<1>3. previews' = previews
  BY <1>1 DEF NextSchema
<1> QED BY <1>2, <1>3 DEF RInv, PreviewsStaged

\* Every change of the environments and of the catalogue keeps the invariant.
LEMMA StructureInv == ASSUME RInv, Structure PROVE RInv'
<1>1. ASSUME NEW e \in Envs, NEW src \in Envs, NEW ks \in SUBSET Keys, CreateEnvironment(e, src, ks)
      PROVE  RInv'
  BY <1>1, CreateEnvironmentInv
<1>2. ASSUME NEW k \in Keys, NEW g \in Groups \cup {NoGroup}, SetGroup(k, g) PROVE RInv'
  BY <1>2, SetGroupInv
<1>3. ASSUME NEW k \in Keys, NEW rule \in Rules, NEW vs \in AllowedInputs, UpdateDeclaration(k, rule, vs)
      PROVE  RInv'
  BY <1>3, UpdateDeclarationInv
<1>4. ASSUME NEW k \in Keys, NEW rule \in Rules, NEW vs \in AllowedInputs,
             NEW g \in Groups \cup {NoGroup}, NEW config \in BOOLEAN,
             KeyCreate(k, g, rule, vs, config)
      PROVE  RInv'
  BY <1>4, KeyCreateInv
<1>5. ASSUME NEW k \in Keys, KeyDelete(k) \/ KeyRename(k) \/ Reclassify(k) \/ UpdateMetadata(k)
      PROVE  RInv'
  BY <1>5, KeyDeleteInv, ReissueInv, UnmaterializedInv DEF UpdateMetadata
<1>6. ASSUME NEW g \in Groups, DeleteGroup(g) \/ GroupCreate(g) \/ GroupRename(g) PROVE RInv'
  BY <1>6, DeleteGroupInv, UnmaterializedInv DEF GroupCreate, GroupRename
<1>7. ASSUME NEW e \in Envs, EnvironmentRename(e) \/ \E q \in Params : SetParameter(e, q) PROVE RInv'
  BY <1>7, UnmaterializedInv DEF EnvironmentRename
<1> QED BY <1>1, <1>2, <1>3, <1>4, <1>5, <1>6, <1>7 DEF Structure

\* Every step keeps the invariant.
LEMMA NextInv == RInv /\ [Next]_rvars => RInv'
<1> SUFFICES ASSUME RInv, [Next]_rvars PROVE RInv' OBVIOUS
<1>1. CASE UNCHANGED rvars
  BY <1>1 DEF rvars, RInv, Structural, Numbering, PreviewsStaged, TypeOK, HistoryOfLive,
              DeliveredIsLive, DeliveredValid, DraftsLive, SameCell, Latest, NumbersBounded, DraftBase,
              DraftNumberUnused, EntryRuns
<1>2. CASE Drafting
  <2>1. ASSUME NEW p \in Principals, NEW e \in Envs, NEW k \in Keys,
               NEW v \in Values \cup {NoValue}, Stage(p, e, k, v)
        PROVE  RInv'
    BY <2>1, StageInv
  <2>2. ASSUME NEW p \in Principals, NEW e \in Envs, NEW r \in 1..MaxRevision,
               NEW ks \in SUBSET Keys, Restore(p, e, r, ks)
        PROVE  RInv'
    <3>1. r \in Nat BY RevisionBoundsAssumption
    <3> QED BY <2>2, <3>1, RestoreInv
  <2> QED BY <1>2, <2>1, <2>2 DEF Drafting
<1>3. CASE Publishing
  BY <1>3, PublishInv DEF Publishing
<1>4. CASE Importing(live) \/ Copying(live)
           \/ \E es \in SUBSET live, k \in Keys, v \in Values : Declare(es, k, v)
  BY <1>4, WritesInv
<1>5. CASE Structure
  BY <1>5, StructureInv
<1>6. ASSUME NEW e \in Envs, DeleteEnvironment(e) PROVE RInv'
  <2>1. Structural' /\ Numbering'
    BY <1>6, DeleteEnvironmentInv DEF RInv
  <2>2. previews' = previews
    BY <1>6 DEF DeleteEnvironment
  <2> QED BY <2>1, <2>2 DEF RInv, PreviewsStaged
<1> QED BY <1>1, <1>2, <1>3, <1>4, <1>5, <1>6 DEF Next

\* The initial states satisfy the invariant.
LEMMA InitInv == Init => RInv
<1> SUFFICES ASSUME Init PROVE RInv OBVIOUS
<1> DEFINE none == [k \in Keys |-> Absent]
           first == [cells |-> none, schema |-> 1, params |-> {}]
<1>1. none \in [Keys -> Cells] /\ first \in Snapshots /\ Absent.entry = 0
  BY DEF Cells, Snapshots, Absent
<1>2. /\ << first >> \in Seq(Snapshots) /\ << >> \in Seq(Snapshots)
      /\ Len(<< first >>) = 1 /\ << first >>[1] = first
  BY <1>1
<1>3. catalogue \in Catalogues
  BY InitialAssumption DEF Init, Catalogues, Presence
<1>4. snaps = [e \in Envs |-> IF e \in InitialEnvs THEN << first >> ELSE << >>]
  BY DEF Init
<1>5. cell = [e \in Envs |-> none]
  BY DEF Init
<1>6. first.cells = none
  OBVIOUS
<1>7. /\ live = InitialEnvs /\ InitialEnvs \subseteq Envs /\ dropped = {} /\ drafts = {}
      /\ previews = {} /\ ops = 0 /\ retired = {}
  BY InitialAssumption DEF Init
<1> HIDE DEF first
<1>8. TypeOK
  BY <1>1, <1>2, <1>3, <1>4, <1>5, <1>7 DEF TypeOK
<1>9. HistoryOfLive /\ DeliveredIsLive /\ DraftsLive
  BY <1>2, <1>4, <1>5, <1>6, <1>7 DEF HistoryOfLive, DeliveredIsLive, Latest, DraftsLive
<1>10. DeliveredValid
  <2>1. \A e \in live : Latest(e).cells = none
    BY <1>2, <1>4, <1>6, <1>7 DEF Latest
  <2>2. \A decl : \A e \in Envs : Valid(catalogue, decl, none, e)
    <3>1. /\ catalogue.declared \subseteq Keys
          /\ catalogue.presence = [k \in Keys |-> [e \in Envs |-> "free"]]
      BY InitialAssumption DEF Init
    <3>2. \A k \in Keys : none[k] = Absent
      OBVIOUS
    <3> HIDE DEF none
    <3> QED BY <3>1, <3>2 DEF Valid
  <2> QED BY <1>7, <2>1, <2>2 DEF DeliveredValid
<1>11. \A e \in Envs, k \in Keys : \A i \in 1..Len(snaps[e]) : Held(snaps[e], i, k).entry = 0
  <2> SUFFICES ASSUME NEW e \in Envs, NEW k \in Keys, NEW i \in 1..Len(snaps[e])
               PROVE  snaps[e][i].cells[k].entry = 0
    BY DEF Held
  <2>1. snaps[e] = << first >> /\ i = 1
    BY <1>2, <1>4
  <2> QED BY <1>1, <1>2, <1>6, <2>1
<1>12. Numbering
  <2>1. \A e \in Envs, k \in Keys : cell[e][k].entry = 0
    BY <1>1, <1>5
  <2>2. \A e \in Envs, k \in Keys, n \in Nat : n > 0 => Unused(snaps[e], k, n)
    BY <1>11 DEF Unused
  <2>3. \A e \in Envs, k \in Keys : Runs(snaps[e], k)
    BY <1>11 DEF Runs
  <2> QED BY <1>7, <2>1, <2>2, <2>3 DEF Numbering, NumbersBounded, DraftBase, DraftNumberUnused, EntryRuns
<1> QED BY <1>7, <1>8, <1>9, <1>10, <1>12 DEF RInv, Structural, PreviewsStaged

\* The inductive invariant holds in every reachable state.
LEMMA Invariance == Spec => []RInv
  BY InitInv, NextInv, PTL DEF Spec

\* Every reachable state is well typed (the rows of pending_changes,
\* value_entries and snapshots, and the catalogue).
THEOREM TypeCorrect == Spec => []TypeOK
<1>1. RInv => TypeOK BY DEF RInv, Structural
<1> QED BY <1>1, Invariance, PTL

\* On every write path the newest snapshot of an environment is its published
\* cells (publish.go, materialize).
THEOREM DeliveryFollowsCells == Spec => []DeliveredIsLive
<1>1. RInv => DeliveredIsLive BY DEF RInv, Structural
<1> QED BY <1>1, Invariance, PTL

\* What is delivered is legal under the rules of the moment, also after the
\* operations that move the schema and materialize nothing, and under the
\* parameters its snapshot captured: a parameter declared or deleted since binds
\* the next publication only (publish.go, fanOutSchemaPublish; parameters.go,
\* SetParameter).
THEOREM DeliveryIsValid == Spec => []DeliveredValid
<1>1. RInv => DeliveredValid BY DEF RInv, Structural
<1> QED BY <1>1, Invariance, PTL

\* Pending changes name live keys and environments, one per owner and cell
\* (keys.go, Delete; hierarchy.go, Delete).
THEOREM DraftsStayLive == Spec => []DraftsLive
<1>1. RInv => DraftsLive BY DEF RInv, Structural
<1> QED BY <1>1, Invariance, PTL

\* All of it together, as the run checks it: the project is consistent after every
\* operation, a change of parameters included, for any keys, groups,
\* environments and principals (publish.go, materialize).
THEOREM ProjectStaysConsistent == Spec => []ProjectConsistent
<1> QED BY TypeCorrect, DeliveryFollowsCells, DeliveryIsValid, DraftsStayLive, PTL
        DEF ProjectConsistent

-----------------------------------------------------------------------------
(* Action properties.                                                      *)

\* No write path but a publish takes drafts away and leaves both the numbers
\* and the schema alone.
LEMMA OthersPublishNothing ==
  ASSUME TypeOK, IsPublish, NEW d \in drafts \ drafts'
  PROVE  /\ ~UNCHANGED rvars
         /\ ~Drafting
         /\ \A es, vals : ~WriteThrough(es, vals)
         /\ ~Structure
         /\ \A e : ~DeleteEnvironment(e)
<1>1. ops \in Nat /\ catalogue \in Catalogues /\ catalogue.revision \in Nat
  BY CatalogueType DEF TypeOK
<1>2. ops' # ops + 1 /\ catalogue' = catalogue
  BY <1>1 DEF IsPublish
<1>3. drafts' # drafts
  OBVIOUS
<1>4. ~UNCHANGED rvars
  BY <1>3 DEF rvars
<1>5. ~Drafting
  BY <1>2 DEF Drafting, Stage, Restore
<1>6. \A es, vals : ~WriteThrough(es, vals)
  BY <1>2 DEF WriteThrough
<1>7. ~Structure
  <2>1. \A e, src, ks : ~CreateEnvironment(e, src, ks)
    BY <1>2 DEF CreateEnvironment
  <2>2. \A k : ~KeyDelete(k)
    <3> SUFFICES ASSUME NEW k, KeyDelete(k) PROVE FALSE OBVIOUS
    <3> DEFINE c == [catalogue EXCEPT !.declared = @ \ {k}, !.config = @ \ {k},
                              !.group[k] = NoGroup, !.allowed[k] = Values,
                              !.presence[k] = [e \in Envs |-> "free"]]
    <3>1. FanOut(c)
      BY DEF KeyDelete
    <3>2. c.revision = catalogue.revision /\ [c EXCEPT !.revision = @ + 1].revision = c.revision + 1
      BY <1>1 DEF Catalogues
    <3> HIDE DEF c
    <3>3. catalogue' = [c EXCEPT !.revision = @ + 1]
      BY <3>1 DEF FanOut, Materialize
    <3>4. catalogue'.revision = catalogue.revision + 1
      BY <3>2, <3>3
    <3> QED BY <1>1, <1>2, <3>4
  <2>3. /\ \A k, g, rule, vs, config : ~KeyCreate(k, g, rule, vs, config)
        /\ \A k, rule, vs : ~UpdateDeclaration(k, rule, vs)
        /\ \A k, g : ~SetGroup(k, g)
        /\ \A g : ~DeleteGroup(g)
        /\ ~Reissue /\ ~BumpSchema
        /\ \A k : ~Reclassify(k)
        /\ \A e, q : ~SetParameter(e, q)
    BY <1>3 DEF KeyCreate, UpdateDeclaration, SetGroup, DeleteGroup, Reissue, BumpSchema,
                Reclassify, SetParameter, NextSchema
  <2> QED BY <2>1, <2>2, <2>3 DEF Structure, KeyRename, UpdateMetadata, GroupCreate,
             GroupRename, EnvironmentRename
<1>8. \A e : ~DeleteEnvironment(e)
  <2> SUFFICES ASSUME NEW e, DeleteEnvironment(e) PROVE FALSE OBVIOUS
  <2>1. catalogue'.revision = catalogue.revision + 1
    BY <1>1 DEF DeleteEnvironment, Catalogues
  <2> QED BY <1>1, <1>2, <2>1
<1> QED BY <1>4, <1>5, <1>6, <1>7, <1>8

\* The only steps of the pipeline that take drafts away and leave both the
\* numbers and the schema alone are publishes.
LEMMA PublishOnly ==
  ASSUME TypeOK, [Next]_rvars, IsPublish, NEW d \in drafts \ drafts'
  PROVE  \E p \in Principals : \E sel \in SUBSET Own(drafts, p) : Publish(p, sel)
<1>1. ~(\E es \in SUBSET live, k \in Keys, v \in Values : Declare(es, k, v))
      /\ ~Importing(live) /\ ~Copying(live)
  BY OthersPublishNothing DEF Declare, Importing, Import, Copying, Copy
<1> QED BY <1>1, OthersPublishNothing DEF Next, Publishing

\* What a publish consumes.
LEMMA Consumed ==
  ASSUME NEW p \in Principals, NEW sel \in SUBSET Own(drafts, p), Publish(p, sel)
  PROVE  /\ drafts' = drafts \ Closure(drafts, p, sel)
         /\ drafts \ drafts' = Closure(drafts, p, sel)
         /\ Fresh(Closure(drafts, p, sel))
         /\ OneOwner(drafts, p, sel)
         /\ Previewed(Closure(drafts, p, sel))
<1>1. Closure(drafts, p, sel) \subseteq drafts
  BY DEF Closure, Own
<1> QED BY <1>1 DEF Publish, CommitSelection

\* A fresh draft's entry is the newest one, and an entry that is the newest now
\* and was there when the draft was staged was there all the time.
LEMMA FreshNotLost ==
  ASSUME RInv, NEW d \in drafts, cell[d.env][d.key].entry = d.from
  PROVE  LET seen == snaps[d.env][d.at].cells[d.key] IN
           IF seen = Absent THEN cell[d.env][d.key] = Absent
           ELSE \A i \in d.at..Len(snaps[d.env]) : snaps[d.env][i].cells[d.key] = seen
<1> DEFINE h == snaps[d.env]
           k == d.key
           L == Len(h)
<1>1. TypeOK
  BY DEF RInv, Structural
<1>2. d.env \in live /\ d.env \in Envs /\ k \in Keys
  BY <1>1 DEF RInv, Structural, DraftsLive, TypeOK, Drafts
<1>3. h # << >> /\ h[L].cells = cell[d.env] /\ L \in Nat
  BY <1>1, <1>2 DEF RInv, Structural, DeliveredIsLive, Latest, TypeOK
<1>4. d.at \in 1..L /\ Held(h, d.at, k).entry = d.from
  BY DEF RInv, Numbering, DraftBase
<1>5. cell[d.env][k] \in Cells /\ Held(h, d.at, k) \in Cells
  <2>1. h[d.at] \in Snapshots
    BY <1>1, <1>2, <1>4 DEF TypeOK
  <2> QED BY <1>1, <1>2, <2>1 DEF TypeOK, Snapshots, Held
<1>6. Runs(h, k)
  BY <1>2 DEF RInv, Numbering, EntryRuns
<1>7. Held(h, L, k) = cell[d.env][k]
  BY <1>3 DEF Held
<1> HIDE DEF h, L
<1>8. CASE Held(h, d.at, k) = Absent
  <2>1. cell[d.env][k] = Absent
    BY <1>4, <1>5, <1>8, CellType
  <2> QED BY <1>8, <2>1 DEF Held, h
<1>9. CASE Held(h, d.at, k) # Absent
  <2>1. Held(h, d.at, k).entry # 0 /\ Held(h, d.at, k).entry = Held(h, L, k).entry
    BY <1>4, <1>5, <1>7, <1>9, CellType
  <2>2. L \in 1..L /\ d.at <= L /\ d.at \in 1..L
    BY <1>3, <1>4
  <2>3. \A i \in d.at..L : Held(h, i, k) = Held(h, d.at, k)
    BY <1>6, <2>1, <2>2 DEF Runs, L
  <2> QED BY <1>9, <2>3 DEF Held, h, L
<1> QED BY <1>8, <1>9

\* No draft is published over a cell that moved since it was staged
\* (publish.go, checkFreshness).
THEOREM LostUpdateFree == Spec => NoLostUpdate
<1>1. ASSUME RInv, [Next]_rvars, IsPublish, NEW d \in drafts \ drafts'
      PROVE  LET seen == snaps[d.env][d.at].cells[d.key] IN
               IF seen = Absent THEN cell[d.env][d.key] = Absent
               ELSE \A i \in d.at..Len(snaps[d.env]) : snaps[d.env][i].cells[d.key] = seen
  <2>1. TypeOK /\ d \in drafts
    BY <1>1 DEF RInv, Structural
  <2>2. PICK p \in Principals : \E sel \in SUBSET Own(drafts, p) : Publish(p, sel)
    BY <1>1, <2>1, PublishOnly
  <2>3. PICK sel \in SUBSET Own(drafts, p) : Publish(p, sel)
    BY <2>2
  <2>4. cell[d.env][d.key].entry = d.from
    BY <1>1, <2>3, Consumed DEF Fresh
  <2> QED BY <1>1, <2>1, <2>4, FreshNotLost
<1>2. RInv /\ [Next]_rvars =>
        [IsPublish => \A d \in drafts \ drafts' :
           LET seen == snaps[d.env][d.at].cells[d.key] IN
             IF seen = Absent THEN cell[d.env][d.key] = Absent
             ELSE \A i \in d.at..Len(snaps[d.env]) : snaps[d.env][i].cells[d.key] = seen]_rvars
  BY <1>1
<1> QED BY <1>2, Invariance, PTL DEF Spec, NoLostUpdate

\* A selection closed over its owner's drafts, whose groups hold nobody else's,
\* leaves no member of a group behind.
LEMMA ClosedSelectionWhole ==
  ASSUME NEW p, NEW sel \in SUBSET Own(drafts, p), OneOwner(drafts, p, sel),
         NEW d \in Closure(drafts, p, sel), NEW x \in drafts \ Closure(drafts, p, sel)
  PROVE  ~Coupled(d, x)
<1> SUFFICES ASSUME Coupled(d, x) PROVE FALSE OBVIOUS
<1>1. \E s \in sel : Coupled(s, x)
  BY DEF Closure, Coupled
<1>2. x.owner = p
  BY <1>1 DEF OneOwner
<1> QED BY <1>1, <1>2 DEF Closure, Own

\* A publish takes the pending changes of a group and environment together,
\* whoever staged them (publish.go, selectVersions): the closure adds the
\* caller's, and somebody else's make the publish refuse.
THEOREM GroupsPublishWhole == Spec => GroupNotSplit
<1>1. ASSUME RInv, [Next]_rvars, IsPublish, NEW d \in drafts \ drafts', NEW x \in drafts'
      PROVE  ~Coupled(d, x)
  <2>1. TypeOK
    BY <1>1 DEF RInv, Structural
  <2>2. PICK p \in Principals : \E sel \in SUBSET Own(drafts, p) : Publish(p, sel)
    BY <1>1, <2>1, PublishOnly
  <2>3. PICK sel \in SUBSET Own(drafts, p) : Publish(p, sel)
    BY <2>2
  <2>4. /\ d \in Closure(drafts, p, sel) /\ x \in drafts \ Closure(drafts, p, sel)
        /\ OneOwner(drafts, p, sel)
    BY <1>1, <2>3, Consumed
  <2> QED BY <2>4, ClosedSelectionWhole
<1>2. RInv /\ [Next]_rvars =>
        [IsPublish => \A d \in drafts \ drafts', x \in drafts' : ~Coupled(d, x)]_rvars
  BY <1>1
<1> QED BY <1>2, Invariance, PTL DEF Spec, GroupNotSplit

\* A restore is published over the revision it was previewed on (publish.go,
\* publishPreviewToken): the token that the publish needs was handed out when
\* its newest drafts were staged, and names the base revisions.
THEOREM RestoresPublishCurrent == Spec => RestoreIsCurrent
<1>1. ASSUME RInv, [Next]_rvars, IsPublish, {d \in drafts \ drafts' : d.restore} # {}
      PROVE  \E d \in {x \in drafts \ drafts' : x.restore} : d.at = Len(snaps[d.env])
  <2>0. TypeOK
    BY <1>1 DEF RInv, Structural
  <2>1. PICK r \in drafts \ drafts' : r.restore
    BY <1>1
  <2>2. PICK p \in Principals : \E sel \in SUBSET Own(drafts, p) : Publish(p, sel)
    BY <1>1, <2>0, PublishOnly
  <2>3. PICK sel \in SUBSET Own(drafts, p) : Publish(p, sel)
    BY <2>2
  <2> DEFINE cl == Closure(drafts, p, sel)
  <2>4. cl = drafts \ drafts' /\ Previewed(cl)
    BY <2>3, Consumed
  <2>5. cl \in SUBSET Drafts
    BY <2>0, <2>4 DEF TypeOK
  <2> HIDE DEF cl
  <2>6. Token(cl) \in previews
    BY <2>1, <2>4 DEF Previewed
  <2>7. Token(cl).changes = cl /\ \A e \in EnvsOf(cl) : Token(cl).base[e] = Len(snaps[e])
    BY <2>0, <2>5, TokenType
  <2>8. PICK d \in cl : d.restore /\ d.at = Token(cl).base[d.env]
    BY <1>1, <2>6, <2>7 DEF RInv, PreviewsStaged
  <2>9. d.at = Len(snaps[d.env])
    BY <2>7, <2>8 DEF EnvsOf
  <2> QED BY <2>4, <2>8, <2>9
<1>2. RInv /\ [Next]_rvars =>
        [IsPublish => LET restored == {d \in drafts \ drafts' : d.restore} IN
           restored # {} => \E d \in restored : d.at = Len(snaps[d.env])]_rvars
  BY <1>1
<1> QED BY <1>2, Invariance, PTL DEF Spec, RestoreIsCurrent

-----------------------------------------------------------------------------
(* Refinement.                                                             *)

\* A commit extends the history of the environments it touches.
LEMMA MaterializeCommits ==
  ASSUME TypeOK, TypeOK', NEW es \in SUBSET Envs, NEW c, NEW cells, Materialize(es, c, cells),
         es \cap dropped = {}, dropped' = dropped
  PROVE  [History!Next]_<<snaps, dropped>>
<1>0. c \in Catalogues /\ cells \in [Envs -> [Keys -> Cells]]
  BY DEF Materialize, TypeOK
<1>1. Grown(es, c, cells)
  BY <1>0, MaterializeGrows
<1>2. \A e \in es : /\ Len(snaps'[e]) = Len(snaps[e]) + 1
                    /\ \A i \in 1..Len(snaps[e]) : snaps'[e][i] = snaps[e][i]
  BY <1>1 DEF Grown, Extends
<1>3. \A e \in Envs \ es : snaps'[e] = snaps[e]
  BY <1>1 DEF Grown
<1>4. CASE es = {}
  <2>1. snaps' = snaps
    BY <1>3, <1>4 DEF TypeOK
  <2> QED BY <2>1
<1>5. CASE es # {}
  <2>1. History!Commit(es)
    BY <1>2, <1>3, <1>5 DEF History!Commit
  <2> QED BY <2>1 DEF History!Next
<1> QED BY <1>4, <1>5

\* So does every committed selection.
LEMMA CommitSelectionCommits ==
  ASSUME RInv, NEW sel \in SUBSET drafts, CommitSelection(sel)
  PROVE  [History!Next]_<<snaps, dropped>>
<1> DEFINE es == EnvsOf(sel)
<1>1. TypeOK /\ TypeOK' /\ live \cap dropped = {} /\ live \in SUBSET Envs
  BY CommitInv DEF RInv, Structural, TypeOK, HistoryOfLive
<1>2. Materialize(es, catalogue, Applied(sel)) /\ dropped' = dropped
  BY DEF CommitSelection
<1>3. es \in SUBSET Envs /\ es \cap dropped = {}
  BY <1>1 DEF EnvsOf, RInv, Structural, DraftsLive
<1> HIDE DEF es
<1> QED BY <1>1, <1>2, <1>3, MaterializeCommits

\* Every step of the pipeline adds revisions, drops a history, or leaves both
\* the histories and the set of dropped environments alone.
LEMMA HistoryStep ==
  ASSUME RInv, [Next]_rvars
  PROVE  [History!Next]_<<snaps, dropped>>
<1> DEFINE Goal == [History!Next]_<<snaps, dropped>>
<1> SUFFICES Goal OBVIOUS
<1>0. /\ TypeOK /\ TypeOK' /\ live \cap dropped = {} /\ live \in SUBSET Envs
  BY NextInv DEF RInv, Structural, TypeOK, HistoryOfLive
<1>1. CASE UNCHANGED <<snaps, dropped>>
  BY <1>1
<1>2. CASE Drafting \/ UNCHANGED rvars
  <2>1. UNCHANGED <<snaps, dropped>>
    BY <1>2 DEF Drafting, Stage, Restore, rvars
  <2> QED BY <1>1, <2>1
<1>3. ASSUME NEW p \in Principals, NEW sel \in SUBSET Own(drafts, p), Publish(p, sel)
      PROVE  Goal
  BY <1>3, ClosureLive, CommitSelectionCommits DEF Publish
<1>4. ASSUME NEW es, NEW vals, WriteThrough(es, vals) PROVE Goal
  <2>1. Materialize(es, catalogue, Written(es, vals)) /\ dropped' = dropped /\ es \subseteq live
    BY <1>4 DEF WriteThrough
  <2>2. es \in SUBSET Envs /\ es \cap dropped = {}
    BY <1>0, <2>1
  <2> QED BY <1>0, <2>1, <2>2, MaterializeCommits
<1>5. ASSUME NEW c, FanOut(c) PROVE Goal
  <2>1. Materialize(live, [c EXCEPT !.revision = @ + 1], cell) /\ dropped' = dropped
    BY <1>5 DEF FanOut
  <2> QED BY <1>0, <2>1, MaterializeCommits
<1>6. ASSUME NEW e \in Envs, NEW src \in Envs, NEW ks \in SUBSET Keys, CreateEnvironment(e, src, ks)
      PROVE  Goal
  <2>1. /\ Materialize({e}, [catalogue EXCEPT !.revision = @ + 1], Written({e}, Material(src, ks)))
        /\ dropped' = dropped /\ e \notin dropped
    BY <1>6 DEF CreateEnvironment
  <2>2. {e} \in SUBSET Envs /\ {e} \cap dropped = {}
    BY <2>1
  <2> QED BY <1>0, <2>1, <2>2, MaterializeCommits
<1>7. ASSUME NEW e \in Envs, DeleteEnvironment(e) PROVE Goal
  <2>1. History!Drop(e)
    BY <1>0, <1>7 DEF DeleteEnvironment, History!Drop
  <2> QED BY <2>1 DEF History!Next
<1>8. ASSUME NEW c, NextSchema(c) PROVE Goal
  BY <1>1, <1>8 DEF NextSchema
<1> HIDE DEF Goal
<1>9. ASSUME \/ \E es \in SUBSET live, k \in Keys, v \in Values : Declare(es, k, v)
             \/ Importing(live) \/ Copying(live)
      PROVE  Goal
  BY <1>4, <1>9 DEF Declare, Importing, Import, Copying, Copy
<1>10. CASE Structure
  <2>1. ASSUME NEW k \in Keys, NEW g, SetGroup(k, g) PROVE Goal
    BY <1>5, <2>1 DEF SetGroup
  <2>2. ASSUME NEW k \in Keys, NEW rule, NEW vs, UpdateDeclaration(k, rule, vs) PROVE Goal
    BY <1>5, <2>2 DEF UpdateDeclaration
  <2>3. ASSUME NEW k \in Keys, NEW g, NEW rule, NEW vs, NEW config, KeyCreate(k, g, rule, vs, config) PROVE Goal
    BY <1>5, <2>3 DEF KeyCreate
  <2>4. ASSUME NEW k \in Keys, KeyDelete(k) \/ KeyRename(k) \/ Reclassify(k) \/ UpdateMetadata(k)
        PROVE  Goal
    BY <1>5, <1>8, <2>4 DEF KeyDelete, KeyRename, Reclassify, Reissue, UpdateMetadata, BumpSchema
  <2>5. ASSUME NEW g \in Groups, DeleteGroup(g) \/ GroupCreate(g) \/ GroupRename(g) PROVE Goal
    BY <1>5, <1>8, <2>5 DEF DeleteGroup, GroupCreate, GroupRename, BumpSchema
  <2>6. ASSUME NEW e \in Envs, EnvironmentRename(e) \/ \E q \in Params : SetParameter(e, q)
        PROVE  Goal
    BY <1>8, <2>6 DEF EnvironmentRename, SetParameter, BumpSchema
  <2> QED BY <1>6, <1>10, <2>1, <2>2, <2>3, <2>4, <2>5, <2>6 DEF Structure
<1>11. CASE Publishing
  BY <1>3, <1>11 DEF Publishing
<1> QED BY <1>2, <1>7, <1>9, <1>10, <1>11 DEF Next

\* An environment starts with one revision, or with none.
LEMMA HistoryInit == Init => History!Init
<1> SUFFICES ASSUME Init, NEW e \in Envs PROVE dropped = {} /\ Len(snaps[e]) <= 1
  BY DEF History!Init, Init
<1>1. snaps[e] = << >> \/ snaps[e] = << [cells |-> [k \in Keys |-> Absent], schema |-> 1, params |-> {}] >>
  BY DEF Init
<1> QED BY <1>1 DEF Init

\* The revisions of every environment are one immutable, gapless log that a
\* deletion ends for good (publish.go, materialize; the snapshots table).
THEOREM HistoryRefinement == Spec => ImplementsRevisionLog
<1>1. Init => History!Init
  BY HistoryInit
<1>2. RInv /\ [Next]_rvars => [History!Next]_<<snaps, dropped>>
  BY HistoryStep
<1> QED BY <1>1, <1>2, Invariance, PTL DEF Spec, ImplementsRevisionLog, History!Spec

\* Neither a stale draft nor an outdated restore is ever published (publish.go,
\* PublishPlanned).
THEOREM PublishesAreCurrent == Spec => PublishesCurrent
<1> QED BY LostUpdateFree, RestoresPublishCurrent, PTL DEF PublishesCurrent

-----------------------------------------------------------------------------
(* Approvals: the publish pipeline behind the gate.                        *)

\* What a request pins is of its environment and not empty.
SelectionsPinned ==
  \A i \in DOMAIN requests :
    requests[i].sel # {} /\ \A d \in requests[i].sel : d.env = requests[i].env

\* A vote names a request, and a rejection has resolved it.
RejectionsResolve ==
  \A v \in votes :
    v.request \in DOMAIN requests /\ (~v.approve => ~Active(requests[v.request]))

AInv ==
  /\ RInv
  /\ ApprovalTypeOK
  /\ SelectionsPinned
  /\ RejectionsResolve
  /\ IsFiniteSet(votes)

\* The fields of a request.
LEMMA RequestFields ==
  ASSUME ApprovalTypeOK, NEW i \in DOMAIN requests
  PROVE  /\ requests[i] \in Requests
         /\ requests[i].env \in Envs
         /\ requests[i].requester \in Principals
         /\ requests[i].sel \in SUBSET Drafts
         /\ requests[i].digest \in Tokens
         /\ requests[i].state \in States
         /\ requests[i].cause \in Causes
<1>1. requests \in Seq(Requests)
  BY DEF ApprovalTypeOK
<1>2. requests[i] \in Requests
  BY <1>1
<1> QED BY <1>2 DEF Requests

\* A merge, a bypass and a publish through a resolved request commit the
\* selection that the request pins, closed again over its requester's drafts.
LEMMA NamedSelection ==
  ASSUME NEW i \in DOMAIN requests, Named(i)
  PROVE  /\ requests[i].sel \in SUBSET Own(drafts, requests[i].requester)
         /\ OneOwner(drafts, requests[i].requester, requests[i].sel)
         /\ Rebuilt(requests[i]) \in SUBSET drafts
<1>1. /\ requests[i].sel \in SUBSET Own(drafts, requests[i].requester)
      /\ OneOwner(drafts, requests[i].requester, requests[i].sel)
  BY DEF Named, Resolves
<1> QED BY <1>1, ClosureLive DEF Rebuilt

\* Seen from the pipeline, a step of the gated system is a step of the pipeline
\* or commits the selection that a request names.
CommitsNamed(i) == Named(i) /\ CommitSelection(Rebuilt(requests[i]))

LEMMA PipelineStep ==
  ASSUME TypeOK, [ApprovalNext]_vars
  PROVE  [Next]_rvars \/ \E i \in DOMAIN requests : CommitsNamed(i)
<1> DEFINE Goal == [Next]_rvars \/ \E i \in DOMAIN requests : CommitsNamed(i)
<1> SUFFICES Goal OBVIOUS
<1>1. ASSUME UNCHANGED rvars PROVE Goal
  BY <1>1
<1>2. ASSUME NEW p \in Principals, NEW sel \in SUBSET Own(drafts, p), PublishUncovered(p, sel)
      PROVE  Goal
  BY <1>2 DEF PublishUncovered, Next, Publishing
<1>3. ASSUME NEW i \in DOMAIN requests, PublishResolved(i) \/ Merge(i) \/ Bypass(i)
      PROVE  Goal
  BY <1>3 DEF PublishResolved, Merge, Bypass, CommitRequest, Reviewable, Gate, CommitsNamed
<1>4. CASE WriteUncovered
  <2>1. Importing(live) \/ Copying(live)
    BY <1>4 DEF WriteUncovered, Importing, Copying
  <2> QED BY <2>1 DEF Next
<1>5. CASE Ungated
  BY <1>5 DEF Ungated, Next
<1>6. ASSUME NEW e \in Envs, DeleteCovered(e) PROVE Goal
  BY <1>6 DEF DeleteCovered, Next
<1> HIDE DEF Goal
<1>7. ASSUME NEW s, NEW rule, CreatePolicy(s, rule) \/ UpdatePolicy(s, rule) PROVE Goal
  BY <1>1, <1>7 DEF CreatePolicy, UpdatePolicy
<1>8. ASSUME NEW s, DeletePolicy(s) PROVE Goal
  BY <1>1, <1>8 DEF DeletePolicy
<1>9. ASSUME NEW p, NEW e, NEW sel, RequestApproval(p, e, sel) PROVE Goal
  BY <1>1, <1>9 DEF RequestApproval
<1>10. ASSUME NEW i \in DOMAIN requests,
              MergeUncovered(i) \/ MergeStalePolicy(i) \/ MergeDrifted(i) \/ MergeQuorumLost(i)
       PROVE  Goal
  BY <1>1, <1>10 DEF MergeUncovered, MergeStalePolicy, MergeDrifted, MergeQuorumLost, Invalidate
<1>11. ASSUME NEW i \in DOMAIN requests, NEW p, NEW at, NEW approve,
              \/ MergeUnresolved(p, i) \/ VoteStalePolicy(p, i, at)
              \/ VoteDrifted(p, i, approve, at) \/ CastVote(p, i, approve, at)
       PROVE  Goal
  BY <1>1, <1>11 DEF MergeUnresolved, VoteStalePolicy, VoteDrifted, CastVote, Invalidate
<1>12. ASSUME NEW at, ExpireDue(at) PROVE Goal
  BY <1>1, <1>12 DEF ExpireDue
<1>13. ASSUME NEW p, SetAuthority(p) PROVE Goal
  BY <1>1, <1>13 DEF SetAuthority
<1>14. CASE Tick
  BY <1>1, <1>14 DEF Tick
<1>15. CASE UNCHANGED vars
  BY <1>1, <1>15 DEF vars
<1> QED BY <1>2, <1>3, <1>4, <1>5, <1>6, <1>7, <1>8, <1>9, <1>10, <1>11, <1>12, <1>13, <1>14, <1>15
        DEF ApprovalNext

\* The gate keeps the pipeline's invariant.
LEMMA GatedInv == RInv /\ [ApprovalNext]_vars => RInv'
<1> SUFFICES ASSUME RInv, [ApprovalNext]_vars PROVE RInv' OBVIOUS
<1>1. TypeOK
  BY DEF RInv, Structural
<1>2. ASSUME NEW i \in DOMAIN requests, CommitsNamed(i) PROVE RInv'
  BY <1>2, NamedSelection, CommitInv DEF CommitsNamed
<1> QED BY <1>1, <1>2, PipelineStep, NextInv

LEMMA GatedInvariance == ApprovalSpec => []RInv
<1>1. ApprovalInit => RInv
  BY InitInv DEF ApprovalInit
<1> QED BY <1>1, GatedInv, PTL DEF ApprovalSpec

\* What is delivered is what is published, legal under the rules of the moment
\* and the parameters captured with it, and every pending change could still be
\* published, also where merges, bypasses and publishes through
\* resolved requests commit the selections of requests (approvals.go,
\* approvalMergeGate; publish.go, materialize).
THEOREM GatedProjectConsistent == ApprovalSpec => []ProjectConsistent
<1>1. RInv => ProjectConsistent
  BY DEF RInv, Structural, ProjectConsistent
<1> QED BY <1>1, GatedInvariance, PTL

\* What a publish takes away in the gated system, however it was let through.
LEMMA GatedConsumed ==
  ASSUME TypeOK, [ApprovalNext]_vars, IsPublish, NEW d \in drafts \ drafts'
  PROVE  \E p : \E sel \in SUBSET Own(drafts, p) :
           /\ drafts \ drafts' = Closure(drafts, p, sel)
           /\ Fresh(Closure(drafts, p, sel))
           /\ OneOwner(drafts, p, sel)
           /\ drafts' \subseteq drafts
<1>1. CASE [Next]_rvars
  <2>1. PICK p \in Principals : \E sel \in SUBSET Own(drafts, p) : Publish(p, sel)
    BY <1>1, PublishOnly
  <2>2. PICK sel \in SUBSET Own(drafts, p) : Publish(p, sel)
    BY <2>1
  <2> QED BY <2>2, Consumed
<1>2. ASSUME NEW i \in DOMAIN requests, CommitsNamed(i)
      PROVE  \E p : \E sel \in SUBSET Own(drafts, p) :
               /\ drafts \ drafts' = Closure(drafts, p, sel)
               /\ Fresh(Closure(drafts, p, sel))
               /\ OneOwner(drafts, p, sel)
               /\ drafts' \subseteq drafts
  <2>1. drafts' \subseteq drafts /\ drafts \ drafts' = Rebuilt(requests[i]) /\ Fresh(Rebuilt(requests[i]))
    BY <1>2, NamedSelection DEF CommitsNamed, CommitSelection
  <2> QED BY <1>2, <2>1, NamedSelection DEF CommitsNamed, Rebuilt
<1> QED BY <1>1, <1>2, PipelineStep

\* No lost update in the gated system either: a selection reviewed long ago is
\* merged only over the cells its drafts were staged on (publish.go,
\* checkFreshness, against approvals.go, approvalMergeGate).
THEOREM GatedLostUpdateFree == ApprovalSpec => NoLostUpdate
<1>1. ASSUME RInv, [ApprovalNext]_vars, IsPublish, NEW d \in drafts \ drafts'
      PROVE  LET seen == snaps[d.env][d.at].cells[d.key] IN
               IF seen = Absent THEN cell[d.env][d.key] = Absent
               ELSE \A i \in d.at..Len(snaps[d.env]) : snaps[d.env][i].cells[d.key] = seen
  <2>1. TypeOK /\ d \in drafts
    BY <1>1 DEF RInv, Structural
  <2>2. cell[d.env][d.key].entry = d.from
    BY <1>1, <2>1, GatedConsumed DEF Fresh
  <2> QED BY <1>1, <2>1, <2>2, FreshNotLost
<1>2. RInv /\ [ApprovalNext]_vars =>
        [IsPublish => \A d \in drafts \ drafts' :
           LET seen == snaps[d.env][d.at].cells[d.key] IN
             IF seen = Absent THEN cell[d.env][d.key] = Absent
             ELSE \A i \in d.at..Len(snaps[d.env]) : snaps[d.env][i].cells[d.key] = seen]_rvars
  BY <1>1
<1> QED BY <1>2, GatedInvariance, PTL DEF ApprovalSpec, NoLostUpdate

\* A merge takes whole groups: the closure and the one-owner rule are computed
\* again when the reviewed selection is published (publish.go, selectVersions).
THEOREM GatedGroupsPublishWhole == ApprovalSpec => GroupNotSplit
<1>1. ASSUME RInv, [ApprovalNext]_vars, IsPublish, NEW d \in drafts \ drafts', NEW x \in drafts'
      PROVE  ~Coupled(d, x)
  <2>1. TypeOK
    BY <1>1 DEF RInv, Structural
  <2>2. PICK p : \E sel \in SUBSET Own(drafts, p) :
                   drafts \ drafts' = Closure(drafts, p, sel) /\ OneOwner(drafts, p, sel)
    BY <1>1, <2>1, GatedConsumed
  <2>3. PICK sel \in SUBSET Own(drafts, p) :
                   drafts \ drafts' = Closure(drafts, p, sel) /\ OneOwner(drafts, p, sel)
    BY <2>2
  <2>4. x \in drafts
    BY <1>1, <2>1, GatedConsumed
  <2> QED BY <1>1, <2>3, <2>4, ClosedSelectionWhole
<1>2. RInv /\ [ApprovalNext]_vars =>
        [IsPublish => \A d \in drafts \ drafts', x \in drafts' : ~Coupled(d, x)]_rvars
  BY <1>1
<1> QED BY <1>2, GatedInvariance, PTL DEF ApprovalSpec, GroupNotSplit

\* The revisions stay one immutable, gapless log behind the gate (publish.go,
\* materialize; the snapshots table).
THEOREM GatedHistoryRefinement == ApprovalSpec => ImplementsRevisionLog
<1>1. ApprovalInit => History!Init
  BY HistoryInit DEF ApprovalInit
<1>2. RInv /\ [ApprovalNext]_vars => [History!Next]_<<snaps, dropped>>
  <2>1. ASSUME RInv, NEW i \in DOMAIN requests, CommitsNamed(i)
        PROVE  [History!Next]_<<snaps, dropped>>
    BY <2>1, NamedSelection, CommitSelectionCommits DEF CommitsNamed
  <2>2. RInv => TypeOK
    BY DEF RInv, Structural
  <2> QED BY <2>1, <2>2, PipelineStep, HistoryStep
<1> QED BY <1>1, <1>2, GatedInvariance, PTL DEF ApprovalSpec, ImplementsRevisionLog, History!Spec

-----------------------------------------------------------------------------
(* Approvals: requests and votes.                                          *)

\* What a step may do to the requests: what they pin stays, a resolved one goes
\* at most with its environment, a new one pins drafts of its environment, and
\* only a merge or a bypass says so.
RequestsStep ==
  /\ requests' \in Seq(Requests)
  /\ DOMAIN requests \subseteq DOMAIN requests'
  /\ \A j \in DOMAIN requests :
       /\ requests'[j].env = requests[j].env /\ requests'[j].sel = requests[j].sel
       /\ ~Active(requests[j]) => requests'[j].state \in {requests[j].state, "deleted"}
       /\ \/ requests'[j].state = requests[j].state
          \/ requests'[j].state \notin {"merged", "bypassed"}
          \/ requests'[j].state = "merged" /\ Merge(j)
          \/ requests'[j].state = "bypassed" /\ Bypass(j)
  /\ \A j \in DOMAIN requests' \ DOMAIN requests :
       requests'[j].sel # {} /\ \A d \in requests'[j].sel : d.env = requests'[j].env

\* What a step may do to the votes: take some away, or add one on a request
\* that was active and that a rejection resolves.
VotesStep ==
  \/ votes' \subseteq votes
  \/ \E v \in Votes :
       /\ votes' = votes \cup {v}
       /\ v.request \in DOMAIN requests /\ Active(requests[v.request])
       /\ ~v.approve => ~Active(requests'[v.request])

\* The rest of the state.
SettingsTyped ==
  /\ policies \in [Scopes -> Policies \cup {NoPolicy}]
  /\ minted \in Nat
  /\ publishers \subseteq Principals
  /\ now \in Nat

\* UpdateApprovalRequestState moves state and cause of one request.
LEMMA ResolveOne ==
  ASSUME ApprovalTypeOK, NEW i \in DOMAIN requests, NEW state \in States, NEW cause \in Causes,
         Resolve(i, state, cause)
  PROVE  /\ requests' \in Seq(Requests)
         /\ DOMAIN requests' = DOMAIN requests
         /\ requests'[i] = [requests[i] EXCEPT !.state = state, !.cause = cause]
         /\ \A j \in DOMAIN requests \ {i} : requests'[j] = requests[j]
<1>1. requests \in Seq(Requests)
  BY DEF ApprovalTypeOK
<1>2. requests[i] \in Requests
  BY RequestFields
<1>3. requests' = [requests EXCEPT ![i] = [requests[i] EXCEPT !.state = state, !.cause = cause]]
  BY <1>1 DEF Resolve
<1>4. [requests[i] EXCEPT !.state = state, !.cause = cause] \in Requests
  BY <1>2 DEF Requests
<1> QED BY <1>1, <1>3, <1>4

\* A request that is active, or keeps its state, may be resolved to any state
\* that claims neither a merge nor a bypass.
LEMMA ResolveStep ==
  ASSUME ApprovalTypeOK, NEW i \in DOMAIN requests, NEW state \in States, NEW cause \in Causes,
         Resolve(i, state, cause), Active(requests[i]),
         \/ state \notin {"merged", "bypassed"}
         \/ state = "merged" /\ Merge(i)
         \/ state = "bypassed" /\ Bypass(i)
  PROVE  RequestsStep /\ requests'[i].state = state /\ DOMAIN requests' = DOMAIN requests
<1>1. /\ requests' \in Seq(Requests)
      /\ DOMAIN requests' = DOMAIN requests
      /\ requests'[i] = [requests[i] EXCEPT !.state = state, !.cause = cause]
      /\ \A j \in DOMAIN requests \ {i} : requests'[j] = requests[j]
  BY ResolveOne
<1>2. requests[i] \in Requests
  BY RequestFields
<1>3. requests'[i].env = requests[i].env /\ requests'[i].sel = requests[i].sel /\ requests'[i].state = state
  BY <1>1, <1>2 DEF Requests
<1> QED BY <1>1, <1>3 DEF RequestsStep

\* commitInvalidation.
LEMMA InvalidateStep ==
  ASSUME AInv, NEW i \in DOMAIN requests, NEW cause \in Causes, Active(requests[i]), Invalidate(i, cause)
  PROVE  RequestsStep /\ VotesStep /\ SettingsTyped'
<1>1. ApprovalTypeOK /\ "invalidated" \in States
  BY DEF AInv, States
<1>2. RequestsStep
  BY <1>1, ResolveStep DEF Invalidate
<1> QED BY <1>1, <1>2 DEF Invalidate, VotesStep, SettingsTyped, ApprovalTypeOK

\* The requests, votes and settings stay.
LEMMA UnmovedStep ==
  ASSUME AInv, UNCHANGED avars
  PROVE  RequestsStep /\ VotesStep /\ SettingsTyped'
BY DEF avars, AInv, ApprovalTypeOK, RequestsStep, VotesStep, SettingsTyped

\* The settings move; the requests and votes stay.
LEMMA SettingsStep ==
  ASSUME AInv, UNCHANGED <<requests, votes>>,
         \/ \E s \in Scopes, rule \in PolicyInputs : CreatePolicy(s, rule) \/ UpdatePolicy(s, rule)
         \/ \E s \in Scopes : DeletePolicy(s)
         \/ \E p \in Principals : SetAuthority(p)
         \/ Tick
  PROVE  RequestsStep /\ VotesStep /\ SettingsTyped'
<1>1. RequestsStep /\ VotesStep
  BY DEF AInv, ApprovalTypeOK, RequestsStep, VotesStep
<1>2. SettingsTyped
  BY DEF AInv, ApprovalTypeOK, SettingsTyped
<1>3. ASSUME NEW s \in Scopes, NEW rule \in PolicyInputs, CreatePolicy(s, rule)
      PROVE  SettingsTyped'
  <2>1. [id |-> minted + 1, version |-> 1, rule |-> rule] \in Policies
    BY <1>2 DEF SettingsTyped, Policies
  <2> QED BY <1>2, <1>3, <2>1 DEF SettingsTyped, CreatePolicy
<1>4. ASSUME NEW s \in Scopes, NEW rule \in PolicyInputs, UpdatePolicy(s, rule)
      PROVE  SettingsTyped'
  <2>1. policies[s] \in Policies
    BY <1>2, <1>4 DEF SettingsTyped, UpdatePolicy
  <2>2. [policies[s] EXCEPT !.version = @ + 1, !.rule = rule] \in Policies
    <3>1. policies[s].version + 1 \in Nat
      BY <2>1 DEF Policies
    <3>2. \A n \in Nat : [policies[s] EXCEPT !.version = n, !.rule = rule] \in Policies
      BY <2>1 DEF Policies
    <3> QED BY <3>1, <3>2
  <2>3. policies' = [policies EXCEPT ![s] = [policies[s] EXCEPT !.version = @ + 1, !.rule = rule]]
    BY <1>2, <1>4 DEF SettingsTyped, UpdatePolicy
  <2> QED BY <1>2, <1>4, <2>2, <2>3 DEF SettingsTyped, UpdatePolicy
<1>5. ASSUME NEW s \in Scopes, DeletePolicy(s) PROVE SettingsTyped'
  BY <1>2, <1>5 DEF SettingsTyped, DeletePolicy
<1>6. ASSUME NEW p \in Principals, SetAuthority(p) PROVE SettingsTyped'
  BY <1>2, <1>6 DEF SettingsTyped, SetAuthority
<1>7. ASSUME Tick PROVE SettingsTyped'
  <2>1. now' = now + 1 /\ UNCHANGED <<policies, minted, publishers>>
    BY <1>7 DEF Tick
  <2> QED BY <1>2, <2>1 DEF SettingsTyped
<1> QED BY <1>1, <1>3, <1>4, <1>5, <1>6, <1>7

\* approvalCreateGate.
LEMMA RequestApprovalStep ==
  ASSUME AInv, NEW p \in Principals, NEW sel \in SUBSET Own(drafts, p), NEW e \in live,
         RequestApproval(p, e, sel)
  PROVE  RequestsStep /\ VotesStep /\ SettingsTyped'
<1> DEFINE r == [env |-> e, requester |-> p, sel |-> sel,
                 digest |-> Token(Closure(drafts, p, sel)), policy |-> Covering(e).id,
                 version |-> Covering(e).version, expires |-> now + TTL,
                 state |-> "open", cause |-> ""]
<1>1. TypeOK /\ ApprovalTypeOK /\ requests \in Seq(Requests) /\ e \in Envs
  BY DEF AInv, RInv, Structural, ApprovalTypeOK, TypeOK
<1>2. requests' = Append(requests, r) /\ sel # {} /\ EnvsOf(sel) = {e} /\ Covered(e)
  BY DEF RequestApproval
<1>3. r \in Requests
  <2>1. sel \in SUBSET Drafts /\ Closure(drafts, p, sel) \in SUBSET Drafts
    BY <1>1, ClosureLive DEF TypeOK, Own
  <2>2. Token(Closure(drafts, p, sel)) \in Tokens
    BY <1>1, <2>1, TokenType
  <2>3. Covering(e) \in Policies
    BY <1>1, <1>2 DEF Covered, Covering, ApprovalTypeOK, Scopes
  <2>4. Covering(e).id \in Nat /\ Covering(e).version \in Nat
    BY <2>3 DEF Policies
  <2>5. now + TTL \in Nat
    BY <1>1, ApprovalBoundsAssumption DEF ApprovalTypeOK
  <2>6. "open" \in States /\ "" \in Causes
    BY DEF States, Causes
  <2> QED BY <1>1, <2>1, <2>2, <2>4, <2>5, <2>6 DEF Requests
<1>4. r.sel # {} /\ \A d \in r.sel : d.env = r.env
  BY <1>2 DEF EnvsOf
<1> HIDE DEF r
<1>5. /\ requests' \in Seq(Requests)
      /\ Len(requests') = Len(requests) + 1
      /\ requests'[Len(requests) + 1] = r
      /\ \A i \in 1..Len(requests) : requests'[i] = requests[i]
  BY <1>1, <1>2, <1>3, Appended
<1>6. DOMAIN requests = 1..Len(requests) /\ DOMAIN requests' = 1..(Len(requests) + 1) /\ Len(requests) \in Nat
  BY <1>1, <1>5
<1>7. \A j \in DOMAIN requests' \ DOMAIN requests : j = Len(requests) + 1
  BY <1>6
<1>8. RequestsStep
  BY <1>4, <1>5, <1>6, <1>7 DEF RequestsStep
<1> QED BY <1>1, <1>8 DEF RequestApproval, VotesStep, SettingsTyped, ApprovalTypeOK

\* The refusals that commit an invalidation.
LEMMA RefusalStep ==
  ASSUME AInv, NEW i \in DOMAIN requests,
         \/ MergeUncovered(i) \/ MergeStalePolicy(i) \/ MergeDrifted(i) \/ MergeQuorumLost(i)
         \/ \E p : MergeUnresolved(p, i)
         \/ \E p, at : VoteStalePolicy(p, i, at)
         \/ \E p, at, approve : VoteDrifted(p, i, approve, at)
  PROVE  RequestsStep /\ VotesStep /\ SettingsTyped'
<1>1. /\ "policy_changed" \in Causes /\ "draft_edited" \in Causes /\ "approver_removed" \in Causes
      /\ DriftCause(requests[i]) \in Causes
  BY DEF Causes, DriftCause
<1>2. Active(requests[i]) /\ \E cause \in Causes : Invalidate(i, cause)
  BY <1>1 DEF MergeUncovered, MergeStalePolicy, MergeDrifted, MergeQuorumLost, MergeUnresolved,
              VoteStalePolicy, VoteDrifted, Reviewable, Gate, MayVote, Votable
<1> QED BY <1>2, InvalidateStep

\* Approvals.Vote.
LEMMA CastVoteStep ==
  ASSUME AInv, NEW p \in Principals, NEW i \in DOMAIN requests, NEW approve \in BOOLEAN, NEW at,
         CastVote(p, i, approve, at)
  PROVE  RequestsStep /\ VotesStep /\ SettingsTyped'
<1> DEFINE v == [request |-> i, voter |-> p, approve |-> approve]
           cast == votes \cup {v}
           state == CASE ~approve -> "rejected"
                      [] approve /\ Quorum(i, PolicyById(requests[i].policy), cast) -> "approved"
                      [] OTHER -> requests[i].state
<1>1. ApprovalTypeOK /\ requests \in Seq(Requests)
  BY DEF AInv, ApprovalTypeOK
<1>2. /\ Active(requests[i]) /\ votes' = cast
      /\ Resolve(i, state, "")
      /\ UNCHANGED <<policies, minted, publishers, now>>
  BY DEF CastVote, MayVote, Votable
<1>3. state \in {"rejected", "approved", requests[i].state} /\ (~approve => state = "rejected")
  OBVIOUS
<1>4. state \in States /\ "" \in Causes /\ state \notin {"merged", "bypassed"}
  BY <1>2, <1>3 DEF Active, States, Causes
<1> HIDE DEF state
<1>5. RequestsStep /\ requests'[i].state = state
  BY <1>1, <1>2, <1>4, ResolveStep
<1>6. i \in Nat
  BY <1>1
<1>7. v \in Votes /\ v.request = i /\ (~v.approve => requests'[i].state = "rejected")
  BY <1>3, <1>5, <1>6 DEF Votes
<1> HIDE DEF v
<1>8. VotesStep
  BY <1>2, <1>7 DEF VotesStep, Active
<1> QED BY <1>1, <1>2, <1>5, <1>8 DEF SettingsTyped, ApprovalTypeOK

\* A map over the requests that moves states only, and none to merged or
\* bypassed.
LEMMA SweepStep ==
  ASSUME ApprovalTypeOK, NEW state \in States \ {"merged", "bypassed"}, NEW S \in SUBSET DOMAIN requests,
         requests' = [j \in DOMAIN requests |->
           IF j \in S THEN [requests[j] EXCEPT !.state = state] ELSE requests[j]],
         \A j \in S : Active(requests[j]) \/ state = "deleted"
  PROVE  RequestsStep /\ \A j \in S : requests'[j].state = state
<1>1. requests \in Seq(Requests)
  BY DEF ApprovalTypeOK
<1>2. ASSUME NEW j \in DOMAIN requests
      PROVE  /\ [requests[j] EXCEPT !.state = state] \in Requests
             /\ [requests[j] EXCEPT !.state = state].env = requests[j].env
             /\ [requests[j] EXCEPT !.state = state].sel = requests[j].sel
             /\ [requests[j] EXCEPT !.state = state].state = state
  <2>1. requests[j] \in Requests
    BY RequestFields
  <2> QED BY <2>1 DEF Requests
<1>3. DOMAIN requests' = DOMAIN requests
  OBVIOUS
<1>4. ASSUME NEW j \in DOMAIN requests
      PROVE  requests'[j] \in Requests
  BY <1>1, <1>2
<1>5. requests' \in Seq(Requests)
  <2>1. PICK n \in Nat : DOMAIN requests = 1..n
    BY <1>1
  <2>2. requests' \in [1..n -> Requests]
    BY <1>3, <1>4, <2>1
  <2>3. Seq(Requests) = UNION {[1..m -> Requests] : m \in Nat}
    OBVIOUS
  <2> QED BY <2>1, <2>2, <2>3
<1>6. ASSUME NEW j \in DOMAIN requests
      PROVE  /\ requests'[j].env = requests[j].env /\ requests'[j].sel = requests[j].sel
             /\ j \in S => requests'[j].state = state
             /\ j \notin S => requests'[j] = requests[j]
  BY <1>2
<1> QED BY <1>3, <1>5, <1>6 DEF RequestsStep

\* Approvals.ExpireDue.
LEMMA ExpireStep ==
  ASSUME AInv, NEW at, ExpireDue(at)
  PROVE  RequestsStep /\ VotesStep /\ SettingsTyped'
<1> DEFINE S == {j \in DOMAIN requests : Due(requests[j], at)}
<1>1. ApprovalTypeOK /\ "expired" \in States \ {"merged", "bypassed"}
  BY DEF AInv, States
<1>2. requests' = [j \in DOMAIN requests |->
        IF j \in S THEN [requests[j] EXCEPT !.state = "expired"] ELSE requests[j]]
  BY DEF ExpireDue
<1>3. \A j \in S : Active(requests[j])
  BY DEF Due
<1> HIDE DEF S
<1>4. S \in SUBSET DOMAIN requests
  BY DEF S
<1>5. RequestsStep
  BY <1>1, <1>2, <1>3, <1>4, SweepStep
<1> QED BY <1>1, <1>5 DEF ExpireDue, VotesStep, SettingsTyped, ApprovalTypeOK

\* Environments.Delete takes the requests and votes of the environment along.
LEMMA DeleteCoveredStep ==
  ASSUME AInv, NEW e \in Envs, DeleteCovered(e)
  PROVE  RequestsStep /\ VotesStep /\ SettingsTyped'
<1> DEFINE S == {j \in DOMAIN requests : requests[j].env = e}
<1>1. ApprovalTypeOK /\ "deleted" \in States \ {"merged", "bypassed"}
  BY DEF AInv, States
<1>2. requests' = [j \in DOMAIN requests |->
        IF j \in S THEN [requests[j] EXCEPT !.state = "deleted"] ELSE requests[j]]
  BY DEF DeleteCovered
<1> HIDE DEF S
<1>3. S \in SUBSET DOMAIN requests
  BY DEF S
<1>4. RequestsStep
  BY <1>1, <1>2, <1>3, SweepStep
<1> QED BY <1>1, <1>4 DEF DeleteCovered, VotesStep, SettingsTyped, ApprovalTypeOK

\* The gates' commits.
LEMMA CommitRequestStep ==
  ASSUME AInv, NEW i \in DOMAIN requests, Merge(i) \/ Bypass(i)
  PROVE  RequestsStep /\ VotesStep /\ SettingsTyped'
<1>1. ApprovalTypeOK /\ "merged" \in States /\ "bypassed" \in States /\ "" \in Causes
  BY DEF AInv, States, Causes
<1>2. Active(requests[i])
  BY DEF Merge, Bypass, Reviewable, Gate
<1>3. \/ Merge(i) /\ Resolve(i, "merged", "")
      \/ Bypass(i) /\ Resolve(i, "bypassed", "")
  BY DEF Merge, Bypass, CommitRequest
<1>4. RequestsStep
  BY <1>1, <1>2, <1>3, ResolveStep
<1>5. UNCHANGED <<policies, minted, publishers, votes, now>>
  BY DEF Merge, Bypass, CommitRequest
<1> QED BY <1>1, <1>4, <1>5 DEF VotesStep, SettingsTyped, ApprovalTypeOK

\* Every step moves requests and votes as described.
LEMMA ApprovalStep ==
  ASSUME AInv, [ApprovalNext]_vars
  PROVE  RequestsStep /\ VotesStep /\ SettingsTyped'
<1> DEFINE Goal == RequestsStep /\ VotesStep /\ SettingsTyped'
<1> SUFFICES Goal OBVIOUS
<1>1. ASSUME NEW p, NEW sel, PublishUncovered(p, sel) PROVE Goal
  BY <1>1, UnmovedStep DEF PublishUncovered
<1>2. ASSUME NEW i, PublishResolved(i) PROVE Goal
  BY <1>2, UnmovedStep DEF PublishResolved
<1>3. CASE WriteUncovered \/ Ungated \/ UNCHANGED vars
  <2>1. UNCHANGED avars
    BY <1>3 DEF WriteUncovered, Ungated, vars
  <2> QED BY <2>1, UnmovedStep
<1>4. ASSUME \/ \E s \in Scopes, rule \in PolicyInputs : CreatePolicy(s, rule) \/ UpdatePolicy(s, rule)
             \/ \E s \in Scopes : DeletePolicy(s)
             \/ \E p \in Principals : SetAuthority(p)
             \/ Tick
      PROVE  Goal
  <2>1. UNCHANGED <<requests, votes>>
    BY <1>4 DEF CreatePolicy, UpdatePolicy, DeletePolicy, SetAuthority, Tick
  <2> QED BY <1>4, <2>1, SettingsStep
<1>5. ASSUME NEW p \in Principals, NEW sel \in SUBSET Own(drafts, p), NEW e \in live,
             RequestApproval(p, e, sel)
      PROVE  Goal
  BY <1>5, RequestApprovalStep
<1>6. ASSUME NEW i \in DOMAIN requests,
             \/ MergeUncovered(i) \/ MergeStalePolicy(i) \/ MergeDrifted(i) \/ MergeQuorumLost(i)
             \/ \E p : MergeUnresolved(p, i)
             \/ \E p, at : VoteStalePolicy(p, i, at)
             \/ \E p, at, approve : VoteDrifted(p, i, approve, at)
      PROVE  Goal
  BY <1>6, RefusalStep
<1>7. ASSUME NEW i \in DOMAIN requests, Merge(i) \/ Bypass(i) PROVE Goal
  BY <1>7, CommitRequestStep
<1>8. ASSUME NEW p \in Principals, NEW i \in DOMAIN requests, NEW approve \in BOOLEAN, NEW at,
             CastVote(p, i, approve, at)
      PROVE  Goal
  BY <1>8, CastVoteStep
<1>9. ASSUME NEW at, ExpireDue(at) PROVE Goal
  BY <1>9, ExpireStep
<1>10. ASSUME NEW e \in Envs, DeleteCovered(e) PROVE Goal
  BY <1>10, DeleteCoveredStep
<1> HIDE DEF Goal
<1> QED BY <1>1, <1>2, <1>3, <1>4, <1>5, <1>6, <1>7, <1>8, <1>9, <1>10 DEF ApprovalNext

\* The invariant of the approvals is inductive.
LEMMA ApprovalInvNext == AInv /\ [ApprovalNext]_vars => AInv'
<1> SUFFICES ASSUME AInv, [ApprovalNext]_vars PROVE AInv' OBVIOUS
<1>1. RequestsStep /\ VotesStep /\ SettingsTyped'
  BY ApprovalStep
<1>2. RInv'
  BY GatedInv DEF AInv
<1>3. ApprovalTypeOK'
  BY <1>1 DEF RequestsStep, VotesStep, SettingsTyped, AInv, ApprovalTypeOK
<1>4. SelectionsPinned'
  <2> SUFFICES ASSUME NEW j \in DOMAIN requests'
               PROVE  requests'[j].sel # {} /\ \A d \in requests'[j].sel : d.env = requests'[j].env
    BY DEF SelectionsPinned
  <2> QED BY <1>1 DEF RequestsStep, AInv, SelectionsPinned
<1>5. RejectionsResolve'
  <2>1. \A j \in DOMAIN requests : j \in DOMAIN requests' /\ (~Active(requests[j]) => ~Active(requests'[j]))
    BY <1>1 DEF RequestsStep, Active
  <2>2. \A x \in votes : x.request \in DOMAIN requests /\ (~x.approve => ~Active(requests[x.request]))
    BY DEF AInv, RejectionsResolve
  <2>3. ASSUME NEW x \in votes'
        PROVE  x.request \in DOMAIN requests' /\ (~x.approve => ~Active(requests'[x.request]))
    <3>1. CASE x \in votes
      BY <2>1, <2>2, <3>1
    <3>2. CASE x \notin votes
      BY <1>1, <2>1, <2>3, <3>2 DEF VotesStep
    <3> QED BY <3>1, <3>2
  <2> QED BY <2>3 DEF RejectionsResolve, Active
<1>6. IsFiniteSet(votes')
  <2>1. IsFiniteSet(votes)
    BY DEF AInv
  <2>2. CASE votes' \subseteq votes
    BY <2>1, <2>2, FS_Subset
  <2>3. ASSUME NEW v, votes' = votes \cup {v} PROVE IsFiniteSet(votes')
    BY <2>1, <2>3, FS_AddElement
  <2> QED BY <1>1, <2>2, <2>3 DEF VotesStep
<1> QED BY <1>2, <1>3, <1>4, <1>5, <1>6 DEF AInv

LEMMA ApprovalInvariance == ApprovalSpec => []AInv
<1>1. ApprovalInit => AInv
  <2> SUFFICES ASSUME ApprovalInit PROVE AInv OBVIOUS
  <2>1. RInv
    BY InitInv DEF ApprovalInit
  <2>2. ApprovalTypeOK
    BY DEF ApprovalInit, ApprovalTypeOK
  <2>3. SelectionsPinned /\ RejectionsResolve
    BY DEF ApprovalInit, SelectionsPinned, RejectionsResolve
  <2>4. IsFiniteSet(votes)
    BY FS_EmptySet DEF ApprovalInit
  <2> QED BY <2>1, <2>2, <2>3, <2>4 DEF AInv
<1> QED BY <1>1, ApprovalInvNext, PTL DEF ApprovalSpec

-----------------------------------------------------------------------------
(* Approvals: what the gate promises.                                      *)

\* A request's record is well formed and final once it is resolved: the gates
\* and the vote act on active requests only, the sweep selects active ones, and
\* a request goes with its environment (approvals.sql,
\* UpdateApprovalRequestState has no guard of its own).
THEOREM RequestsAreSound == ApprovalSpec => RequestsSound
<1>1. AInv => ApprovalTypeOK
  BY DEF AInv
<1>2. ASSUME AInv, [ApprovalNext]_vars, NEW i \in DOMAIN requests,
             requests[i].state \notin {"open", "approved"}
      PROVE  /\ requests'[i].state \in {requests[i].state, "deleted"}
             /\ \A v \in votes' \ votes : v.request # i
  <2>1. RequestsStep /\ VotesStep /\ ~Active(requests[i])
    BY <1>2, ApprovalStep DEF Active
  <2>2. requests'[i].state \in {requests[i].state, "deleted"}
    BY <2>1 DEF RequestsStep
  <2>3. ASSUME NEW v \in votes' \ votes PROVE v.request # i
    BY <2>1, <2>3 DEF VotesStep
  <2> QED BY <2>2, <2>3
<1>3. AInv /\ [ApprovalNext]_vars =>
        [\A i \in DOMAIN requests :
           requests[i].state \notin {"open", "approved"} =>
             /\ requests'[i].state \in {requests[i].state, "deleted"}
             /\ \A v \in votes' \ votes : v.request # i]_vars
  BY <1>2
<1> QED BY <1>1, <1>3, ApprovalInvariance, PTL DEF ApprovalSpec, RequestsSound, ResolvedStays

\* The requests that a step says were merged or bypassed were.
LEMMA ResolvedByGate ==
  ASSUME AInv, [ApprovalNext]_vars
  PROVE  /\ \A i \in Resolved({"merged", "bypassed"}) : i \in DOMAIN requests /\ (Merge(i) \/ Bypass(i))
         /\ \A i \in Resolved({"merged"}) : i \in DOMAIN requests /\ Merge(i)
BY ApprovalStep DEF RequestsStep, Resolved

\* What covers an environment is the enabled policy of a scope it is in.
LEMMA CoveringPolicy ==
  ASSUME NEW e, Covered(e)
  PROVE  \E s \in {e, AllEnvs} :
           policies[s] # NoPolicy /\ policies[s].rule.enabled /\ Covering(e) = policies[s]
BY DEF Covered, Covering

\* An uncovered environment has no enabled policy in scope.
LEMMA UncoveredMeans ==
  ASSUME NEW e, ~Covered(e), NEW s \in {e, AllEnvs}
  PROVE  ~(policies[s] # NoPolicy /\ policies[s].rule.enabled)
BY DEF Covered, Covering

\* The closure of a selection stays in its environments.
LEMMA ClosureEnvs ==
  ASSUME NEW p, NEW sel, NEW d \in Closure(drafts, p, sel)
  PROVE  d.env \in EnvsOf(sel)
BY DEF Closure, Coupled, EnvsOf

\* A request that resolves rebuilds a selection of its own environment.
LEMMA RebuiltEnv ==
  ASSUME AInv, NEW i \in DOMAIN requests, Named(i)
  PROVE  /\ \A d \in Rebuilt(requests[i]) : d.env = requests[i].env
         /\ requests[i].env \in EnvsOf(Rebuilt(requests[i]))
         /\ Rebuilt(requests[i]) \in SUBSET Drafts
<1>1. requests[i].sel # {} /\ \A d \in requests[i].sel : d.env = requests[i].env
  BY DEF AInv, SelectionsPinned
<1>2. \A e \in EnvsOf(requests[i].sel) : e = requests[i].env
  BY <1>1 DEF EnvsOf
<1>3. requests[i].env \in EnvsOf(Rebuilt(requests[i]))
  BY <1>1 DEF EnvsOf, Rebuilt, Closure
<1>4. Rebuilt(requests[i]) \in SUBSET Drafts
  BY NamedSelection DEF AInv, RInv, Structural, TypeOK
<1> QED BY <1>2, <1>3, <1>4, ClosureEnvs DEF Rebuilt

\* What a merge and a bypass check, and what they publish.
LEMMA CommitsReviewed ==
  ASSUME AInv, NEW i \in DOMAIN requests, Merge(i) \/ Bypass(i)
  PROVE  /\ drafts \ drafts' = requests[i].digest.changes
         /\ Len(snaps[requests[i].env]) = requests[i].digest.base[requests[i].env]
         /\ catalogue.revision = requests[i].digest.schema
         /\ Covered(requests[i].env)
         /\ Pinned(requests[i], Covering(requests[i].env))
<1> DEFINE r == requests[i]
           cl == Rebuilt(r)
<1>1. /\ Named(i) /\ Covered(r.env) /\ Pinned(r, Covering(r.env)) /\ Token(cl) = r.digest
      /\ CommitSelection(cl)
  BY DEF Merge, Bypass, CommitRequest, Reviewable, Gate, SameDigest
<1>2. TypeOK /\ cl \in SUBSET drafts /\ cl \in SUBSET Drafts /\ r.env \in EnvsOf(cl)
  BY <1>1, NamedSelection, RebuiltEnv DEF AInv, RInv, Structural
<1> HIDE DEF cl, r
<1>3. Token(cl).changes = cl /\ Token(cl).base[r.env] = Len(snaps[r.env])
  BY <1>2, TokenType
<1>4. Token(cl).schema = catalogue.revision
  BY DEF Token
<1>5. drafts \ drafts' = cl
  BY <1>1, <1>2 DEF CommitSelection
<1> QED BY <1>1, <1>3, <1>4, <1>5 DEF r

\* What is merged or bypassed is what was reviewed, over the state and under the
\* policy version it was reviewed on (approvals.go, approvalMergeGate and
\* approvalBypassGate recompute the digest in the transaction that publishes).
THEOREM MergesAreReviewed == ApprovalSpec => MergedIsReviewed
<1>1. ASSUME AInv, [ApprovalNext]_vars, NEW i \in Resolved({"merged", "bypassed"})
      PROVE  LET r == requests[i] IN
               /\ drafts \ drafts' = r.digest.changes
               /\ Len(snaps[r.env]) = r.digest.base[r.env]
               /\ catalogue.revision = r.digest.schema
               /\ \E s \in {r.env, AllEnvs} : policies[s] # NoPolicy /\ policies[s].id = r.policy
                    /\ policies[s].version = r.version /\ policies[s].rule.enabled
  <2> DEFINE r == requests[i]
  <2>1. i \in DOMAIN requests /\ (Merge(i) \/ Bypass(i))
    BY <1>1, ResolvedByGate
  <2>2. /\ drafts \ drafts' = r.digest.changes
        /\ Len(snaps[r.env]) = r.digest.base[r.env]
        /\ catalogue.revision = r.digest.schema
        /\ Covered(r.env) /\ Pinned(r, Covering(r.env))
    BY <1>1, <2>1, CommitsReviewed
  <2>3. \E s \in {r.env, AllEnvs} : policies[s] # NoPolicy /\ policies[s].id = r.policy
          /\ policies[s].version = r.version /\ policies[s].rule.enabled
    BY <2>2, CoveringPolicy DEF Pinned
  <2> QED BY <2>2, <2>3
<1>2. AInv /\ [ApprovalNext]_vars =>
        [\A i \in Resolved({"merged", "bypassed"}) :
           LET r == requests[i] IN
             /\ drafts \ drafts' = r.digest.changes
             /\ Len(snaps[r.env]) = r.digest.base[r.env]
             /\ catalogue.revision = r.digest.schema
             /\ \E s \in {r.env, AllEnvs} : policies[s] # NoPolicy /\ policies[s].id = r.policy
                  /\ policies[s].version = r.version /\ policies[s].rule.enabled]_vars
  BY <1>1
<1> QED BY <1>2, ApprovalInvariance, PTL DEF ApprovalSpec, MergedIsReviewed

\* Counting votes is counting voters: a voter has at most one approval.
LEMMA VotersCounted ==
  ASSUME AInv, NEW i, NEW pol
  PROVE  Cardinality(EligibleApprovals(i, pol, votes)) =
           Cardinality({p \in pol.rule.approvers \cap publishers :
                          /\ [request |-> i, voter |-> p, approve |-> TRUE] \in votes
                          /\ p = requests[i].requester => pol.rule.self})
<1> DEFINE A == EligibleApprovals(i, pol, votes)
           W == {p \in pol.rule.approvers \cap publishers :
                   /\ [request |-> i, voter |-> p, approve |-> TRUE] \in votes
                   /\ p = requests[i].requester => pol.rule.self}
           f == [v \in A |-> v.voter]
<1>1. votes \subseteq Votes /\ IsFiniteSet(votes)
  BY DEF AInv, ApprovalTypeOK
<1>2. \A v \in A : v \in votes /\ v = [request |-> i, voter |-> v.voter, approve |-> TRUE]
  BY <1>1 DEF EligibleApprovals, Votes
<1>3. \A v \in A : v.voter \in W
  BY <1>2 DEF EligibleApprovals
<1>4. \A p \in W : \E v \in A : v.voter = p
  <2> SUFFICES ASSUME NEW p \in W PROVE \E v \in A : v.voter = p
    OBVIOUS
  <2>1. [request |-> i, voter |-> p, approve |-> TRUE] \in A
    BY DEF EligibleApprovals
  <2> QED BY <2>1
<1>5. IsFiniteSet(A)
  BY <1>1, <1>2, FS_Subset
<1> HIDE DEF A, W
<1>6. f \in Bijection(A, W)
  <2>1. f \in [A -> W]
    BY <1>3
  <2>2. \A v, x \in A : f[v] = f[x] => v = x
    BY <1>2
  <2>3. \A p \in W : \E v \in A : f[v] = p
    BY <1>4
  <2> QED BY <2>1, <2>2, <2>3 DEF Bijection, Injection, Surjection, IsInjective
<1>7. ExistsBijection(A, W)
  BY <1>6 DEF ExistsBijection
<1>8. Cardinality(A) = Cardinality(W)
  BY <1>5, <1>7, FS_Bijection
<1> QED BY <1>8 DEF A, W

\* At the moment of a merge enough approvers of the policy, who hold publish
\* then, have approved it and nobody has rejected it (approvals.go,
\* approvalMergeGate counts again; a rejection resolves the request, so no gate
\* lets it through any more).
THEOREM MergesHaveQuorum == ApprovalSpec => MergedWithQuorum
<1> DEFINE Who(i, s) == {p \in policies[s].rule.approvers \cap publishers :
                           /\ [request |-> i, voter |-> p, approve |-> TRUE] \in votes
                           /\ p = requests[i].requester => policies[s].rule.self}
<1>1. ASSUME AInv, [ApprovalNext]_vars, NEW i \in Resolved({"merged"})
      PROVE  \E s \in Scopes :
               /\ policies[s] # NoPolicy /\ policies[s].id = requests[i].policy
               /\ Cardinality(Who(i, s)) >= policies[s].rule.min
               /\ ~\E v \in votes : v.request = i /\ ~v.approve
  <2>1. i \in DOMAIN requests /\ Merge(i)
    BY <1>1, ResolvedByGate
  <2>2. /\ Active(requests[i]) /\ Covered(requests[i].env)
        /\ Pinned(requests[i], Covering(requests[i].env))
        /\ Quorum(i, Covering(requests[i].env), votes)
    BY <2>1 DEF Merge, Reviewable, Gate
  <2>3. requests[i].env \in Envs
    BY <1>1, <2>1, RequestFields DEF AInv
  <2>4. PICK s \in {requests[i].env, AllEnvs} :
               policies[s] # NoPolicy /\ Covering(requests[i].env) = policies[s]
    BY <2>2, CoveringPolicy
  <2>5. s \in Scopes /\ policies[s].id = requests[i].policy
    BY <2>2, <2>3, <2>4 DEF Scopes, Pinned
  <2>6. Cardinality(Who(i, s)) >= policies[s].rule.min
    BY <1>1, <2>2, <2>4, VotersCounted DEF Quorum
  <2>7. ~\E v \in votes : v.request = i /\ ~v.approve
    BY <1>1, <2>2 DEF AInv, RejectionsResolve
  <2> QED BY <2>4, <2>5, <2>6, <2>7
<1>2. AInv /\ [ApprovalNext]_vars =>
        [\A i \in Resolved({"merged"}) : \E s \in Scopes :
           LET rule == policies[s].rule
               who == {p \in rule.approvers \cap publishers :
                         /\ [request |-> i, voter |-> p, approve |-> TRUE] \in votes
                         /\ p = requests[i].requester => rule.self} IN
             /\ policies[s] # NoPolicy /\ policies[s].id = requests[i].policy
             /\ Cardinality(who) >= rule.min
             /\ ~\E v \in votes : v.request = i /\ ~v.approve]_vars
  BY <1>1
<1> QED BY <1>2, ApprovalInvariance, PTL DEF ApprovalSpec, MergedWithQuorum

\* The publishes of the gated system, by the gate that lets them through.
LEMMA GatedPublishOnly ==
  ASSUME TypeOK, [ApprovalNext]_vars, IsPublish, NEW d \in drafts \ drafts'
  PROVE  \/ \E p \in Principals : \E sel \in SUBSET Own(drafts, p) : PublishUncovered(p, sel)
         \/ \E i \in DOMAIN requests : PublishResolved(i) \/ Merge(i) \/ Bypass(i)
<1>1. ~UNCHANGED rvars
  BY OthersPublishNothing
<1>2. ~WriteUncovered /\ ~Ungated /\ \A e : ~DeleteCovered(e)
  BY OthersPublishNothing DEF WriteUncovered, Ungated, DeleteCovered, Declare, Importing, Import,
                              Copying, Copy
<1>3. /\ \A s, rule : ~CreatePolicy(s, rule) /\ ~UpdatePolicy(s, rule)
      /\ \A s : ~DeletePolicy(s)
      /\ \A p, e, sel : ~RequestApproval(p, e, sel)
      /\ \A p : ~SetAuthority(p)
      /\ ~Tick /\ ~UNCHANGED vars
      /\ \A at : ~ExpireDue(at)
  BY <1>1 DEF CreatePolicy, UpdatePolicy, DeletePolicy, RequestApproval, SetAuthority, Tick, vars, ExpireDue
<1>4. \A i, cause : ~Invalidate(i, cause)
  BY <1>1 DEF Invalidate
<1>5. \A i : ~MergeUncovered(i) /\ ~MergeStalePolicy(i) /\ ~MergeDrifted(i) /\ ~MergeQuorumLost(i)
  BY <1>4 DEF MergeUncovered, MergeStalePolicy, MergeDrifted, MergeQuorumLost
<1>6. \A p, i, approve, at : /\ ~MergeUnresolved(p, i) /\ ~VoteStalePolicy(p, i, at)
                             /\ ~VoteDrifted(p, i, approve, at) /\ ~CastVote(p, i, approve, at)
  BY <1>1, <1>4 DEF MergeUnresolved, VoteStalePolicy, VoteDrifted, CastVote
<1> QED BY <1>2, <1>3, <1>5, <1>6 DEF ApprovalNext

\* A merge and a bypass resolve their request.
LEMMA MergeResolves ==
  ASSUME AInv, NEW i \in DOMAIN requests, Merge(i) \/ Bypass(i)
  PROVE  i \in Resolved({"merged", "bypassed"})
<1>1. ApprovalTypeOK
  BY DEF AInv
<1>2. requests[i].state \notin {"merged", "bypassed"}
  BY DEF Merge, Bypass, Reviewable, Gate, Active
<1>3. "merged" \in States /\ "bypassed" \in States /\ "" \in Causes
  BY DEF States, Causes
<1>4. requests[i] \in Requests
  BY <1>1, RequestFields
<1>5. ASSUME NEW state \in States, Resolve(i, state, "") PROVE requests'[i].state = state
  <2>1. requests'[i] = [requests[i] EXCEPT !.state = state, !.cause = ""]
    BY <1>1, <1>3, <1>5, ResolveOne
  <2> QED BY <1>4, <2>1 DEF Requests
<1>6. requests'[i].state \in {"merged", "bypassed"}
  BY <1>3, <1>5 DEF Merge, Bypass, CommitRequest
<1> QED BY <1>2, <1>6 DEF Resolved

\* A publish of a guarded environment's draft is that of a reviewed request: the
\* two gates that need no quorum let uncovered environments through only, and
\* the closure does not leave the environments of a selection.
LEMMA GuardedPublishes ==
  ASSUME AInv, [ApprovalNext]_vars, IsPublish, NEW d \in drafts \ drafts', Guarded(d.env)
  PROVE  \E i \in Resolved({"merged", "bypassed"}) : d \in requests[i].digest.changes
<1>1. TypeOK
  BY DEF AInv, RInv, Structural
<1>2. Covered(d.env)
  BY UncoveredMeans DEF Guarded
<1>3. ASSUME NEW p \in Principals, NEW sel \in SUBSET Own(drafts, p), PublishUncovered(p, sel)
      PROVE  FALSE
  <2>1. Publish(p, sel) /\ \A e \in EnvsOf(sel) : ~Covered(e)
    BY <1>3 DEF PublishUncovered
  <2>2. d \in Closure(drafts, p, sel)
    BY <2>1, Consumed
  <2> QED BY <1>2, <2>1, <2>2, ClosureEnvs
<1>4. ASSUME NEW i \in DOMAIN requests, PublishResolved(i) PROVE FALSE
  <2>1. Named(i) /\ ~Covered(requests[i].env) /\ CommitSelection(Rebuilt(requests[i]))
    BY <1>4 DEF PublishResolved
  <2>2. d \in Rebuilt(requests[i])
    BY <2>1 DEF CommitSelection
  <2> QED BY <1>2, <2>1, <2>2, RebuiltEnv
<1>5. ASSUME NEW i \in DOMAIN requests, Merge(i) \/ Bypass(i)
      PROVE  i \in Resolved({"merged", "bypassed"}) /\ d \in requests[i].digest.changes
  BY <1>5, CommitsReviewed, MergeResolves
<1> QED BY <1>1, <1>3, <1>4, <1>5, GatedPublishOnly

\* No change of the environments or of the catalogue that leaves the catalogue
\* as it was writes a cell: only a new environment is written, at a new schema
\* revision.
LEMMA StructureKeepsCells ==
  ASSUME TypeOK, Structure, catalogue' = catalogue
  PROVE  UNCHANGED cell
<1>1. ASSUME NEW e \in Envs, NEW src \in Envs, NEW ks \in SUBSET Keys, CreateEnvironment(e, src, ks)
      PROVE  FALSE
  <2>1. catalogue.revision \in Nat /\ catalogue' = [catalogue EXCEPT !.revision = @ + 1]
    BY <1>1, CatalogueType DEF CreateEnvironment, Materialize, TypeOK
  <2>2. catalogue'.revision = catalogue.revision + 1
    BY <2>1 DEF TypeOK, Catalogues
  <2> QED BY <2>1, <2>2
<1>2. \A k, g, rule, vs, config : KeyCreate(k, g, rule, vs, config) => UNCHANGED cell
  BY DEF KeyCreate, FanOut, Materialize
<1>3. \A k, rule, vs : UpdateDeclaration(k, rule, vs) => UNCHANGED cell
  BY DEF UpdateDeclaration, FanOut, Materialize
<1>4. /\ \A k, g : SetGroup(k, g) => UNCHANGED cell
      /\ \A g : DeleteGroup(g) => UNCHANGED cell
  BY DEF SetGroup, DeleteGroup, FanOut, Materialize
<1>5. \A k : KeyDelete(k) \/ Reclassify(k) => UNCHANGED cell
  BY DEF KeyDelete, Reclassify, FanOut, Materialize
<1>6. /\ Reissue \/ BumpSchema => UNCHANGED cell
      /\ \A e, q : SetParameter(e, q) => UNCHANGED cell
  BY DEF Reissue, BumpSchema, SetParameter, FanOut, Materialize, NextSchema
<1> QED BY <1>1, <1>2, <1>3, <1>4, <1>5, <1>6 DEF Structure, KeyRename, UpdateMetadata, GroupCreate, GroupRename,
           EnvironmentRename

\* The steps of the gated system that write cells and leave the catalogue alone.
LEMMA GatedWrites ==
  ASSUME TypeOK, [ApprovalNext]_vars, catalogue' = catalogue, cell' # cell
  PROVE  \/ \E p \in Principals : \E sel \in SUBSET Own(drafts, p) : PublishUncovered(p, sel)
         \/ \E i \in DOMAIN requests : PublishResolved(i) \/ Merge(i) \/ Bypass(i)
         \/ WriteUncovered
         \/ \E es \in SUBSET live, k \in Keys, v \in Values : Declare(es, k, v)
<1>1. ~UNCHANGED rvars
  BY DEF rvars
<1>2. \A e : ~DeleteCovered(e)
  <2> SUFFICES ASSUME NEW e, DeleteEnvironment(e) PROVE FALSE BY DEF DeleteCovered
  <2>1. catalogue.revision \in Nat /\ catalogue'.revision = catalogue.revision + 1
    BY CatalogueType DEF TypeOK, DeleteEnvironment, Catalogues
  <2> QED BY <2>1
<1>3. Ungated => \E es \in SUBSET live, k \in Keys, v \in Values : Declare(es, k, v)
  BY StructureKeepsCells DEF Ungated, Drafting, Stage, Restore
<1>4. /\ \A s, rule : ~CreatePolicy(s, rule) /\ ~UpdatePolicy(s, rule)
      /\ \A s : ~DeletePolicy(s)
      /\ \A p, e, sel : ~RequestApproval(p, e, sel)
      /\ \A p : ~SetAuthority(p)
      /\ ~Tick /\ ~UNCHANGED vars
      /\ \A at : ~ExpireDue(at)
  BY <1>1 DEF CreatePolicy, UpdatePolicy, DeletePolicy, RequestApproval, SetAuthority, Tick, vars, ExpireDue
<1>5. \A i, cause : ~Invalidate(i, cause)
  BY <1>1 DEF Invalidate
<1>6. \A i : ~MergeUncovered(i) /\ ~MergeStalePolicy(i) /\ ~MergeDrifted(i) /\ ~MergeQuorumLost(i)
  BY <1>5 DEF MergeUncovered, MergeStalePolicy, MergeDrifted, MergeQuorumLost
<1>7. \A p, i, approve, at : /\ ~MergeUnresolved(p, i) /\ ~VoteStalePolicy(p, i, at)
                             /\ ~VoteDrifted(p, i, approve, at) /\ ~CastVote(p, i, approve, at)
  BY <1>1, <1>5 DEF MergeUnresolved, VoteStalePolicy, VoteDrifted, CastVote
<1> QED BY <1>2, <1>3, <1>4, <1>6, <1>7 DEF ApprovalNext

\* A publish writes the environments of its selection only.
LEMMA AppliedElsewhere ==
  ASSUME TypeOK, NEW sel, CommitSelection(sel), NEW e \in Envs, cell'[e] # cell[e]
  PROVE  \E d \in sel : d.env = e
<1> SUFFICES ASSUME ~\E d \in sel : d.env = e PROVE FALSE OBVIOUS
<1>1. cell' = Applied(sel)
  BY DEF CommitSelection, Materialize
<1>2. Applied(sel)[e] = [k \in Keys |-> cell[e][k]]
  BY DEF Applied
<1>3. cell[e] = [k \in Keys |-> cell[e][k]]
  BY DEF TypeOK
<1> QED BY <1>1, <1>2, <1>3

\* A direct write writes the environments it names only.
LEMMA WrittenElsewhere ==
  ASSUME TypeOK, NEW es, NEW vals, WriteThrough(es, vals), NEW e \in Envs, cell'[e] # cell[e]
  PROVE  e \in es
<1> SUFFICES ASSUME e \notin es PROVE FALSE OBVIOUS
<1>1. cell' = Written(es, vals)
  BY DEF WriteThrough, Materialize
<1>2. Written(es, vals)[e] = [k \in Keys |-> cell[e][k]]
  BY DEF Written
<1>3. cell[e] = [k \in Keys |-> cell[e][k]]
  BY DEF TypeOK
<1> QED BY <1>1, <1>2, <1>3

\* What writes a guarded environment, while the catalogue stays, is a declared
\* value or a reviewed request.
LEMMA GuardedWrites ==
  ASSUME AInv, [ApprovalNext]_vars, catalogue' = catalogue, NEW e \in live, Guarded(e),
         cell'[e] # cell[e]
  PROVE  WritesOneValue \/ \E i \in Resolved({"merged", "bypassed"}) : requests[i].env = e
<1>1. TypeOK /\ e \in Envs /\ live \subseteq Envs
  BY DEF AInv, RInv, Structural, TypeOK
<1>2. Covered(e)
  BY UncoveredMeans DEF Guarded
<1>3. ASSUME NEW p \in Principals, NEW sel \in SUBSET Own(drafts, p), PublishUncovered(p, sel)
      PROVE  FALSE
  <2>1. CommitSelection(Closure(drafts, p, sel)) /\ \A x \in EnvsOf(sel) : ~Covered(x)
    BY <1>3 DEF PublishUncovered, Publish
  <2>2. PICK d \in Closure(drafts, p, sel) : d.env = e
    BY <1>1, <2>1, AppliedElsewhere
  <2> QED BY <1>2, <2>1, <2>2, ClosureEnvs
<1>4. ASSUME NEW i \in DOMAIN requests, Named(i), CommitSelection(Rebuilt(requests[i]))
      PROVE  requests[i].env = e
  BY <1>1, <1>4, AppliedElsewhere, RebuiltEnv
<1>5. ASSUME NEW i \in DOMAIN requests, PublishResolved(i) PROVE FALSE
  BY <1>2, <1>4, <1>5 DEF PublishResolved
<1>6. ASSUME NEW i \in DOMAIN requests, Merge(i) \/ Bypass(i)
      PROVE  i \in Resolved({"merged", "bypassed"}) /\ requests[i].env = e
  <2>1. Named(i) /\ CommitSelection(Rebuilt(requests[i]))
    BY <1>6 DEF Merge, Bypass, CommitRequest, Reviewable, Gate
  <2> QED BY <1>4, <1>6, <2>1, MergeResolves
<1>7. ~WriteUncovered
  <2> SUFFICES ASSUME WriteUncovered PROVE FALSE OBVIOUS
  <2>1. \A es, vals : WriteThrough(es, vals) => e \in es
    BY <1>1, WrittenElsewhere
  <2>2. ~Importing({x \in live : ~Covered(x)})
    BY <1>2, <2>1 DEF Importing, Import
  <2>3. ~Copying({x \in live : ~Covered(x)})
    BY <1>2, <2>1 DEF Copying, Copy
  <2> QED BY <2>2, <2>3 DEF WriteUncovered
<1>8. ASSUME NEW es \in SUBSET live, NEW k \in Keys, NEW v \in Values, Declare(es, k, v)
      PROVE  WritesOneValue
  <2>1. cell' = Written(es, [x \in {k} |-> v])
    BY <1>8 DEF Declare, WriteThrough, Materialize
  <2>2. ASSUME NEW f \in live, NEW x \in Keys, cell'[f][x] # cell[f][x]
        PROVE  x = k /\ cell'[f][x].value = v
    BY <1>1, <2>1, <2>2 DEF Written
  <2> QED BY <2>2 DEF WritesOneValue
<1>9. cell' # cell
  OBVIOUS
<1> QED BY <1>1, <1>3, <1>5, <1>6, <1>7, <1>8, <1>9, GatedWrites

\* A draft of an environment under an enabled policy is published only as part
\* of a request that the same step merges or bypasses (publish.go,
\* approvalGate), and no import or copy changes such an environment: without a
\* request, and without a schema change, it changes by one declared value
\* (values.go, republishAuthorized).
THEOREM CoveredWritesAreReviewed == ApprovalSpec => CoveredWritesReviewed
<1>1. AInv /\ [ApprovalNext]_vars =>
        [/\ IsPublish => \A d \in drafts \ drafts' : Guarded(d.env) =>
              \E i \in Resolved({"merged", "bypassed"}) : d \in requests[i].digest.changes
         /\ catalogue' = catalogue => \A e \in live : Guarded(e) /\ cell'[e] # cell[e] =>
              WritesOneValue \/ \E i \in Resolved({"merged", "bypassed"}) : requests[i].env = e]_vars
  BY GuardedPublishes, GuardedWrites
<1> QED BY <1>1, ApprovalInvariance, PTL DEF ApprovalSpec, CoveredWritesReviewed
=============================================================================
