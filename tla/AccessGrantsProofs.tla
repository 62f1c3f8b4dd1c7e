------------------------- MODULE AccessGrantsProofs -------------------------
(***************************************************************************)
(* Proofs about AccessGrants for any principals, requests, offers and      *)
(* bounds: the grant rows follow the requests, and emergency access stays  *)
(* within what some manager could have granted; a grant has its quorum,    *)
(* and no vote leaves a complete quorum behind.                            *)
(***************************************************************************)
EXTENDS AccessGrants, FiniteSetTheorems, TLAPS

ReqRecords == [state : States, slot : Slots, id : Nat, version : Nat,
               who : SUBSET Principals, caps : SUBSET Caps, dur : Nat,
               bypassed : BOOLEAN, review : Nat, expires : Nat,
               approve : SUBSET Principals, reject : SUBSET Principals]

PolicyRecords == [id : 1..created, version : Nat \ {0}, offer : Offers]

\* Standing comes from the permanent grants.
HoldsWithin == \A p \in Principals : holds[p] \subseteq Held[p]

\* Every enabled policy that names emergency principals is backed by a manager.
DelegationsBacked ==
    \A s \in Slots : policy[s].offer.enabled /\ policy[s].offer.bypassers # {}
                       => \E m \in Managers : policy[s].offer.caps \subseteq Held[m]

IInv ==
    /\ TypeOK
    /\ HoldsWithin
    /\ DelegationsBacked
    /\ RowsFollowRequests
    /\ EmergencyBacked

-----------------------------------------------------------------------------
\* The part of the invariant about policies and standing.
Standing == HoldsWithin /\ DelegationsBacked

\* What the requests and the rows contribute.
Requests ==
    /\ req \in [Reqs -> ReqRecords]
    /\ rows \in [Reqs -> [caps : SUBSET Caps, until : Nat]]
    /\ RowsFollowRequests
    /\ EmergencyBacked

\* One request changes, with its rows, and the others stay.
LEMMA OneRequest ==
    ASSUME Requests, NEW r \in Reqs, NEW q \in ReqRecords,
           NEW w \in [caps : SUBSET Caps, until : Nat],
           req' = [req EXCEPT ![r] = q],
           rows' = [rows EXCEPT ![r] = w],
           w = IF q.state = "granted" THEN [caps |-> q.caps, until |-> q.expires] ELSE NoRows,
           q.bypassed => \E m \in Managers : q.caps \subseteq Held[m]
    PROVE  Requests'
<1>1. req' \in [Reqs -> ReqRecords] /\ rows' \in [Reqs -> [caps : SUBSET Caps, until : Nat]]
  BY DEF Requests
<1>2. req'[r] = q /\ rows'[r] = w
  BY DEF Requests
<1>3. \A k \in Reqs : k # r => req'[k] = req[k] /\ rows'[k] = rows[k]
  BY DEF Requests
<1>4. RowsFollowRequests'
  BY <1>2, <1>3 DEF Requests, RowsFollowRequests
<1>5. EmergencyBacked'
  BY <1>2, <1>3 DEF Requests, EmergencyBacked
<1> QED BY <1>1, <1>4, <1>5 DEF Requests

\* A request that ends keeps all but its state.
LEMMA Ending ==
    ASSUME NEW q \in ReqRecords, NEW st \in States
    PROVE  LET e == [q EXCEPT !.state = st]
           IN e \in ReqRecords /\ e.state = st /\ e.caps = q.caps /\ e.bypassed = q.bypassed
  BY DEF ReqRecords

LEMMA NoRowsType == NoRows \in [caps : SUBSET Caps, until : Nat]
  BY DEF NoRows

LEMMA Same ==
    ASSUME Requests, UNCHANGED <<req, rows>> PROVE Requests'
  BY DEF Requests, RowsFollowRequests, EmergencyBacked

\* A vote keeps what was asked for.
LEMMA Rejecting ==
    ASSUME NEW q \in ReqRecords, NEW V \in SUBSET Principals
    PROVE  LET e == [q EXCEPT !.state = "rejected", !.reject = V]
           IN e \in ReqRecords /\ e.state = "rejected" /\ e.caps = q.caps /\ e.bypassed = q.bypassed
  BY DEF ReqRecords, States

LEMMA Approving ==
    ASSUME NEW q \in ReqRecords, NEW V \in SUBSET Principals
    PROVE  LET e == [q EXCEPT !.approve = V]
           IN e \in ReqRecords /\ e.state = q.state /\ e.caps = q.caps /\ e.bypassed = q.bypassed
  BY DEF ReqRecords, States

\* The policy that covers the environment, whether there is one or not.
LEMMA CoveringType ==
    ASSUME TypeOK
    PROVE  /\ Covering \in Slots /\ policy[Covering].id \in Nat /\ policy[Covering].version \in Nat
           /\ policy[Covering].offer.caps \subseteq Caps /\ policy[Covering].offer.max \in Nat
  BY AccessConstants DEF TypeOK, Covering, Slots, NoPolicy, NoOffer

LEMMA RequestRequests ==
    ASSUME TypeOK, Requests, NEW p \in Principals, NEW r \in Reqs, NEW caps \in SUBSET Caps,
           NEW dur \in Nat, NEW at \in Readings, Request(p, r, caps, dur, at)
    PROVE  Requests'
<1> DEFINE q == Filed(p, caps, dur, "open", at + ReviewTTL, 0)
<1>1. at \in Nat
  BY DEF Readings, TypeOK
<1>a. ("open" = "granted") \in BOOLEAN /\ ~("open" = "granted")
  OBVIOUS
<1>b. at + ReviewTTL \in Nat
  BY <1>1, AccessConstants
<1>c. q \in ReqRecords
  BY <1>a, <1>b, CoveringType DEF Filed, ReqRecords, States
<1>2. q \in ReqRecords /\ q.state = "open" /\ ~q.bypassed
  BY <1>c, <1>a DEF Filed
<1>3. rows[r] = NoRows
  BY DEF Request, Requests, RowsFollowRequests
<1>4. rows' = [rows EXCEPT ![r] = NoRows]
  BY <1>3 DEF Request, Requests
<1>5. req' = [req EXCEPT ![r] = q]
  BY DEF Request
<1> HIDE DEF q
<1> QED BY <1>2, <1>4, <1>5, OneRequest, NoRowsType

LEMMA EmergencyRequests ==
    ASSUME TypeOK, DelegationsBacked, Requests, NEW p \in Principals, NEW r \in Reqs,
           NEW caps \in SUBSET Caps, NEW dur \in Nat, NEW at \in Readings,
           EmergencyAccess(p, r, caps, dur, at)
    PROVE  Requests'
<1> DEFINE q == Filed(p, caps, dur, "granted", at, at + dur)
           w == [caps |-> caps, until |-> at + dur]
<1>1. at \in Nat
  BY DEF Readings, TypeOK
<1>2. q \in ReqRecords /\ q.state = "granted" /\ q.caps = caps /\ q.expires = at + dur
  BY <1>1, CoveringType DEF Filed, ReqRecords, States
<1>3. w \in [caps : SUBSET Caps, until : Nat]
  BY <1>1
<1>4. /\ policy[Covering].offer.enabled /\ policy[Covering].offer.bypassers # {}
      /\ caps \subseteq policy[Covering].offer.caps
  BY DEF EmergencyAccess, MayAsk
<1>5. \E m \in Managers : caps \subseteq Held[m]
  BY <1>4, CoveringType DEF DelegationsBacked
<1>6. req' = [req EXCEPT ![r] = q] /\ rows' = [rows EXCEPT ![r] = w]
  BY DEF EmergencyAccess
<1>7. w = [caps |-> q.caps, until |-> q.expires]
  BY <1>2
<1> HIDE DEF q, w
<1> QED BY <1>2, <1>3, <1>5, <1>6, <1>7, OneRequest

\* The due requests end together; the rows of those that were granted go.
LEMMA ExpireRequests ==
    ASSUME Requests, NEW at, ExpireDue(at)
    PROVE  Requests'
<1>1. PICK due \in SUBSET Due(at) :
         /\ rows' = [r \in Reqs |-> IF r \in due /\ req[r].state = "granted"
                                    THEN Released(r) ELSE rows[r]]
         /\ req' = [r \in Reqs |-> IF r \in due THEN [req[r] EXCEPT !.state = "expired"]
                                                ELSE req[r]]
  BY DEF ExpireDue
<1>2. ASSUME NEW r \in Reqs
      PROVE  /\ req'[r] \in ReqRecords /\ req'[r].caps = req[r].caps
             /\ req'[r].bypassed = req[r].bypassed
             /\ rows'[r] \in [caps : SUBSET Caps, until : Nat]
             /\ rows'[r] = IF req'[r].state = "granted"
                           THEN [caps |-> req'[r].caps, until |-> req'[r].expires] ELSE NoRows
  <2>0. req[r] \in ReqRecords /\ rows[r] \in [caps : SUBSET Caps, until : Nat]
        /\ rows[r] = IF req[r].state = "granted"
                     THEN [caps |-> req[r].caps, until |-> req[r].expires] ELSE NoRows
    BY DEF Requests, RowsFollowRequests
  <2>1. CASE r \in due
    <3>1. req'[r] = [req[r] EXCEPT !.state = "expired"]
      BY <2>1, <1>1
    <3>2. /\ req'[r] \in ReqRecords /\ req'[r].state = "expired"
          /\ req'[r].caps = req[r].caps /\ req'[r].bypassed = req[r].bypassed
      <4>1. "expired" \in States
        BY DEF States
      <4>2. LET e == [req[r] EXCEPT !.state = "expired"]
            IN /\ e \in ReqRecords /\ e.state = "expired"
               /\ e.caps = req[r].caps /\ e.bypassed = req[r].bypassed
        BY <4>1, <2>0, Ending
      <4> QED BY <3>1, <4>2
    <3>3. rows'[r] = NoRows
      BY <2>1, <1>1, <2>0 DEF Released
    <3> QED BY <3>2, <3>3, NoRowsType
  <2>2. CASE r \notin due
    <3>1. req'[r] = req[r] /\ rows'[r] = rows[r]
      BY <2>2, <1>1
    <3> QED BY <3>1, <2>0
  <2> QED BY <2>1, <2>2
<1>3. req' \in [Reqs -> ReqRecords]
  <2>1. req' = [r \in Reqs |-> req'[r]]
    BY <1>1
  <2> QED BY <2>1, <1>2
<1>4. rows' \in [Reqs -> [caps : SUBSET Caps, until : Nat]]
  <2>1. rows' = [r \in Reqs |-> rows'[r]]
    BY <1>1
  <2> QED BY <2>1, <1>2
<1>5. RowsFollowRequests' /\ EmergencyBacked'
  BY <1>2 DEF RowsFollowRequests, EmergencyBacked, Requests
<1> QED BY <1>3, <1>4, <1>5 DEF Requests

\* A request that was not granted, and does not become so, has no rows.
LEMMA Quiet ==
    ASSUME Requests, NEW r \in Reqs, NEW q \in ReqRecords,
           req[r].state # "granted", q.state # "granted",
           req' = [req EXCEPT ![r] = q], UNCHANGED rows,
           q.caps = req[r].caps, q.bypassed = req[r].bypassed
    PROVE  Requests'
<1>1. rows[r] = NoRows
  BY DEF Requests, RowsFollowRequests
<1>2. rows' = [rows EXCEPT ![r] = NoRows]
  BY <1>1 DEF Requests
<1>3. q.bypassed => \E m \in Managers : q.caps \subseteq Held[m]
  BY DEF Requests, EmergencyBacked
<1> QED BY <1>2, <1>3, OneRequest, NoRowsType

LEMMA VoteRequests ==
    ASSUME TypeOK, Requests, NEW p \in Principals, NEW r \in Reqs, NEW decision,
           NEW at \in Readings, Vote(p, r, decision, at)
    PROVE  Requests'
<1>0. req[r] \in ReqRecords /\ req[r].state = "open" /\ at \in Nat
  BY DEF Vote, Requests, Readings, TypeOK
<1>1. CASE Invalidate(r)
  <2> DEFINE q == [req[r] EXCEPT !.state = "invalidated"]
  <2>1. q \in ReqRecords /\ q.state = "invalidated" /\ q.caps = req[r].caps /\ q.bypassed = req[r].bypassed
    BY <1>0, Ending DEF States
  <2>2. req' = [req EXCEPT ![r] = q] /\ UNCHANGED rows
    BY <1>1 DEF Invalidate
  <2> HIDE DEF q
  <2> QED BY <1>0, <2>1, <2>2, Quiet
<1>2. CASE Decide(p, r, decision, at)
  <2> DEFINE offer == policy[req[r].slot].offer
             until == at + Shorter(req[r].dur, offer.max)
  <2>0. req[r].approve \cup {p} \in SUBSET Principals /\ req[r].reject \cup {p} \in SUBSET Principals
    BY <1>0 DEF ReqRecords
  <2>1. CASE req' = [req EXCEPT ![r] = RejectedBy(p, r)] /\ UNCHANGED rows
    <3>1. /\ RejectedBy(p, r) \in ReqRecords /\ RejectedBy(p, r).state = "rejected"
          /\ RejectedBy(p, r).caps = req[r].caps /\ RejectedBy(p, r).bypassed = req[r].bypassed
      BY <1>0, <2>0, Rejecting DEF RejectedBy
    <3> QED BY <1>0, <3>1, <2>1, Quiet
  <2>2. CASE req' = [req EXCEPT ![r] = ApprovedBy(p, r)] /\ UNCHANGED rows
    <3>1. /\ ApprovedBy(p, r) \in ReqRecords /\ ApprovedBy(p, r).state = "open"
          /\ ApprovedBy(p, r).caps = req[r].caps /\ ApprovedBy(p, r).bypassed = req[r].bypassed
      BY <1>0, <2>0, Approving DEF ApprovedBy
    <3> QED BY <1>0, <3>1, <2>2, Quiet
  <2>3. ASSUME NEW t \in Nat,
               req' = [req EXCEPT ![r] = GrantedBy(p, r, t)],
               rows' = [rows EXCEPT ![r] = [caps |-> req[r].caps, until |-> t]]
        PROVE  Requests'
    <3> DEFINE q == GrantedBy(p, r, t)
               w == [caps |-> req[r].caps, until |-> t]
    <3>2. /\ q \in ReqRecords /\ q.state = "granted" /\ q.caps = req[r].caps
          /\ q.bypassed = req[r].bypassed /\ q.expires = t
      BY <1>0, <2>0 DEF GrantedBy, ReqRecords, States
    <3>3. w \in [caps : SUBSET Caps, until : Nat]
      BY <1>0, <2>3 DEF ReqRecords
    <3>4. w = [caps |-> q.caps, until |-> q.expires]
      BY <3>2
    <3>5. req' = [req EXCEPT ![r] = q] /\ rows' = [rows EXCEPT ![r] = w]
      BY <2>3
    <3>6. q.bypassed => \E m \in Managers : q.caps \subseteq Held[m]
      BY <3>2 DEF Requests, EmergencyBacked
    <3> HIDE DEF q, w
    <3> QED BY <3>2, <3>3, <3>4, <3>5, <3>6, OneRequest
  <2>6. until \in Nat
    <3>1. req[r].dur \in Nat /\ req[r].slot \in Slots
      BY <1>0 DEF ReqRecords
    <3>2. offer.max \in Nat
      BY <3>1, AccessConstants DEF TypeOK, NoPolicy, NoOffer
    <3> QED BY <1>0, <3>1, <3>2 DEF Shorter
  <2>4. CASE decision = "reject" /\ Decide(p, r, decision, at)
    BY <2>4, <2>1 DEF Decide
  <2>5. CASE decision # "reject" /\ Decide(p, r, decision, at)
    <3>1. CASE Reached(Cardinality(Countable(r, offer, at) \cup {p}), offer.min)
      BY <3>1, <2>5, <2>3, <2>6 DEF Decide
    <3>2. CASE ~Reached(Cardinality(Countable(r, offer, at) \cup {p}), offer.min)
      BY <3>2, <2>5, <2>2 DEF Decide
    <3> QED BY <3>1, <3>2
  <2> QED BY <1>2, <2>4, <2>5
<1> QED BY <1>1, <1>2 DEF Vote

LEMMA CancelRequests ==
    ASSUME Requests, NEW p, NEW r \in Reqs, NEW at, Cancel(p, r, at)
    PROVE  Requests'
<1> DEFINE q == [req[r] EXCEPT !.state = "cancelled"]
<1>0. req[r] \in ReqRecords /\ req[r].state = "open"
  BY DEF Cancel, Requests
<1>1. q \in ReqRecords /\ q.state = "cancelled" /\ q.caps = req[r].caps /\ q.bypassed = req[r].bypassed
  BY <1>0, Ending DEF States
<1>2. req' = [req EXCEPT ![r] = q] /\ UNCHANGED rows
  BY DEF Cancel
<1> HIDE DEF q
<1> QED BY <1>0, <1>1, <1>2, Quiet

LEMMA RevokeRequests ==
    ASSUME Requests, NEW p, NEW r \in Reqs, NEW at, Revoke(p, r, at)
    PROVE  Requests'
<1> DEFINE q == [req[r] EXCEPT !.state = "revoked"]
<1>0. req[r] \in ReqRecords
  BY DEF Requests
<1>1. q \in ReqRecords /\ q.state = "revoked" /\ q.caps = req[r].caps /\ q.bypassed = req[r].bypassed
  BY <1>0, Ending DEF States
<1>2. req' = [req EXCEPT ![r] = q] /\ rows' = [rows EXCEPT ![r] = NoRows]
  BY DEF Revoke, Released
<1>3. q.bypassed => \E m \in Managers : q.caps \subseteq Held[m]
  BY <1>1 DEF Requests, EmergencyBacked
<1> HIDE DEF q
<1> QED BY <1>1, <1>2, <1>3, OneRequest, NoRowsType

-----------------------------------------------------------------------------
LEMMA PolicyStanding ==
    ASSUME TypeOK, Standing, NEW m \in Managers, NEW s \in Slots, NEW o \in Offers,
           CreatePolicy(m, s, o) \/ UpdatePolicy(m, s, o)
    PROVE  Standing' /\ policy' \in [Slots -> {NoPolicy} \cup PolicyRecords']
<1>1. PICK i \in 1..created', v \in Nat \ {0} :
         policy' = [policy EXCEPT ![s] = [id |-> i, version |-> v, offer |-> o]]
  <2>1. CASE CreatePolicy(m, s, o)
    <3>1. created + 1 \in 1..created' /\ 1 \in Nat \ {0}
      BY <2>1 DEF CreatePolicy, TypeOK
    <3>2. policy' = [policy EXCEPT ![s] = [id |-> created + 1, version |-> 1, offer |-> o]]
      BY <2>1 DEF CreatePolicy, NextId
    <3> QED BY <3>1, <3>2
  <2>2. CASE UpdatePolicy(m, s, o)
    <3>1. policy[s] \in [id : 1..created, version : Nat \ {0}, offer : Offers] /\ created' = created
      BY <2>2 DEF UpdatePolicy, TypeOK, NoPolicy
    <3>2. policy[s].id \in 1..created' /\ policy[s].version + 1 \in Nat \ {0}
      BY <3>1
    <3> QED BY <2>2, <3>2 DEF UpdatePolicy
  <2> QED BY <2>1, <2>2
<1>2. [id |-> i, version |-> v, offer |-> o] \in PolicyRecords'
  BY DEF PolicyRecords
<1>3. created <= created' /\ created \in Nat /\ created' \in Nat
  BY DEF CreatePolicy, UpdatePolicy, TypeOK
<1>4. PolicyRecords \subseteq PolicyRecords'
  BY <1>3 DEF PolicyRecords
<1>5. policy' \in [Slots -> {NoPolicy} \cup PolicyRecords']
  BY <1>1, <1>2, <1>4 DEF TypeOK, PolicyRecords
<1>6. UNCHANGED holds
  BY DEF CreatePolicy, UpdatePolicy
<1>7. ASSUME o.enabled, o.bypassers # {}
      PROVE  \E k \in Managers : o.caps \subseteq Held[k]
  <2>1. CASE BackedBy(m, o)
    BY <2>1, AccessConstants DEF BackedBy, CanGrantAll, Standing, HoldsWithin
  <2>2. CASE ~BackedBy(m, o)
    <3>1. /\ policy[s].offer.enabled /\ o.caps \subseteq policy[s].offer.caps
          /\ o.bypassers \subseteq policy[s].offer.bypassers
      BY <1>7, <2>2 DEF CreatePolicy, UpdatePolicy, Widens
    <3>2. policy[s].offer.bypassers # {}
      BY <3>1, <1>7
    <3>3. \E k \in Managers : policy[s].offer.caps \subseteq Held[k]
      BY <3>1, <3>2 DEF Standing, DelegationsBacked
    <3> QED BY <3>1, <3>3
  <2> QED BY <2>1, <2>2
<1>8. DelegationsBacked'
  <2> SUFFICES ASSUME NEW z \in Slots, policy'[z].offer.enabled, policy'[z].offer.bypassers # {}
               PROVE  \E k \in Managers : policy'[z].offer.caps \subseteq Held[k]
    BY DEF DelegationsBacked
  <2>1. CASE z = s
    <3>1. policy'[z].offer = o
      BY <2>1, <1>1 DEF TypeOK
    <3> QED BY <3>1, <1>7
  <2>2. CASE z # s
    <3>1. policy'[z] = policy[z]
      BY <2>2, <1>1 DEF TypeOK
    <3> QED BY <3>1 DEF Standing, DelegationsBacked
  <2> QED BY <2>1, <2>2
<1> QED BY <1>5, <1>6, <1>8 DEF Standing, HoldsWithin

LEMMA DeleteStanding ==
    ASSUME TypeOK, Standing, NEW m, NEW s \in Slots, DeletePolicy(m, s)
    PROVE  Standing' /\ policy' \in [Slots -> {NoPolicy} \cup PolicyRecords']
<1>1. policy' = [policy EXCEPT ![s] = NoPolicy] /\ UNCHANGED <<created, holds>>
  BY DEF DeletePolicy
<1>2. policy' \in [Slots -> {NoPolicy} \cup PolicyRecords']
  BY <1>1 DEF TypeOK, PolicyRecords
<1>3. \A z \in Slots : policy'[z] = policy[z] \/ policy'[z] = NoPolicy
  BY <1>1 DEF TypeOK
<1>4. NoPolicy.offer.enabled = FALSE
  BY DEF NoPolicy, NoOffer
<1> QED BY <1>1, <1>2, <1>3, <1>4 DEF Standing, HoldsWithin, DelegationsBacked

LEMMA ChangeHolds ==
    ASSUME TypeOK, Standing, NEW p \in Principals, ChangeStanding(p)
    PROVE  Standing' /\ holds' \in [Principals -> SUBSET Caps] /\ member' \subseteq Principals
<1>1. UNCHANGED policy
  BY DEF ChangeStanding
<1>2. CASE UNCHANGED holds
  BY <1>1, <1>2 DEF ChangeStanding, TypeOK, Standing, HoldsWithin, DelegationsBacked
<1>3. CASE ~UNCHANGED holds
  <2>1. PICK c \in Held[p] :
           holds' = [holds EXCEPT ![p] = IF c \in holds[p] THEN holds[p] \ {c} ELSE holds[p] \cup {c}]
    BY <1>3 DEF ChangeStanding
  <2>2. member' = member
    BY <1>3 DEF ChangeStanding
  <2>3. holds'[p] \subseteq Held[p] /\ holds'[p] \subseteq Caps
    BY <2>1, AccessConstants DEF TypeOK, Standing, HoldsWithin
  <2>4. \A k \in Principals : k # p => holds'[k] = holds[k]
    BY <2>1 DEF TypeOK
  <2>5. holds' \in [Principals -> SUBSET Caps]
    BY <2>1, <2>3 DEF TypeOK
  <2> QED BY <1>1, <2>2, <2>3, <2>4, <2>5 DEF Standing, HoldsWithin, DelegationsBacked, TypeOK
<1> QED BY <1>2, <1>3

-----------------------------------------------------------------------------
LEMMA InitIInv == Init => IInv
<1> SUFFICES ASSUME Init PROVE IInv
  OBVIOUS
<1>1. NoReq \in ReqRecords
  BY DEF NoReq, ReqRecords, States, Slots
<1>2. TypeOK
  BY <1>1, NoRowsType, AccessConstants DEF Init, TypeOK, ReqRecords
<1>3. HoldsWithin
  BY DEF Init, HoldsWithin
<1>4. DelegationsBacked
  BY DEF Init, DelegationsBacked, NoPolicy, NoOffer
<1>5. RowsFollowRequests /\ EmergencyBacked
  BY DEF Init, RowsFollowRequests, EmergencyBacked, NoReq
<1> QED BY <1>2, <1>3, <1>4, <1>5 DEF IInv

LEMMA NextIInv == IInv /\ [Next]_vars => IInv'
<1> SUFFICES ASSUME IInv, [Next]_vars PROVE IInv'
  OBVIOUS
<1>0. /\ Requests /\ Standing /\ TypeOK
      /\ policy \in [Slots -> {NoPolicy} \cup PolicyRecords]
  BY DEF IInv, TypeOK, Requests, Standing, ReqRecords, PolicyRecords
<1> DEFINE Rest == /\ clock \in Nat /\ created \in Nat /\ changes \in Nat
                   /\ holds \in [Principals -> SUBSET Caps] /\ member \subseteq Principals
<1>a. Rest
  BY DEF IInv, TypeOK
<1>1. ASSUME Requests', UNCHANGED <<clock, policy, created, holds, member, changes>>
      PROVE  IInv'
  BY <1>0, <1>1, <1>a DEF Requests, Standing, HoldsWithin, DelegationsBacked, IInv, TypeOK,
                          ReqRecords, PolicyRecords
<1>2. ASSUME UNCHANGED <<req, rows>>, Standing', Rest',
             policy' \in [Slots -> {NoPolicy} \cup PolicyRecords']
      PROVE  IInv'
  <2>1. Requests'
    BY <1>0, <1>2, Same
  <2> QED BY <2>1, <1>2 DEF Requests, Standing, IInv, TypeOK, ReqRecords, PolicyRecords
<1>3. CASE UNCHANGED vars
  BY <1>0, <1>1, <1>3, Same DEF vars
<1>4. CASE PolicyStep
  <2>1. PICK m \in Managers, s \in Slots :
          DeletePolicy(m, s) \/ \E o \in Offers : CreatePolicy(m, s, o) \/ UpdatePolicy(m, s, o)
    BY <1>4 DEF PolicyStep
  <2>2. Standing' /\ policy' \in [Slots -> {NoPolicy} \cup PolicyRecords']
    BY <1>0, <2>1, PolicyStanding, DeleteStanding
  <2>3. UNCHANGED <<req, rows>> /\ Rest'
    BY <2>1, <1>a DEF DeletePolicy, CreatePolicy, UpdatePolicy
  <2> QED BY <1>2, <2>2, <2>3
<1>5. CASE RequestStep
  <2>1. PICK p \in Principals, r \in Reqs, at \in Readings :
          \/ Cancel(p, r, at) \/ Revoke(p, r, at)
          \/ \E d \in {"approve", "reject"} : Vote(p, r, d, at)
          \/ \E caps \in SUBSET Caps, dur \in 1..policy[Covering].offer.max :
               Request(p, r, caps, dur, at) \/ EmergencyAccess(p, r, caps, dur, at)
    BY <1>5 DEF RequestStep
  <2>2. CASE Cancel(p, r, at) \/ Revoke(p, r, at)
    <3>1. Requests'
      BY <2>2, <1>0, CancelRequests, RevokeRequests
    <3> QED BY <3>1, <2>2, <1>1 DEF Cancel, Revoke
  <2>3. ASSUME NEW d \in {"approve", "reject"}, Vote(p, r, d, at)
        PROVE  IInv'
    <3>1. Requests'
      BY <2>3, <1>0, VoteRequests
    <3> QED BY <3>1, <2>3, <1>1 DEF Vote
  <2>4. ASSUME NEW caps \in SUBSET Caps, NEW dur \in 1..policy[Covering].offer.max,
               Request(p, r, caps, dur, at) \/ EmergencyAccess(p, r, caps, dur, at)
        PROVE  IInv'
    <3>1. dur \in Nat
      BY <1>0, CoveringType
    <3>2. Requests'
      BY <3>1, <2>4, <1>0, RequestRequests, EmergencyRequests DEF Standing
    <3> QED BY <3>2, <2>4, <1>1 DEF Request, EmergencyAccess
  <2> QED BY <2>1, <2>2, <2>3, <2>4
<1>6. ASSUME NEW at \in Readings, ExpireDue(at) PROVE IInv'
  <2>1. Requests'
    BY <1>0, <1>6, ExpireRequests
  <2> QED BY <2>1, <1>6, <1>1 DEF ExpireDue
<1>7. ASSUME NEW p \in Principals, ChangeStanding(p) PROVE IInv'
  <2>1. Standing' /\ Rest' /\ UNCHANGED <<req, rows>>
    BY <1>0, <1>7, <1>a, ChangeHolds DEF ChangeStanding
  <2>2. policy' \in [Slots -> {NoPolicy} \cup PolicyRecords']
    BY <1>0, <1>7 DEF ChangeStanding, PolicyRecords
  <2> QED BY <1>2, <2>1, <2>2
<1>8. CASE Tick
  <2>1. Standing' /\ Rest' /\ UNCHANGED <<req, rows>>
    BY <1>0, <1>8, <1>a DEF Tick, Standing, HoldsWithin, DelegationsBacked
  <2>2. policy' \in [Slots -> {NoPolicy} \cup PolicyRecords']
    BY <1>0, <1>8 DEF Tick, PolicyRecords
  <2> QED BY <1>2, <2>1, <2>2
<1> QED BY <1>3, <1>4, <1>5, <1>6, <1>7, <1>8 DEF Next

LEMMA Invariance == Spec => []IInv
  BY InitIInv, NextIInv, PTL DEF Spec

\* Every reachable state of the temporary-access service is well typed; a policy
\* that exists has an id handed out before and a version.
THEOREM AccessTypes == Spec => []TypeOK
<1>1. IInv => TypeOK BY DEF IInv
<1> QED BY <1>1, Invariance, PTL

\* The grant rows of a request are what the request's state says, through votes,
\* revocations and sweeps in any order.
THEOREM RowsAgree == Spec => []RowsFollowRequests
<1>1. IInv => RowsFollowRequests BY DEF IInv
<1> QED BY <1>1, Invariance, PTL

\* No sequence of creations, updates and deletions of policies makes emergency
\* access confer what no manager could grant.
THEOREM EmergencyStaysBacked == Spec => []EmergencyBacked
<1>1. IInv => EmergencyBacked BY DEF IInv
<1> QED BY <1>1, Invariance, PTL

\* Every grant row has its request and every emergency grant its manager, for any
\* policies, requests and changes of standing.
THEOREM GrantsStayBacked == Spec => []GrantsBacked
<1> QED BY AccessTypes, RowsAgree, EmergencyStaysBacked, PTL DEF GrantsBacked
-----------------------------------------------------------------------------
(* Quorums.                                                                *)

\* A request is pinned to the policy it was filed under: its policy id was handed
\* out, its version is not ahead of the policy's, and while the versions agree
\* the policy still offers what was asked for.  Votes are finitely many.
PinnedTo(q, pol) ==
    pol.id = q.id =>
      /\ q.version <= pol.version
      /\ pol.version = q.version => q.caps \subseteq pol.offer.caps

Pinned ==
    \A r \in Reqs :
      /\ IsFiniteSet(req[r].approve)
      /\ req[r].state # "none" => req[r].id \in 1..created /\ PinnedTo(req[r], policy[req[r].slot])

\* What a step does to one request, apart from filing it: its terms stay, no
\* request opens again, and at most one vote is added.
SameTerms(q, k) ==
    /\ q.slot = k.slot /\ q.id = k.id /\ q.version = k.version /\ q.caps = k.caps
    /\ q.who = k.who /\ q.review = k.review
    /\ k.state = "open" => q.state = "open"
    /\ k.state = "none" <=> q.state = "none"
    /\ \E p : k.approve \subseteq q.approve \cup {p}

Later == States \ {"none", "open"}

LEMMA EndTerms ==
    ASSUME NEW q \in ReqRecords, NEW st \in Later, q.state # "none"
    PROVE  SameTerms(q, [q EXCEPT !.state = st])
  BY DEF SameTerms, ReqRecords, Later

LEMMA RejectTerms ==
    ASSUME NEW q \in ReqRecords, NEW V \in SUBSET Principals, q.state # "none"
    PROVE  SameTerms(q, [q EXCEPT !.state = "rejected", !.reject = V])
  BY DEF SameTerms, ReqRecords

LEMMA ApproveTerms ==
    ASSUME NEW q \in ReqRecords, NEW p \in Principals
    PROVE  SameTerms(q, [q EXCEPT !.approve = @ \cup {p}])
  BY DEF SameTerms, ReqRecords

LEMMA GrantTerms ==
    ASSUME NEW q \in ReqRecords, NEW p \in Principals, NEW t, q.state # "none"
    PROVE  SameTerms(q, [q EXCEPT !.state = "granted", !.approve = @ \cup {p}, !.expires = t])
  BY DEF SameTerms, ReqRecords

LEMMA SameIsSameTerms ==
    ASSUME NEW q PROVE SameTerms(q, q)
  BY DEF SameTerms

\* A policy only changes together with its id or its version, and never back.
PolicyMoves ==
    \A s \in Slots :
      \/ policy'[s] = policy[s]
      \/ policy'[s].id = 0
      \/ policy'[s].id = created + 1
      \/ policy'[s].id = policy[s].id /\ policy'[s].version = policy[s].version + 1

LEMMA PolicyStepMoves ==
    ASSUME TypeOK, PolicyStep
    PROVE  /\ PolicyMoves /\ created' \in {created, created + 1}
           /\ UNCHANGED <<clock, req, rows, holds, member, changes>>
<1>1. PICK m \in Managers, s \in Slots :
        DeletePolicy(m, s) \/ \E o \in Offers : CreatePolicy(m, s, o) \/ UpdatePolicy(m, s, o)
  BY DEF PolicyStep
<1>2. CASE DeletePolicy(m, s)
  BY <1>2 DEF DeletePolicy, PolicyMoves, TypeOK, NoPolicy
<1>3. ASSUME NEW o \in Offers, CreatePolicy(m, s, o)
      PROVE  PolicyMoves /\ UNCHANGED <<clock, req, rows, holds, member, changes>> /\ created' = created + 1
  BY <1>3 DEF CreatePolicy, NextId, PolicyMoves, TypeOK
<1>4. ASSUME NEW o \in Offers, UpdatePolicy(m, s, o)
      PROVE  PolicyMoves /\ UNCHANGED <<clock, req, rows, holds, member, changes>> /\ created' = created
  BY <1>4 DEF UpdatePolicy, PolicyMoves, TypeOK
<1> QED BY <1>1, <1>2, <1>3, <1>4

\* What a step does to the requests: it files one, or leaves their terms.
Filing(r) ==
    \E p \in Principals, caps \in SUBSET Caps, dur \in Nat, at \in Readings,
       st \in {"open", "granted"}, rev \in Nat, exp \in Nat :
         /\ MayAsk(p, caps, dur, at)
         /\ req' = [req EXCEPT ![r] = Filed(p, caps, dur, st, rev, exp)]

Settling == req' \in [Reqs -> ReqRecords] /\ \A r \in Reqs : SameTerms(req[r], req'[r])

LEMMA VoteSettles ==
    ASSUME TypeOK, NEW p \in Principals, NEW r \in Reqs, NEW d, NEW at \in Readings, Vote(p, r, d, at),
           req' \in [Reqs -> ReqRecords]
    PROVE  Settling
<1>0. req \in [Reqs -> ReqRecords] /\ req[r] \in ReqRecords /\ req[r].state = "open"
  BY DEF TypeOK, ReqRecords, Vote
<1>1. \E q : req' = [req EXCEPT ![r] = q] /\ SameTerms(req[r], q)
  <2>1. CASE Invalidate(r)
    <3>1. SameTerms(req[r], [req[r] EXCEPT !.state = "invalidated"])
      BY <1>0, EndTerms DEF States, Later
    <3> QED BY <2>1, <3>1 DEF Invalidate
  <2>2. CASE Decide(p, r, d, at)
    <3> DEFINE offer == policy[req[r].slot].offer
               until == at + Shorter(req[r].dur, offer.max)
    <3>1. SameTerms(req[r], RejectedBy(p, r))
      <4>1. req[r].reject \cup {p} \in SUBSET Principals
        BY <1>0 DEF ReqRecords
      <4> QED BY <1>0, <4>1, RejectTerms DEF RejectedBy
    <3>2. SameTerms(req[r], ApprovedBy(p, r))
      BY <1>0, ApproveTerms DEF ApprovedBy
    <3>3. SameTerms(req[r], GrantedBy(p, r, until))
      BY <1>0, GrantTerms DEF GrantedBy
    <3>4. \/ req' = [req EXCEPT ![r] = RejectedBy(p, r)]
          \/ req' = [req EXCEPT ![r] = ApprovedBy(p, r)]
          \/ req' = [req EXCEPT ![r] = GrantedBy(p, r, until)]
      BY <2>2 DEF Decide
    <3> QED BY <3>1, <3>2, <3>3, <3>4
  <2> QED BY <2>1, <2>2 DEF Vote
<1>2. PICK q : req' = [req EXCEPT ![r] = q] /\ SameTerms(req[r], q)
  BY <1>1
<1>3. \A k \in Reqs : req'[k] = IF k = r THEN q ELSE req[k]
  BY <1>0, <1>2
<1> QED BY <1>2, <1>3, SameIsSameTerms DEF Settling

LEMMA StepSettles ==
    ASSUME IInv, IInv', Next
    PROVE  \/ PolicyStep
           \/ /\ UNCHANGED <<policy, created>>
              /\ Settling \/ \E r \in Reqs : Filing(r)
<1>0. req \in [Reqs -> ReqRecords] /\ req' \in [Reqs -> ReqRecords]
  BY DEF IInv, TypeOK, ReqRecords
<1>1. ASSUME UNCHANGED req PROVE Settling
  BY <1>0, <1>1, SameIsSameTerms DEF Settling
<1>2. ASSUME NEW r \in Reqs, NEW st \in Later, req[r].state # "none",
             req' = [req EXCEPT ![r] = [@ EXCEPT !.state = st]]
      PROVE  Settling
  <2>1. \A k \in Reqs : req'[k] = IF k = r THEN [req[k] EXCEPT !.state = st] ELSE req[k]
    BY <1>0, <1>2
  <2>2. \A k \in Reqs : SameTerms(req[k], req'[k])
    BY <1>0, <1>2, <2>1, EndTerms, SameIsSameTerms
  <2> QED BY <1>0, <2>2 DEF Settling
<1>3. CASE RequestStep
  <2>1. PICK p \in Principals, r \in Reqs, at \in Readings :
          \/ Cancel(p, r, at) \/ Revoke(p, r, at)
          \/ \E d \in {"approve", "reject"} : Vote(p, r, d, at)
          \/ \E caps \in SUBSET Caps, dur \in 1..policy[Covering].offer.max :
               Request(p, r, caps, dur, at) \/ EmergencyAccess(p, r, caps, dur, at)
    BY <1>3 DEF RequestStep
  <2>2. CASE Cancel(p, r, at)
    BY <2>2, <1>2 DEF Cancel, States, Later
  <2>3. CASE Revoke(p, r, at)
    BY <2>3, <1>2 DEF Revoke, States, Later
  <2>4. ASSUME NEW d \in {"approve", "reject"}, Vote(p, r, d, at)
        PROVE  UNCHANGED <<policy, created>> /\ Settling
    BY <2>4, <1>0, VoteSettles DEF Vote, IInv
  <2>5. ASSUME NEW caps \in SUBSET Caps, NEW dur \in 1..policy[Covering].offer.max,
               Request(p, r, caps, dur, at) \/ EmergencyAccess(p, r, caps, dur, at)
        PROVE  UNCHANGED <<policy, created>> /\ Filing(r)
    <3>1. dur \in Nat /\ at \in Nat /\ at + ReviewTTL \in Nat /\ at + dur \in Nat /\ 0 \in Nat
      BY CoveringType, AccessConstants DEF IInv, Readings, TypeOK
    <3>2. CASE Request(p, r, caps, dur, at)
      <4>1. /\ MayAsk(p, caps, dur, at)
            /\ req' = [req EXCEPT ![r] = Filed(p, caps, dur, "open", at + ReviewTTL, 0)]
        BY <3>2 DEF Request
      <4>2. "open" \in {"open", "granted"}
        OBVIOUS
      <4>3. Filing(r)
        BY <3>1, <4>1, <4>2 DEF Filing
      <4> QED BY <3>2, <4>3 DEF Request
    <3>3. CASE EmergencyAccess(p, r, caps, dur, at)
      <4>1. /\ MayAsk(p, caps, dur, at)
            /\ req' = [req EXCEPT ![r] = Filed(p, caps, dur, "granted", at, at + dur)]
        BY <3>3 DEF EmergencyAccess
      <4> QED BY <3>1, <3>3, <4>1 DEF EmergencyAccess, Filing
    <3> QED BY <2>5, <3>2, <3>3
  <2> QED BY <2>1, <2>2, <2>3, <2>4, <2>5 DEF Cancel, Revoke
<1>4. ASSUME NEW at \in Readings, ExpireDue(at)
      PROVE  UNCHANGED <<policy, created>> /\ Settling
  <2>1. PICK due \in SUBSET Due(at) :
          req' = [r \in Reqs |-> IF r \in due THEN [req[r] EXCEPT !.state = "expired"] ELSE req[r]]
    BY <1>4 DEF ExpireDue
  <2>2. "expired" \in Later
    BY DEF States, Later
  <2>3. \A k \in Reqs : SameTerms(req[k], req'[k])
    BY <1>0, <2>1, <2>2, EndTerms, SameIsSameTerms DEF Due
  <2> QED BY <1>0, <1>4, <2>3 DEF Settling, ExpireDue
<1>5. ASSUME NEW p \in Principals, ChangeStanding(p)
      PROVE  UNCHANGED <<policy, created, req>>
  BY <1>5 DEF ChangeStanding
<1>6. CASE Tick
  BY <1>6, <1>1 DEF Tick
<1> QED BY <1>1, <1>3, <1>4, <1>5, <1>6 DEF Next

LEMMA PinnedNext == IInv /\ IInv' /\ Pinned /\ [Next]_vars => Pinned'
<1> SUFFICES ASSUME IInv, IInv', Pinned, [Next]_vars PROVE Pinned'
  OBVIOUS
<1>0. /\ req \in [Reqs -> ReqRecords] /\ req' \in [Reqs -> ReqRecords]
      /\ TypeOK /\ TypeOK' /\ created \in Nat
      /\ policy \in [Slots -> {NoPolicy} \cup PolicyRecords]
  BY DEF IInv, TypeOK, ReqRecords, PolicyRecords
<1>1. CASE UNCHANGED vars
  BY <1>1 DEF vars, Pinned, PinnedTo
<1>2. CASE PolicyStep
  <2>1. PolicyMoves /\ UNCHANGED req /\ created' \in {created, created + 1}
    BY <1>0, <1>2, PolicyStepMoves
  <2>2. ASSUME NEW r \in Reqs, req[r].state # "none"
        PROVE  req[r].id \in 1..created' /\ PinnedTo(req[r], policy'[req[r].slot])
    <3>1. req[r].id \in 1..created /\ PinnedTo(req[r], policy[req[r].slot])
      BY <2>2 DEF Pinned
    <3>2. req[r].slot \in Slots /\ req[r].version \in Nat
      BY <1>0 DEF ReqRecords
    <3>3. policy[req[r].slot].version \in Nat
      BY <1>0, <3>2 DEF PolicyRecords, NoPolicy
    <3>4. CASE policy'[req[r].slot] = policy[req[r].slot]
      BY <1>0, <2>1, <3>1, <3>4
    <3>5. CASE policy'[req[r].slot].id \in {0, created + 1}
      BY <1>0, <2>1, <3>1, <3>5 DEF PinnedTo
    <3>6. CASE /\ policy'[req[r].slot].id = policy[req[r].slot].id
               /\ policy'[req[r].slot].version = policy[req[r].slot].version + 1
      <4>1. policy[req[r].slot].id = req[r].id => req[r].version < policy'[req[r].slot].version
        BY <3>1, <3>2, <3>3, <3>6 DEF PinnedTo
      <4>2. PinnedTo(req[r], policy'[req[r].slot])
        BY <4>1, <3>2, <3>3, <3>6 DEF PinnedTo
      <4> QED BY <1>0, <2>1, <3>1, <4>2
    <3> QED BY <2>1, <3>2, <3>4, <3>5, <3>6 DEF PolicyMoves
  <2> QED BY <2>1, <2>2 DEF Pinned
<1>3. CASE UNCHANGED <<policy, created>> /\ Settling
  <2>1. ASSUME NEW r \in Reqs
        PROVE  /\ IsFiniteSet(req'[r].approve)
               /\ req'[r].state # "none" =>
                    req'[r].id \in 1..created /\ PinnedTo(req'[r], policy[req'[r].slot])
    <3>1. SameTerms(req[r], req'[r])
      BY <1>3 DEF Settling
    <3>2. IsFiniteSet(req'[r].approve)
      <4>1. PICK p : req'[r].approve \subseteq req[r].approve \cup {p}
        BY <3>1 DEF SameTerms
      <4>2. IsFiniteSet(req[r].approve \cup {p})
        BY FS_AddElement DEF Pinned
      <4> QED BY <4>1, <4>2, FS_Subset
    <3>3. CASE req[r].state # "none"
      <4>1. req[r].id \in 1..created /\ PinnedTo(req[r], policy[req[r].slot])
        BY <3>3 DEF Pinned
      <4> QED BY <3>1, <3>2, <4>1 DEF SameTerms, PinnedTo
    <3>4. CASE req[r].state = "none"
      <4>1. req'[r].state # "none" => req[r].state # "none"
        BY <3>1 DEF SameTerms
      <4> QED BY <3>2, <3>4, <4>1
    <3> QED BY <3>3, <3>4
  <2> QED BY <1>3, <2>1 DEF Pinned
<1>4. ASSUME NEW r \in Reqs, UNCHANGED <<policy, created>>, Filing(r)
      PROVE  Pinned'
  <2>1. PICK p \in Principals, caps \in SUBSET Caps, dur \in Nat, at \in Readings,
             st \in {"open", "granted"}, rev \in Nat, exp \in Nat :
          /\ MayAsk(p, caps, dur, at)
          /\ req' = [req EXCEPT ![r] = Filed(p, caps, dur, st, rev, exp)]
    BY <1>4 DEF Filing
  <2>2. \A k \in Reqs : req'[k] = IF k = r THEN Filed(p, caps, dur, st, rev, exp) ELSE req[k]
    BY <1>0, <2>1
  <2>3. Covering \in Slots /\ policy[Covering].offer.enabled /\ caps \subseteq policy[Covering].offer.caps
    BY <1>0, <2>1, CoveringType DEF MayAsk
  <2>4. policy[Covering] \in PolicyRecords
    BY <1>0, <2>3 DEF NoPolicy, NoOffer
  <2>5. /\ req'[r].approve = {} /\ req'[r].id = policy[Covering].id /\ req'[r].slot = Covering
        /\ req'[r].version = policy[Covering].version /\ req'[r].caps = caps
    BY <2>2 DEF Filed
  <2>6. IsFiniteSet(req'[r].approve)
    BY <2>5, FS_EmptySet
  <2>7. req'[r].id \in 1..created /\ PinnedTo(req'[r], policy[req'[r].slot])
    BY <2>3, <2>4, <2>5 DEF PinnedTo, PolicyRecords
  <2> QED BY <1>4, <2>2, <2>6, <2>7 DEF Pinned
<1> QED BY <1>1, <1>2, <1>3, <1>4, StepSettles
LEMMA PinnedInit == Init => Pinned
<1>1. NoReq.approve = {} /\ NoReq.state = "none"
  BY DEF NoReq
<1> QED BY <1>1, FS_EmptySet DEF Init, Pinned

LEMMA PinnedAlways == Spec => [](IInv /\ Pinned)
<1>1. IInv /\ Pinned /\ [Next]_vars => (IInv /\ Pinned)'
  BY NextIInv, PinnedNext
<1> QED BY InitIInv, PinnedInit, <1>1, PTL DEF Spec

\* The only step that grants an open request is the vote that completes its quorum.
LEMMA GrantIsVote ==
    ASSUME IInv, Next, NEW r \in Reqs, req[r].state = "open", req'[r].state = "granted"
    PROVE  \E p \in Principals, at \in Readings :
             LET offer == policy[req[r].slot].offer
             IN /\ ~StalePolicy(r) /\ ApproverEligible(p, offer)
                /\ req[r].who = {p} => offer.self
                /\ CanGrantAll(p, req[r].caps)
                /\ Cardinality(Countable(r, offer, at) \cup {p}) >= offer.min
                /\ req'[r].approve = req[r].approve \cup {p}
                /\ rows'[r].caps = req[r].caps
                /\ rows'[r].until = at + Shorter(req[r].dur, offer.max)
<1>0. req \in [Reqs -> ReqRecords] /\ rows \in [Reqs -> [caps : SUBSET Caps, until : Nat]]
  BY DEF IInv, TypeOK, ReqRecords
<1>1. ASSUME NEW k \in Reqs, NEW q, req' = [req EXCEPT ![k] = q]
      PROVE  k = r /\ req'[r] = q
  BY <1>0, <1>1
<1>2. ASSUME NEW p \in Principals, NEW k \in Reqs, NEW d, NEW at \in Readings, Vote(p, k, d, at)
      PROVE  LET offer == policy[req[r].slot].offer
             IN /\ ~StalePolicy(r) /\ ApproverEligible(p, offer)
                /\ req[r].who = {p} => offer.self
                /\ CanGrantAll(p, req[r].caps)
                /\ Cardinality(Countable(r, offer, at) \cup {p}) >= offer.min
                /\ req'[r].approve = req[r].approve \cup {p}
                /\ rows'[r].caps = req[r].caps
                /\ rows'[r].until = at + Shorter(req[r].dur, offer.max)
  <2> DEFINE offer == policy[req[k].slot].offer
             until == at + Shorter(req[k].dur, offer.max)
  <2>1. ~Invalidate(k)
    <3> SUFFICES ASSUME Invalidate(k) PROVE FALSE
      OBVIOUS
    <3>1. k = r /\ req'[r] = [req[k] EXCEPT !.state = "invalidated"]
      BY <1>1 DEF Invalidate
    <3> QED BY <1>0, <3>1 DEF ReqRecords
  <2>2. Decide(p, k, d, at)
    BY <1>2, <2>1 DEF Vote
  <2>3. ~(req' = [req EXCEPT ![k] = RejectedBy(p, k)])
    <3> SUFFICES ASSUME req' = [req EXCEPT ![k] = RejectedBy(p, k)] PROVE FALSE
      OBVIOUS
    <3>1. k = r /\ req'[r] = RejectedBy(p, r)
      BY <1>1
    <3> QED BY <1>0, <3>1 DEF ReqRecords, RejectedBy
  <2>4. ~(req' = [req EXCEPT ![k] = ApprovedBy(p, k)])
    <3> SUFFICES ASSUME req' = [req EXCEPT ![k] = ApprovedBy(p, k)] PROVE FALSE
      OBVIOUS
    <3>1. k = r /\ req'[r] = ApprovedBy(p, r)
      BY <1>1
    <3> QED BY <1>0, <3>1 DEF ReqRecords, ApprovedBy
  <2>5. /\ ~StalePolicy(k) /\ ApproverEligible(p, offer)
        /\ req[k].who = {p} => offer.self
        /\ CanGrantAll(p, req[k].caps)
        /\ Reached(Cardinality(Countable(k, offer, at) \cup {p}), offer.min)
        /\ req' = [req EXCEPT ![k] = GrantedBy(p, k, until)]
        /\ rows' = [rows EXCEPT ![k] = [caps |-> req[k].caps, until |-> until]]
    BY <2>2, <2>3, <2>4 DEF Decide
  <2>6. k = r /\ req'[r] = GrantedBy(p, r, until)
    BY <1>1, <2>5
  <2>7. req'[r].approve = req[r].approve \cup {p}
    BY <1>0, <2>6 DEF GrantedBy, ReqRecords
  <2>8. rows'[r] = [caps |-> req[r].caps, until |-> until]
    BY <1>0, <2>5, <2>6
  <2> QED BY <2>5, <2>6, <2>7, <2>8 DEF Reached
<1>3. CASE RequestStep
  <2>1. PICK p \in Principals, k \in Reqs, at \in Readings :
          \/ Cancel(p, k, at) \/ Revoke(p, k, at)
          \/ \E d \in {"approve", "reject"} : Vote(p, k, d, at)
          \/ \E caps \in SUBSET Caps, dur \in 1..policy[Covering].offer.max :
               Request(p, k, caps, dur, at) \/ EmergencyAccess(p, k, caps, dur, at)
    BY <1>3 DEF RequestStep
  <2>2. ~Cancel(p, k, at)
    <3> SUFFICES ASSUME Cancel(p, k, at) PROVE FALSE
      OBVIOUS
    <3>1. k = r /\ req'[r] = [req[k] EXCEPT !.state = "cancelled"]
      BY <1>1 DEF Cancel
    <3> QED BY <1>0, <3>1 DEF ReqRecords
  <2>3. ~Revoke(p, k, at)
    <3> SUFFICES ASSUME Revoke(p, k, at) PROVE FALSE
      OBVIOUS
    <3>1. k = r /\ req'[r] = [req[k] EXCEPT !.state = "revoked"]
      BY <1>1 DEF Revoke
    <3> QED BY <1>0, <3>1 DEF ReqRecords
  <2>4. ASSUME NEW caps, NEW dur, Request(p, k, caps, dur, at) \/ EmergencyAccess(p, k, caps, dur, at)
        PROVE  FALSE
    <3>1. k = r /\ req[k].state = "none"
      BY <2>4, <1>1 DEF Request, EmergencyAccess
    <3> QED BY <3>1
  <2>5. PICK d \in {"approve", "reject"} : Vote(p, k, d, at)
    BY <2>1, <2>2, <2>3, <2>4
  <2> QED BY <1>2, <2>5
<1>4. ASSUME NEW at \in Readings, ExpireDue(at) PROVE FALSE
  <2>1. req'[r].state \in {"expired", req[r].state}
    BY <1>0, <1>4 DEF ExpireDue, ReqRecords
  <2> QED BY <2>1
<1>5. ~PolicyStep /\ ~Tick /\ \A p \in Principals : ~ChangeStanding(p)
  BY DEF PolicyStep, DeletePolicy, CreatePolicy, UpdatePolicy, Tick, ChangeStanding
<1> QED BY <1>3, <1>4, <1>5 DEF Next

LEMMA GrantConsented ==
    ASSUME IInv, Pinned, Next, NEW r \in Reqs, req[r].state = "open", req'[r].state = "granted"
    PROVE  Consented(r)
<1> DEFINE offer == policy[req[r].slot].offer
<1>1. PICK p \in Principals, at \in Readings :
         /\ ~StalePolicy(r) /\ ApproverEligible(p, offer)
         /\ req[r].who = {p} => offer.self
         /\ CanGrantAll(p, req[r].caps)
         /\ Cardinality(Countable(r, offer, at) \cup {p}) >= offer.min
         /\ req'[r].approve = req[r].approve \cup {p}
         /\ rows'[r].caps = req[r].caps
         /\ rows'[r].until = at + Shorter(req[r].dur, offer.max)
  BY GrantIsVote
<1>2. policy[req[r].slot].id = req[r].id /\ policy[req[r].slot].version = req[r].version
  BY <1>1 DEF StalePolicy
<1>3. rows'[r].caps \subseteq offer.caps
  BY <1>1, <1>2 DEF Pinned, PinnedTo
<1>4. rows'[r].until <= clock + offer.max
  <2>1. req[r].dur \in Nat /\ req[r].slot \in Slots /\ clock \in Nat
    BY DEF IInv, TypeOK
  <2>2. offer.max \in Nat
    BY <2>1, AccessConstants DEF IInv, TypeOK, NoPolicy, NoOffer
  <2>3. at \in Nat /\ at <= clock
    BY <2>1 DEF Readings
  <2> QED BY <1>1, <2>1, <2>2, <2>3 DEF Shorter
<1> DEFINE quorum == Countable(r, offer, at) \cup {p}
<1>5. quorum \in SUBSET req'[r].approve
  BY <1>1 DEF Countable
<1>6. \A q \in quorum : /\ q \in offer.approvers \cap member
                        /\ req[r].caps \subseteq holds[q]
                        /\ req[r].who = {q} => offer.self
  BY <1>1 DEF Countable, ApproverEligible, CanGrantAll
<1>7. Cardinality(quorum) >= offer.min
  BY <1>1
<1> HIDE DEF quorum
<1> QED BY <1>2, <1>3, <1>4, <1>5, <1>6, <1>7 DEF Consented

\* No request is granted without a quorum of people who, at that moment, are
\* approvers and could grant all of it themselves, nor for longer or for more
\* than the policy it was filed under allows (Vote, countableApprovals), for any
\* policies, principals and bounds.
THEOREM GrantsHaveQuorum == Spec => GrantNeedsQuorum
<1>1. IInv /\ Pinned /\ [Next]_vars =>
        [\A r \in Reqs : req[r].state = "open" /\ req'[r].state = "granted" => Consented(r)]_vars
  BY GrantConsented
<1> QED BY <1>1, PinnedAlways, PTL DEF Spec, GrantNeedsQuorum
-----------------------------------------------------------------------------
(* A complete quorum does not wait for want of a vote.  What a vote counts *)
(* at its own reading includes all that counts now, so a vote that leaves  *)
(* its request open leaves the quorum short; and between votes a vote that *)
(* did not count comes to count only through standing that its caster      *)
(* gains.                                                                  *)

\* An open request is as it was, new, or one vote short of its quorum still.
LEMMA OpenAfter ==
    ASSUME IInv, Next, NEW r \in Reqs, req'[r].state = "open"
    PROVE  \/ req'[r] = req[r]
           \/ req'[r].approve = {}
           \/ \E p \in Principals, at \in Readings :
                /\ req[r].state = "open" /\ at < req[r].review /\ ~StalePolicy(r)
                /\ req'[r] = ApprovedBy(p, r) /\ req' = [req EXCEPT ![r] = ApprovedBy(p, r)]
                /\ ~Reached(Cardinality(Countable(r, policy[req[r].slot].offer, at) \cup {p}),
                            policy[req[r].slot].offer.min)
                /\ UNCHANGED <<clock, policy, rows, holds, member>>
<1>0. req \in [Reqs -> ReqRecords]
  BY DEF IInv, TypeOK, ReqRecords
<1>1. ASSUME NEW k \in Reqs, NEW q, req' = [req EXCEPT ![k] = q], ~(req'[r] = req[r])
      PROVE  k = r /\ req'[r] = q
  BY <1>0, <1>1
<1> SUFFICES ASSUME ~(req'[r] = req[r]), req'[r].approve # {}
             PROVE  \E p \in Principals, at \in Readings :
                /\ req[r].state = "open" /\ at < req[r].review /\ ~StalePolicy(r)
                /\ req'[r] = ApprovedBy(p, r) /\ req' = [req EXCEPT ![r] = ApprovedBy(p, r)]
                /\ ~Reached(Cardinality(Countable(r, policy[req[r].slot].offer, at) \cup {p}),
                            policy[req[r].slot].offer.min)
                /\ UNCHANGED <<clock, policy, rows, holds, member>>
  OBVIOUS
<1>2. ASSUME NEW p \in Principals, NEW k \in Reqs, NEW d, NEW at \in Readings, Vote(p, k, d, at)
      PROVE  /\ req[r].state = "open" /\ at < req[r].review /\ ~StalePolicy(r)
             /\ req'[r] = ApprovedBy(p, r) /\ req' = [req EXCEPT ![r] = ApprovedBy(p, r)]
             /\ ~Reached(Cardinality(Countable(r, policy[req[r].slot].offer, at) \cup {p}),
                         policy[req[r].slot].offer.min)
             /\ UNCHANGED <<clock, policy, rows, holds, member>>
  <2> DEFINE offer == policy[req[k].slot].offer
             until == at + Shorter(req[k].dur, offer.max)
  <2>1. ~Invalidate(k)
    <3> SUFFICES ASSUME Invalidate(k) PROVE FALSE
      OBVIOUS
    <3>1. k = r /\ req'[r] = [req[k] EXCEPT !.state = "invalidated"]
      BY <1>1 DEF Invalidate
    <3> QED BY <1>0, <3>1 DEF ReqRecords
  <2>2. Decide(p, k, d, at)
    BY <1>2, <2>1 DEF Vote
  <2>3. ~(req' = [req EXCEPT ![k] = RejectedBy(p, k)])
    <3> SUFFICES ASSUME req' = [req EXCEPT ![k] = RejectedBy(p, k)] PROVE FALSE
      OBVIOUS
    <3>1. k = r /\ req'[r] = RejectedBy(p, r)
      BY <1>1
    <3> QED BY <1>0, <3>1 DEF ReqRecords, RejectedBy
  <2>4. ~(req' = [req EXCEPT ![k] = GrantedBy(p, k, until)])
    <3> SUFFICES ASSUME req' = [req EXCEPT ![k] = GrantedBy(p, k, until)] PROVE FALSE
      OBVIOUS
    <3>1. k = r /\ req'[r] = GrantedBy(p, r, until)
      BY <1>1
    <3> QED BY <1>0, <3>1 DEF ReqRecords, GrantedBy
  <2>5. /\ ~StalePolicy(k)
        /\ ~Reached(Cardinality(Countable(k, offer, at) \cup {p}), offer.min)
        /\ req' = [req EXCEPT ![k] = ApprovedBy(p, k)] /\ UNCHANGED rows
    BY <2>2, <2>3, <2>4 DEF Decide
  <2>6. k = r /\ req'[r] = ApprovedBy(p, k)
    BY <1>1, <2>5
  <2>7. req[k].state = "open" /\ at < req[k].review /\ UNCHANGED <<clock, policy, holds, member>>
    BY <1>2 DEF Vote
  <2> QED BY <2>5, <2>6, <2>7
<1>3. CASE RequestStep
  <2>1. PICK p \in Principals, k \in Reqs, at \in Readings :
          \/ Cancel(p, k, at) \/ Revoke(p, k, at)
          \/ \E d \in {"approve", "reject"} : Vote(p, k, d, at)
          \/ \E caps \in SUBSET Caps, dur \in 1..policy[Covering].offer.max :
               Request(p, k, caps, dur, at) \/ EmergencyAccess(p, k, caps, dur, at)
    BY <1>3 DEF RequestStep
  <2>2. ~Cancel(p, k, at)
    <3> SUFFICES ASSUME Cancel(p, k, at) PROVE FALSE
      OBVIOUS
    <3>1. k = r /\ req'[r] = [req[k] EXCEPT !.state = "cancelled"]
      BY <1>1 DEF Cancel
    <3> QED BY <1>0, <3>1 DEF ReqRecords
  <2>3. ~Revoke(p, k, at)
    <3> SUFFICES ASSUME Revoke(p, k, at) PROVE FALSE
      OBVIOUS
    <3>1. k = r /\ req'[r] = [req[k] EXCEPT !.state = "revoked"]
      BY <1>1 DEF Revoke
    <3> QED BY <1>0, <3>1 DEF ReqRecords
  <2>4. ASSUME NEW caps, NEW dur, Request(p, k, caps, dur, at) \/ EmergencyAccess(p, k, caps, dur, at)
        PROVE  FALSE
    <3>1. PICK st, rev, exp : req' = [req EXCEPT ![k] = Filed(p, caps, dur, st, rev, exp)]
      BY <2>4 DEF Request, EmergencyAccess
    <3>2. req'[r] = Filed(p, caps, dur, st, rev, exp)
      BY <3>1, <1>1
    <3> QED BY <3>2 DEF Filed
  <2>5. PICK d \in {"approve", "reject"} : Vote(p, k, d, at)
    BY <2>1, <2>2, <2>3, <2>4
  <2> QED BY <1>2, <2>5
<1>4. ASSUME NEW at \in Readings, ExpireDue(at) PROVE FALSE
  <2>1. req'[r] = req[r] \/ req'[r].state = "expired"
    BY <1>0, <1>4 DEF ExpireDue, ReqRecords
  <2> QED BY <2>1
<1>5. ~PolicyStep /\ ~Tick /\ \A p \in Principals : ~ChangeStanding(p)
  BY DEF PolicyStep, DeletePolicy, CreatePolicy, UpdatePolicy, Tick, ChangeStanding
<1> QED BY <1>3, <1>4, <1>5 DEF Next

LEMMA ClockForward ==
    ASSUME IInv, IInv', Next
    PROVE  clock \in Nat /\ clock' \in Nat /\ clock <= clock'
<1>0. clock \in Nat /\ clock' \in Nat
  BY DEF IInv, TypeOK
<1>1. clock' = clock \/ clock' = clock + 1
  <2>1. CASE PolicyStep
    BY <2>1, PolicyStepMoves DEF IInv
  <2>2. CASE RequestStep
    BY <2>2 DEF RequestStep, Cancel, Revoke, Vote, Request, EmergencyAccess
  <2>3. CASE Tick
    BY <2>3 DEF Tick
  <2> QED BY <2>1, <2>2, <2>3 DEF Next, ExpireDue, ChangeStanding
<1> QED BY <1>0, <1>1

\* A grant that lasts through a step lasts unchanged.
LEMMA GrantedStays ==
    ASSUME IInv, Next, NEW r \in Reqs, req[r].state = "granted", req'[r].state = "granted"
    PROVE  req'[r] = req[r]
<1>0. req \in [Reqs -> ReqRecords]
  BY DEF IInv, TypeOK, ReqRecords
<1>1. ASSUME NEW k \in Reqs, NEW q, req' = [req EXCEPT ![k] = q], req[k].state # "granted"
      PROVE  req'[r] = req[r]
  BY <1>0, <1>1
<1>2. CASE RequestStep
  <2>1. PICK p \in Principals, k \in Reqs, at \in Readings :
          \/ Cancel(p, k, at) \/ Revoke(p, k, at)
          \/ \E d \in {"approve", "reject"} : Vote(p, k, d, at)
          \/ \E caps \in SUBSET Caps, dur \in 1..policy[Covering].offer.max :
               Request(p, k, caps, dur, at) \/ EmergencyAccess(p, k, caps, dur, at)
    BY <1>2 DEF RequestStep
  <2>2. CASE Cancel(p, k, at)
    BY <2>2, <1>1 DEF Cancel
  <2>3. CASE Revoke(p, k, at)
    <3>1. req'[k] = [req[k] EXCEPT !.state = "revoked"] /\ (k # r => req'[r] = req[r])
      BY <1>0, <2>3 DEF Revoke
    <3> QED BY <1>0, <3>1 DEF ReqRecords
  <2>4. ASSUME NEW d, Vote(p, k, d, at) PROVE req'[r] = req[r]
    <3>1. req[k].state # "granted"
      BY <2>4 DEF Vote
    <3>2. \E q : req' = [req EXCEPT ![k] = q]
      BY <2>4 DEF Vote, Invalidate, Decide
    <3> QED BY <3>1, <3>2, <1>1
  <2>5. ASSUME NEW caps, NEW dur, Request(p, k, caps, dur, at) \/ EmergencyAccess(p, k, caps, dur, at)
        PROVE  req'[r] = req[r]
    BY <2>5, <1>1 DEF Request, EmergencyAccess
  <2> QED BY <2>1, <2>2, <2>3, <2>4, <2>5
<1>3. ASSUME NEW at \in Readings, ExpireDue(at) PROVE req'[r] = req[r]
  <2>1. req'[r] = req[r] \/ req'[r].state = "expired"
    BY <1>0, <1>3 DEF ExpireDue, ReqRecords
  <2> QED BY <2>1
<1>4. CASE PolicyStep
  BY <1>4, PolicyStepMoves DEF IInv
<1> QED BY <1>2, <1>3, <1>4 DEF Next, Tick, ChangeStanding

\* Read access that comes from the grants of requests comes with a grant.
LEMMA ReadLent ==
    ASSUME IInv, IInv', Next, NEW p \in Principals,
           "read" \in Effective(p, clock)', "read" \notin Effective(p, clock)
    PROVE  Regains(p)
<1>1. PICK k \in Reqs : /\ req'[k].who = {p} /\ rows'[k].until > clock' /\ "read" \in rows'[k].caps
  BY DEF Effective
<1>2. rows'[k] = IF req'[k].state = "granted"
                 THEN [caps |-> req'[k].caps, until |-> req'[k].expires] ELSE NoRows
  BY DEF IInv, RowsFollowRequests
<1>3. req'[k].state = "granted" /\ "read" \in req'[k].caps
  BY <1>1, <1>2 DEF NoRows
<1>4. req[k].state # "granted"
  <2> SUFFICES ASSUME req[k].state = "granted" PROVE FALSE
    OBVIOUS
  <2>1. req'[k] = req[k]
    BY <1>3, GrantedStays
  <2>2. rows'[k] = rows[k]
    BY <1>2, <2>1 DEF IInv, RowsFollowRequests
  <2>3. rows[k].until \in Nat
    BY DEF IInv, TypeOK
  <2>4. rows[k].until > clock
    BY <1>1, <2>2, <2>3, ClockForward
  <2> QED BY <1>1, <2>1, <2>2, <2>4 DEF Effective
<1> QED BY <1>1, <1>3, <1>4 DEF Regains

\* Between votes, a vote comes to count only for one who regains standing.
LEMMA CountsAgain ==
    ASSUME IInv, IInv', Next, NEW r \in Reqs, req'[r] = req[r],
           NEW offer, NEW p \in Principals,
           p \in Countable(r, offer, clock)', p \notin Countable(r, offer, clock)
    PROVE  Regains(p)
<1>1. /\ p \in req[r].approve /\ (req[r].who = {p} => offer.self)
      /\ p \in offer.approvers /\ p \in member'
      /\ "read" \in holds'[p] \/ "read" \in Effective(p, clock)'
      /\ req[r].caps \subseteq holds'[p]
  BY DEF Countable, ApproverEligible, CanGrantAll, Authorized
<1>2. \/ p \notin member
      \/ "read" \notin holds[p] /\ "read" \notin Effective(p, clock)
      \/ ~(req[r].caps \subseteq holds[p])
  BY <1>1 DEF Countable, ApproverEligible, CanGrantAll, Authorized
<1>3. CASE p \notin member
  BY <1>1, <1>3 DEF Regains
<1>4. CASE ~(req[r].caps \subseteq holds[p])
  BY <1>1, <1>4 DEF Regains
<1>5. CASE "read" \notin holds[p] /\ "read" \notin Effective(p, clock)
  <2>1. CASE "read" \in holds'[p]
    BY <1>5, <2>1 DEF Regains
  <2>2. CASE "read" \in Effective(p, clock)'
    BY <1>5, <2>2, ReadLent
  <2> QED BY <1>1, <2>1, <2>2
<1> QED BY <1>2, <1>3, <1>4, <1>5

\* While a request's pinned policy is current after a step, it was before, and
\* is the same.
LEMMA PinKeepsPolicy ==
    ASSUME IInv, Pinned, Next, NEW r \in Reqs, req'[r] = req[r], req[r].state = "open",
           ~StalePolicy(r)'
    PROVE  policy'[req[r].slot] = policy[req[r].slot] /\ ~StalePolicy(r)
<1>0. /\ req[r] \in ReqRecords /\ req[r].slot \in Slots /\ created \in Nat
      /\ policy \in [Slots -> {NoPolicy} \cup PolicyRecords]
  BY DEF IInv, TypeOK, ReqRecords, PolicyRecords
<1>1. policy'[req[r].slot] = policy[req[r].slot]
  <2>1. CASE UNCHANGED policy
    BY <2>1
  <2>2. CASE PolicyStep
    <3>1. req[r].id \in 1..created /\ PinnedTo(req[r], policy[req[r].slot])
      BY DEF Pinned
    <3>2. policy'[req[r].slot].id = req[r].id /\ policy'[req[r].slot].version = req[r].version
      BY DEF StalePolicy
    <3>3. req[r].version \in Nat /\ policy[req[r].slot].version \in Nat
      BY <1>0 DEF ReqRecords, PolicyRecords, NoPolicy
    <3>4. policy'[req[r].slot].id # 0 /\ policy'[req[r].slot].id # created + 1
      BY <1>0, <3>1, <3>2
    <3>5. ~(/\ policy'[req[r].slot].id = policy[req[r].slot].id
            /\ policy'[req[r].slot].version = policy[req[r].slot].version + 1)
      BY <3>1, <3>2, <3>3 DEF PinnedTo
    <3> QED BY <1>0, <2>2, <3>4, <3>5, PolicyStepMoves DEF PolicyMoves, IInv
  <2> QED BY <2>1, <2>2 DEF Next, RequestStep, Cancel, Revoke, Vote, Request, EmergencyAccess,
                            ExpireDue, ChangeStanding, Tick
<1> QED BY <1>1 DEF StalePolicy

\* An approval that does not grant leaves its request short of the quorum.
LEMMA VoteLeavesShort ==
    ASSUME IInv, IInv', Pinned, NEW r \in Reqs, NEW p \in Principals, NEW at \in Readings,
           req' = [req EXCEPT ![r] = ApprovedBy(p, r)],
           ~Reached(Cardinality(Countable(r, policy[req[r].slot].offer, at) \cup {p}),
                    policy[req[r].slot].offer.min),
           policy[req[r].slot].offer.min \in Nat, req[r].state = "open",
           UNCHANGED <<clock, policy, rows, holds, member>>
    PROVE  ~Complete(r)'
<1> DEFINE offer == policy[req[r].slot].offer
           old == Countable(r, offer, at)
           new == Countable(r, offer, clock)'
<1>0. /\ req \in [Reqs -> ReqRecords] /\ req[r] \in ReqRecords /\ clock \in Nat
      /\ at \in Nat /\ at <= clock /\ IsFiniteSet(req[r].approve)
      /\ rows \in [Reqs -> [caps : SUBSET Caps, until : Nat]]
  BY DEF IInv, TypeOK, ReqRecords, Readings, Pinned
<1>1. /\ req'[r].approve = req[r].approve \cup {p} /\ req'[r].slot = req[r].slot
      /\ req'[r].caps = req[r].caps
      /\ \A k \in Reqs : req'[k].who = req[k].who
  BY <1>0 DEF ApprovedBy, ReqRecords
<1>2. \A q : Effective(q, clock)' \subseteq Effective(q, at)
  <2> SUFFICES ASSUME NEW q, NEW c \in Effective(q, clock)' PROVE c \in Effective(q, at)
    OBVIOUS
  <2>1. PICK k \in Reqs : req'[k].who = {q} /\ rows'[k].until > clock' /\ c \in rows'[k].caps
    BY DEF Effective
  <2>2. req[k].who = {q} /\ rows[k].until > at /\ c \in rows[k].caps
    <3>1. rows[k].until \in Nat /\ rows'[k] = rows[k] /\ clock' = clock
      BY <1>0
    <3> QED BY <1>0, <1>1, <2>1, <3>1
  <2> QED BY <2>2 DEF Effective
<1>3. new \subseteq old \cup {p}
  <2> SUFFICES ASSUME NEW q \in new, q # p PROVE q \in old
    OBVIOUS
  <2>1. /\ q \in req'[r].approve /\ (req'[r].who = {q} => offer'.self)
        /\ q \in offer'.approvers /\ q \in member'
        /\ "read" \in holds'[q] \/ "read" \in Effective(q, clock)'
        /\ req'[r].caps \subseteq holds'[q]
    BY DEF Countable, ApproverEligible, CanGrantAll, Authorized
  <2>2. offer' = offer
    BY <1>1
  <2> QED BY <1>1, <1>2, <2>1, <2>2 DEF Countable, ApproverEligible, CanGrantAll, Authorized
<1>4. old \subseteq req[r].approve
  BY DEF Countable
<1>5. Complete(r)' => Cardinality(new) >= offer.min
  BY <1>1 DEF Complete
<1>6. ~(Cardinality(old \cup {p}) >= offer.min) /\ offer.min \in Nat
  BY DEF Reached
<1> HIDE DEF old, new, offer
<1>7. IsFiniteSet(old \cup {p})
  BY <1>0, <1>4, FS_Subset, FS_AddElement
<1>8. IsFiniteSet(new) /\ Cardinality(new) <= Cardinality(old \cup {p})
  BY <1>3, <1>7, FS_Subset
<1>9. Cardinality(new) \in Nat /\ Cardinality(old \cup {p}) \in Nat
  BY <1>7, <1>8, FS_CardinalityType
<1>10. ~(Cardinality(new) >= offer.min)
  BY <1>6, <1>8, <1>9
<1> QED BY <1>5, <1>10

LEMMA CompleteAfter ==
    ASSUME IInv, IInv', Pinned, Pinned', Next, NEW r \in Reqs, Complete(r)'
    PROVE  req'[r] = req[r] /\ (Complete(r) \/ \E p \in req[r].approve : Regains(p))
<1>0. /\ req[r] \in ReqRecords /\ req'[r] \in ReqRecords /\ req'[r].state = "open"
      /\ clock' < req'[r].review /\ ~StalePolicy(r)'
      /\ IsFiniteSet(req[r].approve)
  BY DEF IInv, TypeOK, ReqRecords, Complete, Pinned
<1>1. policy'[req'[r].slot].offer \in Offers
  <2>1. req'[r].id # 0
    BY <1>0 DEF Pinned
  <2>2. req'[r].slot \in Slots /\ policy'[req'[r].slot].id = req'[r].id
    BY <1>0 DEF ReqRecords, StalePolicy
  <2>3. policy'[req'[r].slot] # NoPolicy
    BY <2>1, <2>2 DEF NoPolicy
  <2> QED BY <2>2, <2>3 DEF IInv, TypeOK
<1>2. policy'[req'[r].slot].offer.min \in Nat \ {0}
  BY <1>1, AccessConstants
<1>3. Cardinality(Countable(r, policy[req[r].slot].offer, clock)') >= policy'[req'[r].slot].offer.min
  BY DEF Complete
<1>4. req'[r].approve # {}
  <2> SUFFICES ASSUME req'[r].approve = {} PROVE FALSE
    OBVIOUS
  <2>1. Countable(r, policy[req[r].slot].offer, clock)' = {}
    BY DEF Countable
  <2> QED BY <1>2, <1>3, <2>1, FS_EmptySet
<1>5. req'[r] = req[r]
  <2> SUFFICES ASSUME ~(req'[r] = req[r]) PROVE FALSE
    OBVIOUS
  <2>1. PICK p \in Principals, at \in Readings :
          /\ req[r].state = "open" /\ at < req[r].review /\ ~StalePolicy(r)
          /\ req'[r] = ApprovedBy(p, r) /\ req' = [req EXCEPT ![r] = ApprovedBy(p, r)]
          /\ ~Reached(Cardinality(Countable(r, policy[req[r].slot].offer, at) \cup {p}),
                      policy[req[r].slot].offer.min)
          /\ UNCHANGED <<clock, policy, rows, holds, member>>
    BY <1>0, <1>4, OpenAfter
  <2>2. req'[r].slot = req[r].slot /\ policy' = policy
    BY <1>0, <2>1 DEF ApprovedBy, ReqRecords
  <2>3. policy[req[r].slot].offer.min \in Nat
    BY <1>2, <2>2
  <2> QED BY <2>1, <2>3, VoteLeavesShort
<1>6. ASSUME ~Complete(r) PROVE \E p \in req[r].approve : Regains(p)
  <2>1. policy'[req[r].slot] = policy[req[r].slot] /\ ~StalePolicy(r)
    BY <1>0, <1>5, PinKeepsPolicy
  <2> DEFINE offer == policy[req[r].slot].offer
             old == Countable(r, offer, clock)
             new == Countable(r, offer, clock)'
  <2>2. clock < req[r].review
    BY <1>0, <1>5, ClockForward DEF ReqRecords
  <2>3. ~(Cardinality(old) >= offer.min) /\ Cardinality(new) >= offer.min /\ offer.min \in Nat
    BY <1>0, <1>2, <1>3, <1>5, <1>6, <2>1, <2>2 DEF Complete
  <2>4. old \subseteq req[r].approve /\ new \subseteq req[r].approve
    BY <1>5 DEF Countable
  <2>5. PICK p \in new : p \notin old
    <3> SUFFICES ASSUME new \subseteq old PROVE FALSE
      OBVIOUS
    <3> HIDE DEF old, new, offer
    <3>1. IsFiniteSet(old)
      BY <1>0, <2>4, FS_Subset
    <3>2. IsFiniteSet(new) /\ Cardinality(new) <= Cardinality(old)
      BY <3>1, FS_Subset
    <3>3. Cardinality(new) \in Nat /\ Cardinality(old) \in Nat
      BY <3>1, <3>2, FS_CardinalityType
    <3> QED BY <2>3, <3>2, <3>3
  <2>6. p \in req[r].approve /\ p \in Principals
    BY <1>0, <2>4, <2>5 DEF ReqRecords
  <2>7. offer' = offer
    BY <1>5, <2>1
  <2>8. Regains(p)
    BY <1>5, <2>5, <2>6, <2>7, CountsAgain
  <2> QED BY <2>6, <2>8
<1> QED BY <1>5, <1>6

\* No vote leaves its request waiting with a complete quorum, and a quorum becomes
\* complete between votes only when standing returns to someone who has voted
\* (Vote, countableApprovals), for any policies, principals, requests and bounds,
\* whichever standing is lost, regained or lent by temporary access in between.
THEOREM CompleteQuorumGrants == Spec => QuorumGrants
<1>1. IInv /\ IInv' /\ Pinned /\ Pinned' /\ [Next]_vars =>
        [\A r \in Reqs :
           Complete(r)' => /\ req'[r] = req[r]
                           /\ Complete(r) \/ \E p \in req[r].approve : Regains(p)]_vars
  BY CompleteAfter
<1> QED BY <1>1, PinnedAlways, PTL DEF Spec, QuorumGrants
=============================================================================
