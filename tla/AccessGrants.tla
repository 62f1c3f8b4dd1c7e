---------------------------- MODULE AccessGrants ----------------------------
(***************************************************************************)
(* Approval-mediated temporary access to one environment                   *)
(* (service/access.go).  A person asks for capabilities the covering       *)
(* policy offers, approvers vote, the vote that reaches the quorum writes  *)
(* time-bound grant rows, and revocation or the expiry sweep releases      *)
(* them.  A named principal may take emergency access without a quorum.    *)
(*                                                                         *)
(* Every operation is one serializable transaction, with a clock read      *)
(* before it began and kept through its retries: the reading may be up to  *)
(* MaxLag old when the transaction commits.  Who belongs to an approver    *)
(* set through a directory group, and who holds what permanently, is       *)
(* changed by other services.                                              *)
(***************************************************************************)
EXTENDS Integers, FiniteSets

CONSTANTS
    Principals,     \* people
    Managers,       \* those with manage-members on the project
    Held,           \* capabilities a principal holds, or may grant, permanently
    Caps,           \* capabilities, "read" among them
    Reqs,           \* request ids
    Offers,         \* what a policy may say
    ReviewTTL,      \* RequestTTLSeconds
    MaxLag,         \* age of a transaction's clock reading
    Batch,          \* rows of one sweep (100)
    MaxTime, LastFiled, MaxPolicies, MaxVersion, MaxChanges     \* bounds

ASSUME AccessConstants ==
    /\ Managers \subseteq Principals
    /\ Held \in [Principals -> SUBSET Caps]
    /\ Offers \subseteq [caps : SUBSET Caps, min : Nat, self : BOOLEAN, max : Nat,
                         enabled : BOOLEAN, approvers : SUBSET Principals,
                         bypassers : SUBSET Principals]
    /\ \A o \in Offers : o.caps # {} /\ o.min > 0 /\ o.max > 0 /\ o.approvers # {}
    /\ {ReviewTTL, MaxLag, Batch, MaxTime, LastFiled,
        MaxPolicies, MaxVersion, MaxChanges} \subseteq Nat
    /\ Batch > 0

VARIABLES
    clock,
    policy,     \* access_policies: the environment's own and the project's
    created,    \* policies created so far; the last id
    req,        \* access_requests and their access_votes
    rows,       \* access_grants: what a request's rows confer and until when
    holds,      \* permanent grants
    member,     \* principals whose directory membership is active
    changes     \* changes of standing so far

vars == <<clock, policy, created, req, rows, holds, member, changes>>

(* A policy for the concrete environment, and one for every environment.   *)
Slots == {"env", "project"}

NoOffer == [caps |-> {}, min |-> 0, self |-> FALSE, max |-> 0, enabled |-> FALSE,
            approvers |-> {}, bypassers |-> {}]
NoPolicy == [id |-> 0, version |-> 0, offer |-> NoOffer]
NoRows == [caps |-> {}, until |-> 0]
NoReq == [state |-> "none", slot |-> "env", id |-> 0, version |-> 0, who |-> {},
          caps |-> {}, dur |-> 0, bypassed |-> FALSE, review |-> 0, expires |-> 0,
          approve |-> {}, reject |-> {}]

Init ==
    /\ clock = 0
    /\ policy = [s \in Slots |-> NoPolicy]
    /\ created = 0
    /\ req = [r \in Reqs |-> NoReq]
    /\ rows = [r \in Reqs |-> NoRows]
    /\ holds = Held
    /\ member = Principals
    /\ changes = 0

----------------------------------------------------------------------------
(* The clock reading a transaction may work with.                          *)
Readings == {t \in 0..clock : t + MaxLag >= clock}

(* What the rows of the chokepoint's lookup give a principal at a time.    *)
Effective(p, at) == UNION {rows[r].caps : r \in {k \in Reqs : req[k].who = {p} /\ rows[k].until > at}}
Authorized(p, c, at) == c \in holds[p] \cup Effective(p, at)

(* CoveringPolicy: the concrete one wins, disabled or not.                 *)
Covering == IF policy["env"].id # 0 THEN "env" ELSE "project"

(* Only permanent grants count, whatever the principal may use now.        *)
CanGrantAll(p, caps) == caps \subseteq holds[p]

ApproverEligible(p, offer) == p \in offer.approvers /\ p \in member

CountableOnce(r, offer, at) == req[r].approve

(* The approve votes that count now: of principals who are still eligible  *)
(* approvers, may still vote, and could still grant all that is asked.     *)
Countable(r, offer, at) ==
    {p \in req[r].approve : /\ req[r].who = {p} => offer.self
                            /\ ApproverEligible(p, offer)
                            /\ Authorized(p, "read", at)
                            /\ CanGrantAll(p, req[r].caps)}

(* The pinned policy is gone, disabled or changed.                         *)
StalePolicy(r) ==
    LET p == policy[req[r].slot]
    IN p.id # req[r].id \/ ~p.offer.enabled \/ p.version # req[r].version

----------------------------------------------------------------------------
(* Policies.  An emergency list is a standing delegation: whoever creates  *)
(* or widens it must be able to grant what it confers.                     *)
BackedBy(m, offer) == CanGrantAll(m, offer.caps)

NextIdStale == created

(* A new policy has an id of its own, even in the place of a deleted one.  *)
NextId == created + 1

CreatePolicy(m, s, offer) ==
    /\ policy[s].id = 0 /\ created < MaxPolicies
    /\ offer.enabled /\ offer.bypassers # {} => BackedBy(m, offer)
    /\ created' = created + 1
    /\ policy' = [policy EXCEPT ![s] = [id |-> NextId, version |-> 1, offer |-> offer]]
    /\ UNCHANGED <<clock, req, rows, holds, member, changes>>

WidensEnabled(old, new) ==
    \/ new.max > old.max \/ ~(new.caps \subseteq old.caps) \/ ~(new.bypassers \subseteq old.bypassers)

Widens(old, new) ==
    \/ ~old.enabled
    \/ new.max > old.max
    \/ ~(new.caps \subseteq old.caps)
    \/ ~(new.bypassers \subseteq old.bypassers)

UpdatePolicy(m, s, offer) ==
    /\ policy[s].id # 0 /\ policy[s].version < MaxVersion
    /\ offer.enabled /\ offer.bypassers # {} /\ Widens(policy[s].offer, offer) => BackedBy(m, offer)
    /\ policy' = [policy EXCEPT ![s] = [id |-> policy[s].id, version |-> policy[s].version + 1,
                                        offer |-> offer]]
    /\ UNCHANGED <<clock, created, req, rows, holds, member, changes>>

DeletePolicy(m, s) ==
    /\ policy[s].id # 0
    /\ policy' = [policy EXCEPT ![s] = NoPolicy]
    /\ UNCHANGED <<clock, created, req, rows, holds, member, changes>>

----------------------------------------------------------------------------
(* Requests.                                                               *)
MayAsk(p, caps, dur, at) ==
    LET offer == policy[Covering].offer
    IN /\ clock <= LastFiled /\ Authorized(p, "read", at)
       /\ offer.enabled
       /\ caps # {} /\ caps \subseteq offer.caps
       /\ dur > 0 /\ dur <= offer.max

Filed(p, caps, dur, state, review, expires) ==
    [state |-> state, slot |-> Covering, id |-> policy[Covering].id,
     version |-> policy[Covering].version, who |-> {p}, caps |-> caps, dur |-> dur,
     bypassed |-> state = "granted", review |-> review, expires |-> expires,
     approve |-> {}, reject |-> {}]

Request(p, r, caps, dur, at) ==
    /\ req[r].state = "none" /\ MayAsk(p, caps, dur, at)
    /\ req' = [req EXCEPT ![r] = Filed(p, caps, dur, "open", at + ReviewTTL, 0)]
    /\ UNCHANGED <<clock, policy, created, rows, holds, member, changes>>

(* Named principals only; the reauthentication may refuse as well.         *)
EmergencyAccess(p, r, caps, dur, at) ==
    /\ req[r].state = "none" /\ MayAsk(p, caps, dur, at)
    /\ p \in policy[Covering].offer.bypassers
    /\ req' = [req EXCEPT ![r] = Filed(p, caps, dur, "granted", at, at + dur)]
    /\ rows' = [rows EXCEPT ![r] = [caps |-> caps, until |-> at + dur]]
    /\ UNCHANGED <<clock, policy, created, holds, member, changes>>

Shorter(a, b) == IF a < b THEN a ELSE b

ReachedOver(count, min) == count > min

Reached(count, min) == count >= min

RejectedBy(p, r) == [req[r] EXCEPT !.state = "rejected", !.reject = @ \cup {p}]
ApprovedBy(p, r) == [req[r] EXCEPT !.approve = @ \cup {p}]
GrantedBy(p, r, until) ==
    [req[r] EXCEPT !.state = "granted", !.approve = @ \cup {p}, !.expires = until]

(* A decision under the pinned policy: a rejection resolves the request,   *)
(* the approval that completes the quorum grants it.                       *)
Decide(p, r, decision, at) ==
    LET offer == policy[req[r].slot].offer
        until == at + Shorter(req[r].dur, offer.max)
    IN /\ ~StalePolicy(r) /\ ApproverEligible(p, offer)
       /\ \/ /\ decision = "reject"
             /\ req' = [req EXCEPT ![r] = RejectedBy(p, r)]
             /\ UNCHANGED rows
          \/ /\ decision = "approve"
             /\ req[r].who = {p} => offer.self
             /\ CanGrantAll(p, req[r].caps)
             /\ IF Reached(Cardinality(Countable(r, offer, at) \cup {p}), offer.min)
                THEN /\ req' = [req EXCEPT ![r] = GrantedBy(p, r, until)]
                     /\ rows' = [rows EXCEPT ![r] = [caps |-> req[r].caps, until |-> until]]
                ELSE /\ req' = [req EXCEPT ![r] = ApprovedBy(p, r)]
                     /\ UNCHANGED rows

(* A vote on a request whose policy moved commits the invalidation and is  *)
(* refused.  A second vote of the same principal changes nothing.          *)
Invalidate(r) ==
    /\ StalePolicy(r)
    /\ req' = [req EXCEPT ![r] = [@ EXCEPT !.state = "invalidated"]]
    /\ UNCHANGED rows

Vote(p, r, decision, at) ==
    /\ Authorized(p, "read", at)
    /\ p \notin req[r].approve \cup req[r].reject
    /\ req[r].state = "open" /\ at < req[r].review
    /\ Invalidate(r) \/ Decide(p, r, decision, at)
    /\ UNCHANGED <<clock, policy, created, holds, member, changes>>

Cancel(p, r, at) ==
    /\ Authorized(p, "read", at)
    /\ req[r].who = {p} /\ req[r].state = "open"
    /\ req' = [req EXCEPT ![r] = [@ EXCEPT !.state = "cancelled"]]
    /\ UNCHANGED <<clock, policy, created, rows, holds, member, changes>>

ReleasedKept(r) == rows[r]

(* DeleteAccessGrantsForRequest.                                           *)
Released(r) == NoRows

(* The holder, an eligible approver of the policy if it still exists, or a *)
(* member manager of the project.                                          *)
MayRevoke(p, r) ==
    \/ req[r].who = {p} \/ p \in Managers
    \/ policy[req[r].slot].id = req[r].id /\ ApproverEligible(p, policy[req[r].slot].offer)

Revoke(p, r, at) ==
    /\ Authorized(p, "read", at)
    /\ req[r].state = "granted" /\ MayRevoke(p, r)
    /\ rows' = [rows EXCEPT ![r] = Released(r)]
    /\ req' = [req EXCEPT ![r] = [@ EXCEPT !.state = "revoked"]]
    /\ UNCHANGED <<clock, policy, created, holds, member, changes>>

DueReview(at) == {r \in Reqs : req[r].state = "open" /\ req[r].review <= at}

(* SelectDue: lapsed reviews and lapsed grants.                            *)
Due(at) == {r \in Reqs : \/ req[r].state = "open" /\ req[r].review <= at
                         \/ req[r].state = "granted" /\ req[r].expires <= at}

(* One batch of the sweep, all due requests or as many as a batch takes.   *)
ExpireDue(at) ==
    /\ Due(at) # {}
    /\ \E due \in SUBSET Due(at) :
         /\ due = Due(at) \/ Cardinality(due) = Batch
         /\ Cardinality(due) <= Batch
         /\ rows' = [r \in Reqs |-> IF r \in due /\ req[r].state = "granted"
                                    THEN Released(r) ELSE rows[r]]
         /\ req' = [r \in Reqs |-> IF r \in due THEN [req[r] EXCEPT !.state = "expired"]
                                                ELSE req[r]]
    /\ UNCHANGED <<clock, policy, created, holds, member, changes>>

----------------------------------------------------------------------------
(* Other services take a permanent grant or a group membership away, and   *)
(* give it back.                                                           *)
ChangeStanding(p) ==
    /\ changes < MaxChanges /\ changes' = changes + 1
    /\ \/ /\ member' = IF p \in member THEN member \ {p} ELSE member \cup {p}
          /\ UNCHANGED holds
       \/ \E c \in Held[p] :
            /\ holds' = [holds EXCEPT ![p] = IF c \in @ THEN @ \ {c} ELSE @ \cup {c}]
            /\ UNCHANGED member
    /\ UNCHANGED <<clock, policy, created, req, rows>>

Tick ==
    /\ clock < MaxTime /\ clock' = clock + 1
    /\ UNCHANGED <<policy, created, req, rows, holds, member, changes>>

PolicyStep ==
    \E m \in Managers, s \in Slots :
      \/ DeletePolicy(m, s)
      \/ \E o \in Offers : CreatePolicy(m, s, o) \/ UpdatePolicy(m, s, o)

RequestStep ==
    \E p \in Principals, r \in Reqs, at \in Readings :
      \/ Cancel(p, r, at) \/ Revoke(p, r, at)
      \/ \E d \in {"approve", "reject"} : Vote(p, r, d, at)
      \/ \E caps \in SUBSET Caps, dur \in 1..policy[Covering].offer.max :
           Request(p, r, caps, dur, at) \/ EmergencyAccess(p, r, caps, dur, at)

Next ==
    \/ PolicyStep \/ RequestStep
    \/ \E at \in Readings : ExpireDue(at)
    \/ \E p \in Principals : ChangeStanding(p)
    \/ Tick

Spec == Init /\ [][Next]_vars

(* Time passes, and the scheduler starts the sweep again and again, each   *)
(* time with a fresh reading.                                              *)
FairSpec == Spec /\ WF_vars(Tick) /\ WF_vars(ExpireDue(clock))

----------------------------------------------------------------------------
States == {"none", "open", "granted", "rejected", "cancelled", "invalidated", "revoked", "expired"}

TypeOK ==
    /\ clock \in Nat /\ created \in Nat /\ changes \in Nat
    /\ policy \in [Slots -> {NoPolicy} \cup [id : 1..created, version : Nat \ {0}, offer : Offers]]
    /\ req \in [Reqs -> [state : States, slot : Slots, id : Nat, version : Nat,
                         who : SUBSET Principals, caps : SUBSET Caps, dur : Nat,
                         bypassed : BOOLEAN, review : Nat, expires : Nat,
                         approve : SUBSET Principals, reject : SUBSET Principals]]
    /\ rows \in [Reqs -> [caps : SUBSET Caps, until : Nat]]
    /\ holds \in [Principals -> SUBSET Caps] /\ member \subseteq Principals

(* The grant rows and the requests agree in every state: a request that is *)
(* granted confers exactly what was asked for, until the end it shows, and *)
(* any other confers nothing, whichever of vote, revocation and sweep came *)
(* first.                                                                  *)
RowsFollowRequests ==
    \A r \in Reqs :
      rows[r] = IF req[r].state = "granted"
                THEN [caps |-> req[r].caps, until |-> req[r].expires] ELSE NoRows

(* No sequence of policy changes makes emergency access confer what no     *)
(* manager could have granted in person.                                   *)
EmergencyBacked ==
    \A r \in Reqs : req[r].bypassed => \E m \in Managers : req[r].caps \subseteq Held[m]

(* Temporary access is backed: every row by a granted request (Vote,       *)
(* Revoke, ExpireDue), every emergency grant by a manager's own standing   *)
(* (widensEmergencyAuthority).                                             *)
GrantsBacked == TypeOK /\ RowsFollowRequests /\ EmergencyBacked

(* A request is granted on a quorum of people who are approvers, and could *)
(* grant all of it permanently, at that moment, and who are not the        *)
(* requester unless the policy says so; never longer than that policy      *)
(* allows.                                                                 *)
Consented(r) ==
    LET offer == policy[req[r].slot].offer
    IN /\ policy[req[r].slot].id = req[r].id /\ policy[req[r].slot].version = req[r].version
       /\ rows'[r].caps \subseteq offer.caps /\ rows'[r].until <= clock + offer.max
       /\ \E quorum \in SUBSET req'[r].approve :
            /\ Cardinality(quorum) >= offer.min
            /\ \A p \in quorum : /\ p \in offer.approvers \cap member
                                 /\ req[r].caps \subseteq holds[p]
                                 /\ req[r].who = {p} => offer.self

GrantNeedsQuorum ==
    [][\A r \in Reqs : req[r].state = "open" /\ req'[r].state = "granted" => Consented(r)]_vars

(* An open request whose pinned policy is current and whose approvals that *)
(* count now reach the quorum.                                             *)
Complete(r) ==
    LET offer == policy[req[r].slot].offer
    IN /\ req[r].state = "open" /\ clock < req[r].review /\ ~StalePolicy(r)
       /\ Cardinality(Countable(r, offer, clock)) >= offer.min

(* A step gives p standing: a membership or a permanent grant comes back,  *)
(* or another request of p's is granted that asked for read access.        *)
Regains(p) ==
    \/ p \in member' \ member
    \/ holds'[p] \ holds[p] # {}
    \/ \E k \in Reqs : /\ req[k].state # "granted" /\ req'[k].state = "granted"
                       /\ req'[k].who = {p} /\ "read" \in req'[k].caps

(* No vote leaves its request waiting with a complete quorum, whichever    *)
(* standing was lost, regained or lent to the approvers before it; and a   *)
(* quorum becomes complete without being noticed only when standing        *)
(* returns to someone who has voted: never by an edit of the policies, a   *)
(* revocation, a sweep, another's request or the passing of time.          *)
QuorumGrants ==
    [][\A r \in Reqs :
         Complete(r)' => /\ req'[r] = req[r]
                         /\ Complete(r) \/ \E p \in req[r].approve : Regains(p)]_vars

(* No open request has a complete quorum.                                  *)
QuorumNeverStranded == \A r \in Reqs : ~Complete(r)

(* Access is granted under the policy that covers the environment.         *)
GrantedUnderCovering ==
    [][\A r \in Reqs : req[r].state = "open" /\ req'[r].state = "granted"
                          => req[r].id = policy[Covering].id]_vars

(* Every request ends, and so does every temporary grant, with no one but  *)
(* the sweep acting.                                                       *)
AccessEnds == \A r \in Reqs : req[r].state \in {"open", "granted"}
                                ~> req[r].state \notin {"open", "granted"} /\ rows[r] = NoRows
=============================================================================
