--------------------------- MODULE MCAccessGrants ---------------------------
(***************************************************************************)
(* Five situations, chosen at the start: `quorum', two approvals under     *)
(* policies that change while standing is lost; `returns', the same with   *)
(* standing that comes back; `lent', a request that needs two approvals    *)
(* beside one that lends read access to an approver; `emergency', changes  *)
(* of the emergency lists; `ends', two requests and a clock that outlives  *)
(* both.                                                                   *)
(***************************************************************************)
EXTENDS AccessGrants

CONSTANTS x, a, b, r1, r2

VARIABLE situation

Offer(caps, min, self, max, enabled, bypassers) ==
    [caps |-> caps, min |-> min, self |-> self, max |-> max, enabled |-> enabled,
     approvers |-> {a, b}, bypassers |-> bypassers]

(* The manager x can grant edit and not reveal, the approvers a and b      *)
(* reveal and not edit.                                                    *)
Standing == [p \in {x, a, b} |-> IF p = x THEN {"read", "edit"} ELSE {"read", "reveal"}]

(* A quorum of two, with the requester's own vote counted or not.          *)
QuorumOffers == {Offer({"reveal"}, 2, FALSE, 1, TRUE, {}), Offer({"reveal"}, 2, TRUE, 2, TRUE, {})}

(* Emergency lists, of what the manager can grant and of what it cannot.   *)
EmergencyOffers ==
    {Offer(caps, 1, FALSE, 1, on, who) : caps \in {{"edit"}, {"reveal"}},
                                         on \in BOOLEAN, who \in {{}, {x}}}

(* One approval suffices.                                                  *)
OneOffer == {Offer({"read", "edit"}, 1, FALSE, 1, TRUE, {b})}

(* Two approvals for reveal, one for read access.                          *)
LentOffers == {Offer({"reveal"}, 2, FALSE, 1, TRUE, {}), Offer({"read"}, 1, FALSE, 1, TRUE, {})}

AllOffers == QuorumOffers \cup EmergencyOffers \cup OneOffer \cup LentOffers

Quorum == INSTANCE AccessGrants WITH
    Offers <- QuorumOffers, MaxTime <- 0, MaxVersion <- 2, MaxChanges <- 1
Returns == INSTANCE AccessGrants WITH
    Offers <- QuorumOffers, MaxTime <- 1, MaxPolicies <- 1, MaxVersion <- 2
Lent == INSTANCE AccessGrants WITH
    Offers <- LentOffers, MaxTime <- 1, MaxVersion <- 1, MaxChanges <- 1
Emergency == INSTANCE AccessGrants WITH
    Offers <- EmergencyOffers, MaxTime <- 1, MaxChanges <- 0
Ends == INSTANCE AccessGrants WITH
    Offers <- OneOffer, MaxPolicies <- 1, MaxVersion <- 1, MaxChanges <- 0

MCVars == <<vars, situation>>

MCInit == situation \in {"quorum", "returns", "lent", "emergency", "ends"} /\ Init

(* Bound: one request, unless the end is waited for.                       *)
OneRequest == req'[r2] = NoReq

(* Bound: the manager asks for reveal, an approver for read access.        *)
OneOfEach ==
    /\ req'[r1].who \subseteq {x} /\ req'[r1].caps \subseteq {"reveal"}
    /\ req'[r2].who \subseteq {a, b} /\ req'[r2].caps \subseteq {"read"}

QuorumNext == situation = "quorum" /\ Quorum!Next /\ OneRequest /\ UNCHANGED situation
ReturnsNext == situation = "returns" /\ Returns!Next /\ OneRequest /\ UNCHANGED situation
LentNext == situation = "lent" /\ Lent!Next /\ OneOfEach /\ UNCHANGED situation
EmergencyNext == situation = "emergency" /\ Emergency!Next /\ OneRequest /\ UNCHANGED situation
EndsNext == situation = "ends" /\ Ends!Next /\ UNCHANGED situation

MCNext == QuorumNext \/ ReturnsNext \/ LentNext \/ EmergencyNext \/ EndsNext

(* The fairness of FairSpec.                                               *)
MCSpec ==
    /\ MCInit /\ [][MCNext]_MCVars
    /\ WF_MCVars(situation = "ends" /\ Ends!Tick /\ UNCHANGED situation)
    /\ WF_MCVars(situation = "ends" /\ Ends!ExpireDue(clock) /\ UNCHANGED situation)

(* AccessEnds, where the clock outlives what is asked for: every request   *)
(* and every temporary grant ends with no one but the sweep acting.        *)
AccessEndsInTime == situation = "ends" => AccessEnds
=============================================================================
