------------------------- MODULE McpAdmissionProofs -------------------------
(***************************************************************************)
(* For every set of calls, dimensions, limits and timings with Timeout <   *)
(* TTL: the calls that run never exceed a limit, and bursts are bounded.   *)
(* Neither is inductive.  The limit is kept by the unexpired claims        *)
(* (LiveBounded), and reaches the calls because a claim always outlives    *)
(* its call (Outlives), which for a transaction that waited rests on the   *)
(* deadline it inherited (Inherited).  The burst bound rests on next_at    *)
(* never falling behind the observer's debt by more than the longest wait. *)
(***************************************************************************)
EXTENDS McpAdmission, FiniteSetTheorems, TLAPS

(* The rest of a waiting call's life, and the wait so far, fit its timeout. *)
Inherited == \A c \in Calls : call[c].phase = "waiting" =>
                 call[c].left + call[c].age <= Timeout

Fresh == \A c \in Calls : call[c].phase # "waiting" => call[c].age = 0

(* A claim outlives the call that runs under it.                           *)
Outlives == \A c \in Calls : call[c].phase = "running" =>
                claim[c].row /\ claim[c].left > call[c].left

LiveBounded == \A g \in Groups : Cardinality(Live \cap g) <= Limit[g]

(* The bucket owes at least what the observer counted, up to the lag.      *)
Owed == \A p \in Principals : debt[p] > 0 => debt[p] <= bucket[p] + MaxWait

IInv == TypeOK /\ Inherited /\ Fresh /\ Outlives /\ LiveBounded /\ Owed

(* A smaller finite set of calls counts no more.                           *)
LEMMA SubsetCounts ==
    ASSUME NEW S \in SUBSET Calls, NEW T \in SUBSET Calls, S \subseteq T
    PROVE  /\ Cardinality(S) \in Nat /\ Cardinality(T) \in Nat
           /\ Cardinality(S) <= Cardinality(T)
<1>1. IsFiniteSet(T) /\ IsFiniteSet(S)
  BY FS_Subset, AdmissionConstants
<1> QED BY <1>1, FS_Subset, FS_CardinalityType

(* One more call counts at most one more.                                  *)
LEMMA AddCounts ==
    ASSUME NEW S \in SUBSET Calls, NEW c \in Calls
    PROVE  Cardinality(S \cup {c}) <= Cardinality(S) + 1
<1>1. IsFiniteSet(S)
  BY FS_Subset, AdmissionConstants
<1>2. Cardinality(S) \in Nat
  BY <1>1, FS_CardinalityType
<1>3. Cardinality(S \cup {c}) = IF c \in S THEN Cardinality(S) ELSE Cardinality(S) + 1
  BY <1>1, FS_AddElement
<1> QED BY <1>2, <1>3

(* The shape of a call.                                                    *)
CallRecords == [phase : {"idle", "arrived", "waiting", "running", "ended"},
                left : 0..Timeout, age : 0..MaxWait]

(* A step that gives one call a new record keeps the calls well typed.     *)
LEMMA CallTypes ==
    ASSUME TypeOK, NEW c \in Calls, NEW r \in CallRecords,
           call' = [call EXCEPT ![c] = r]
    PROVE  /\ call' \in [Calls -> CallRecords]
           /\ call'[c] = r
           /\ \A k \in Calls : k # c => call'[k] = call[k]
BY DEF TypeOK, CallRecords

LEMMA InitIInv == Init => IInv
<1> SUFFICES ASSUME Init PROVE IInv
  OBVIOUS
<1>1. TypeOK /\ Inherited /\ Fresh /\ Outlives /\ Owed
  BY AdmissionConstants DEF Init, NoCall, NoClaim, TypeOK, Inherited, Fresh, Outlives, Owed
<1>2. Live = {}
  BY DEF Init, NoClaim, Live
<1>3. LiveBounded
  BY <1>2, FS_EmptySet, AdmissionConstants DEF LiveBounded
<1> QED BY <1>1, <1>3 DEF IInv

(* A step after which no further claim is live keeps the limits.           *)
LEMMA FewerLive ==
    ASSUME LiveBounded, Live' \subseteq Live
    PROVE  LiveBounded'
<1> SUFFICES ASSUME NEW g \in Groups PROVE Cardinality(Live' \cap g) <= Limit[g]
  BY DEF LiveBounded
<1>1. /\ Live \cap g \in SUBSET Calls /\ Live' \cap g \in SUBSET Calls
      /\ Live' \cap g \subseteq Live \cap g
  BY DEF Live
<1>2. Cardinality(Live' \cap g) <= Cardinality(Live \cap g)
      /\ Cardinality(Live' \cap g) \in Nat /\ Cardinality(Live \cap g) \in Nat
  BY <1>1, SubsetCounts
<1>3. Limit[g] \in Nat /\ Cardinality(Live \cap g) <= Limit[g]
  BY AdmissionConstants DEF LiveBounded
<1> QED BY <1>2, <1>3

(* What a committed admission changes, acknowledged or not.                *)
Admitted(c) ==
    /\ call[c].phase = "waiting" /\ HasRoom(c) /\ HasToken(c)
    /\ claim' = [Pruned(c) EXCEPT ![c] = [row |-> TRUE, left |-> ClaimLife(c)]]
    /\ bucket' = [bucket EXCEPT ![PrincipalOf[c]] = Charged(c)]
    /\ debt' = [debt EXCEPT ![PrincipalOf[c]] = @ + 1]

LEMMA AdmittedBounded ==
    ASSUME IInv, NEW c \in Calls, Admitted(c)
    PROVE  LiveBounded'
<1> SUFFICES ASSUME NEW g \in Groups PROVE Cardinality(Live' \cap g) <= Limit[g]
  BY DEF LiveBounded
<1>1. Live \subseteq Counted(c) /\ Counted(c) \subseteq Calls
  BY DEF IInv, TypeOK, Live, Counted
<1>2. \A k \in Calls : k # c => claim'[k] = IF k \in Counted(c) THEN claim[k] ELSE NoClaim
  BY DEF Admitted, Pruned
<1>3. Live' \subseteq Live \cup {c}
  BY <1>2 DEF Live, NoClaim
<1>4. Limit[g] \in Nat /\ Cardinality(Live \cap g) <= Limit[g] /\ g \in SUBSET Calls
  BY AdmissionConstants DEF IInv, LiveBounded
<1>5. CASE c \notin g
  <2>1. /\ Live' \cap g \subseteq Live \cap g /\ Live' \cap g \in SUBSET Calls
        /\ Live \cap g \in SUBSET Calls
    BY <1>3, <1>5 DEF Live
  <2> QED BY <2>1, <1>4, SubsetCounts
<1>6. CASE c \in g
  <2>1. /\ Counted(c) \cap g \in SUBSET Calls /\ Live' \cap g \in SUBSET Calls
        /\ (Counted(c) \cap g) \cup {c} \in SUBSET Calls
        /\ Live' \cap g \subseteq (Counted(c) \cap g) \cup {c}
    BY <1>1, <1>3 DEF Live
  <2>2. Cardinality(Counted(c) \cap g) < Limit[g]
    BY <1>6 DEF Admitted, HasRoom
  <2>3. Cardinality(Counted(c) \cap g) \in Nat
    BY <2>1, SubsetCounts
  <2>4. Cardinality((Counted(c) \cap g) \cup {c}) <= Cardinality(Counted(c) \cap g) + 1
    BY <2>1, AddCounts
  <2>5. /\ Cardinality(Live' \cap g) <= Cardinality((Counted(c) \cap g) \cup {c})
        /\ Cardinality(Live' \cap g) \in Nat
        /\ Cardinality((Counted(c) \cap g) \cup {c}) \in Nat
    BY <2>1, SubsetCounts
  <2> QED BY <2>2, <2>3, <2>4, <2>5, <1>4
<1> QED BY <1>5, <1>6

(* An admission charges the bucket at least as the observer does.          *)
LEMMA AdmittedOwed ==
    ASSUME IInv, NEW c \in Calls, Admitted(c)
    PROVE  /\ Owed'
           /\ bucket' \in [Principals -> -MaxIdle..Capacity]
           /\ debt' \in [Principals -> Nat]
<1> DEFINE p == PrincipalOf[c]
<1>1. /\ p \in Principals /\ bucket[p] \in -MaxIdle..Capacity /\ debt[p] \in Nat
      /\ call[c].age \in 0..MaxWait
  BY AdmissionConstants DEF IInv, TypeOK
<1>2. /\ MaxWait \in Nat /\ MaxIdle \in Nat /\ Capacity \in Nat /\ Capacity > 0
      /\ MaxWait < MaxIdle
  BY AdmissionConstants
<1>3. bucket[p] + call[c].age <= Capacity - 1
  BY DEF Admitted, HasToken
<1>4. /\ Charged(c) \in -MaxIdle..Capacity
      /\ Charged(c) >= bucket[p] + 1 /\ Charged(c) >= 1 - MaxWait
  BY <1>1, <1>2, <1>3 DEF Charged
<1>5. debt[p] + 1 <= Charged(c) + MaxWait
  BY <1>1, <1>2, <1>4 DEF IInv, Owed
<1>6. /\ bucket' = [bucket EXCEPT ![p] = Charged(c)]
      /\ debt' = [debt EXCEPT ![p] = debt[p] + 1]
  BY DEF Admitted
<1>7. bucket \in [Principals -> -MaxIdle..Capacity] /\ debt \in [Principals -> Nat] /\ Owed
  BY DEF IInv, TypeOK
<1>8. bucket' \in [Principals -> -MaxIdle..Capacity] /\ debt' \in [Principals -> Nat]
  BY <1>1, <1>4, <1>6, <1>7
<1>9. ASSUME NEW q \in Principals, debt'[q] > 0
      PROVE  debt'[q] <= bucket'[q] + MaxWait
  <2>1. CASE q = p
    BY <2>1, <1>1, <1>5, <1>6, <1>7
  <2>2. CASE q # p
    <3>1. debt'[q] = debt[q] /\ bucket'[q] = bucket[q]
      BY <2>2, <1>6, <1>7
    <3> QED BY <3>1, <1>7, <1>9 DEF Owed
  <2> QED BY <2>1, <2>2
<1> QED BY <1>8, <1>9 DEF Owed

LEMMA ClaimTypes ==
    ASSUME IInv, NEW c \in Calls, Admitted(c)
    PROVE  /\ claim' \in [Calls -> [row : BOOLEAN, left : Int]]
           /\ claim'[c] = [row |-> TRUE, left |-> ClaimLife(c)]
           /\ \A k \in Calls : k # c /\ claim[k].row /\ claim[k].left > 0
                                  => claim'[k] = claim[k]
<1>1. ClaimLife(c) \in Int
  BY AdmissionConstants DEF IInv, TypeOK, ClaimLife
<1>2. Pruned(c) \in [Calls -> [row : BOOLEAN, left : Int]]
  BY DEF IInv, TypeOK, Pruned, NoClaim
<1>3. ASSUME NEW k \in Calls, k # c, claim[k].row, claim[k].left > 0
      PROVE  claim'[k] = claim[k]
  <2>1. k \in Counted(c)
    BY <1>3 DEF IInv, TypeOK, Counted
  <2> QED BY <2>1, <1>3, <1>2 DEF Admitted, Pruned
<1> QED BY <1>1, <1>2, <1>3 DEF Admitted

LEMMA NextIInv == IInv /\ [Next]_vars => IInv'
<1> SUFFICES ASSUME IInv, [Next]_vars PROVE IInv'
  OBVIOUS
<1> USE AdmissionConstants
<1>0. CASE UNCHANGED vars
  BY <1>0 DEF vars, IInv, TypeOK, Inherited, Fresh, Outlives, LiveBounded, Live, Owed
<1>1. ASSUME NEW c \in Calls, Arrive(c) PROVE IInv'
  <2>1. TypeOK' /\ Inherited' /\ Fresh' /\ Outlives' /\ Owed'
    BY <1>1 DEF Arrive, NoClaim, IInv, TypeOK, Inherited, Fresh, Outlives, Owed
  <2>2. Live' \subseteq Live
    BY <1>1 DEF Arrive, NoClaim, IInv, TypeOK, Live
  <2> QED BY <2>1, <2>2, FewerLive DEF IInv
<1>2. ASSUME NEW c \in Calls, Begin(c) PROVE IInv'
  <2>1. TypeOK' /\ Inherited' /\ Fresh' /\ Outlives' /\ Owed'
    BY <1>2 DEF Begin, IInv, TypeOK, Inherited, Fresh, Outlives, Owed
  <2>2. Live' \subseteq Live
    BY <1>2 DEF Begin, Live
  <2> QED BY <2>1, <2>2, FewerLive DEF IInv
<1>3. ASSUME NEW c \in Calls, AcquireMCP(c) PROVE IInv'
  <2>1. CASE HasRoom(c) /\ HasToken(c)
    <3>1. Admitted(c)
      BY <1>3, <2>1 DEF AcquireMCP, Admitted
    <3> DEFINE r == [phase |-> "running", left |-> call[c].left, age |-> 0]
    <3>a. call[c] \in CallRecords
      BY DEF IInv, TypeOK, CallRecords
    <3>e. call[c].left \in 0..Timeout /\ 0 \in 0..MaxWait
      BY <3>a DEF CallRecords
    <3>f. r \in CallRecords
      BY <3>e DEF CallRecords
    <3>c. call' = [call EXCEPT ![c] = r]
      BY <1>3, <2>1 DEF AcquireMCP
    <3>2. /\ call' \in [Calls -> CallRecords] /\ call'[c] = r
          /\ \A k \in Calls : k # c => call'[k] = call[k]
      BY <3>f, <3>c, CallTypes DEF IInv
    <3>3. TypeOK'
      BY <3>1, <3>2, AdmittedOwed, ClaimTypes DEF TypeOK, CallRecords
    <3>4. Inherited' /\ Fresh'
      BY <3>2 DEF IInv, Inherited, Fresh
    <3>5. ClaimLife(c) > call[c].left
      BY <3>1 DEF Admitted, ClaimLife, IInv, TypeOK, Inherited
    <3>6. ASSUME NEW k \in Calls, call'[k].phase = "running"
          PROVE  claim'[k].row /\ claim'[k].left > call'[k].left
      <4>1. CASE k = c
        <5>1. claim'[c] = [row |-> TRUE, left |-> ClaimLife(c)]
          BY <3>1, ClaimTypes
        <5>2. call'[c].left = call[c].left
          BY <3>2
        <5> QED BY <4>1, <5>1, <5>2, <3>5
      <4>2. CASE k # c
        <5>1. call'[k] = call[k] /\ claim[k].row /\ claim[k].left > call[k].left
          BY <4>2, <3>2, <3>6 DEF IInv, Outlives
        <5>2. claim[k].left > 0
          BY <5>1 DEF IInv, TypeOK
        <5> QED BY <5>1, <5>2, <4>2, <3>1, ClaimTypes
      <4> QED BY <4>1, <4>2
    <3> QED BY <3>1, <3>3, <3>4, <3>6, AdmittedBounded, AdmittedOwed DEF IInv, Outlives
  <2>2. CASE ~(HasRoom(c) /\ HasToken(c))
    <3>1. call' = [call EXCEPT ![c] = NoCall] /\ UNCHANGED <<claim, bucket, debt>>
      BY <1>3, <2>2 DEF AcquireMCP
    <3>2. TypeOK' /\ Inherited' /\ Fresh' /\ Outlives' /\ Owed'
      BY <3>1 DEF NoCall, IInv, TypeOK, Inherited, Fresh, Outlives, Owed
    <3>3. Live' \subseteq Live
      BY <3>1 DEF Live
    <3> QED BY <3>2, <3>3, FewerLive DEF IInv
  <2> QED BY <2>1, <2>2
<1>4. ASSUME NEW c \in Calls, LoseAck(c) PROVE IInv'
  <2>1. Admitted(c)
    BY <1>4 DEF LoseAck, Admitted
  <2>a. call' = [call EXCEPT ![c] = NoCall] /\ NoCall \in CallRecords
    BY <1>4 DEF LoseAck, NoCall, CallRecords
  <2>2. /\ call' \in [Calls -> CallRecords] /\ call'[c] = NoCall
        /\ \A k \in Calls : k # c => call'[k] = call[k]
    BY <2>a, CallTypes DEF IInv
  <2>3. TypeOK'
    BY <2>1, <2>2, AdmittedOwed, ClaimTypes DEF TypeOK, CallRecords
  <2>4. Inherited' /\ Fresh'
    BY <2>2 DEF IInv, Inherited, Fresh, NoCall
  <2>5. ASSUME NEW k \in Calls, call'[k].phase = "running"
        PROVE  claim'[k].row /\ claim'[k].left > call'[k].left
    <3>1. k # c
      BY <2>2, <2>5 DEF NoCall
    <3>2. call'[k] = call[k] /\ claim[k].row /\ claim[k].left > call[k].left
      BY <3>1, <2>2, <2>5 DEF IInv, Outlives
    <3>3. claim[k].left > 0
      BY <3>2 DEF IInv, TypeOK
    <3> QED BY <3>1, <3>2, <3>3, <2>1, ClaimTypes
  <2> QED BY <2>1, <2>3, <2>4, <2>5, AdmittedBounded, AdmittedOwed DEF IInv, Outlives
<1>5. ASSUME NEW c \in Calls, EndCall(c) PROVE IInv'
  <2> DEFINE r == [phase |-> "ended", left |-> 0, age |-> 0]
  <2>e. 0 \in 0..MaxWait /\ 0 \in 0..Timeout
    OBVIOUS
  <2>b. r \in CallRecords
    BY <2>e DEF CallRecords
  <2>c. call' = [call EXCEPT ![c] = r] /\ call[c].phase = "running"
    BY <1>5, <2>b DEF EndCall
  <2>d. /\ call' \in [Calls -> CallRecords] /\ call'[c] = r
        /\ \A k \in Calls : k # c => call'[k] = call[k]
    BY <2>b, <2>c, CallTypes DEF IInv
  <2>1. TypeOK' /\ Inherited' /\ Fresh' /\ Outlives' /\ Owed'
    BY <1>5, <2>c, <2>d DEF EndCall, IInv, TypeOK, CallRecords, Inherited, Fresh, Outlives, Owed
  <2>2. Live' \subseteq Live
    BY <1>5 DEF EndCall, Live
  <2> QED BY <2>1, <2>2, FewerLive DEF IInv
<1>6. ASSUME NEW c \in Calls, ReleaseMCP(c) PROVE IInv'
  <2>1. TypeOK' /\ Inherited' /\ Fresh' /\ Outlives' /\ Owed'
    BY <1>6 DEF ReleaseMCP, NoCall, NoClaim, IInv, TypeOK, Inherited, Fresh, Outlives, Owed
  <2>2. Live' \subseteq Live
    BY <1>6 DEF ReleaseMCP, NoClaim, IInv, TypeOK, Live
  <2> QED BY <2>1, <2>2, FewerLive DEF IInv
<1>7. ASSUME NEW c \in Calls, Abandon(c) PROVE IInv'
  <2>1. TypeOK' /\ Inherited' /\ Fresh' /\ Outlives' /\ Owed'
    BY <1>7 DEF Abandon, NoCall, IInv, TypeOK, Inherited, Fresh, Outlives, Owed
  <2>2. Live' \subseteq Live
    BY <1>7 DEF Abandon, Live
  <2> QED BY <2>1, <2>2, FewerLive DEF IInv
<1>8. CASE Tick
  <2>1. \A t \in Int : Earlier(t) \in Int /\ Earlier(t) <= t /\ Earlier(t) >= t - 1
                       /\ (t \in -MaxIdle..Capacity => Earlier(t) \in -MaxIdle..Capacity)
                       /\ (t > -MaxIdle => Earlier(t) = t - 1)
    BY DEF Earlier
  <2>2. ASSUME NEW c \in Calls
        PROVE  /\ call'[c] \in [phase : {"idle", "arrived", "waiting", "running", "ended"},
                                left : 0..Timeout, age : 0..MaxWait]
               /\ call'[c].phase = call[c].phase
               /\ call[c].phase = "running" => call'[c].left = call[c].left - 1
               /\ call[c].phase = "waiting" => /\ call'[c].left = call[c].left - 1
                                               /\ call'[c].age = call[c].age + 1
               /\ call[c].phase # "waiting" => call'[c].age = call[c].age
    <3>1. /\ call[c] \in [phase : {"idle", "arrived", "waiting", "running", "ended"},
                          left : 0..Timeout, age : 0..MaxWait]
          /\ call[c].phase \in {"arrived", "waiting", "running"} => call[c].left > 0
          /\ call[c].phase = "waiting" => call[c].age < MaxWait
      BY <1>8 DEF Tick, IInv, TypeOK
    <3>2. CASE call[c].phase \in {"arrived", "running"}
      <4>1. call'[c] = [call[c] EXCEPT !.left = @ - 1]
        BY <1>8, <3>2 DEF Tick
      <4> QED BY <4>1, <3>1, <3>2
    <3>3. CASE call[c].phase = "waiting"
      <4>1. call'[c] = [call[c] EXCEPT !.left = @ - 1, !.age = @ + 1]
        BY <1>8, <3>3 DEF Tick
      <4>2. call'[c] = [phase |-> "waiting", left |-> call[c].left - 1,
                        age |-> call[c].age + 1]
        BY <4>1, <3>1, <3>3
      <4>3. call[c].left - 1 \in 0..Timeout /\ call[c].age + 1 \in 0..MaxWait
        BY <3>1, <3>3
      <4> QED BY <4>2, <4>3, <3>1, <3>3
    <3>4. CASE call[c].phase \notin {"arrived", "running", "waiting"}
      <4>1. call'[c] = call[c]
        BY <1>8, <3>4 DEF Tick
      <4> QED BY <4>1, <3>1, <3>4
    <3> QED BY <3>2, <3>3, <3>4
  <2>3. call' \in [Calls -> [phase : {"idle", "arrived", "waiting", "running", "ended"},
                             left : 0..Timeout, age : 0..MaxWait]]
    BY <2>2, <1>8 DEF Tick
  <2>4. ASSUME NEW c \in Calls
        PROVE  /\ claim'[c] \in [row : BOOLEAN, left : Int]
               /\ claim'[c].row = claim[c].row
               /\ claim'[c].left <= claim[c].left /\ claim'[c].left >= claim[c].left - 1
    <3>1. claim[c] \in [row : BOOLEAN, left : Int]
      BY DEF IInv, TypeOK
    <3>2. CASE claim[c].row
      <4>1. claim'[c] = [claim[c] EXCEPT !.left = Earlier(@)]
        BY <1>8, <3>2 DEF Tick
      <4> QED BY <4>1, <3>1, <2>1
    <3>3. CASE ~claim[c].row
      <4>1. claim'[c] = claim[c]
        BY <1>8, <3>3 DEF Tick
      <4> QED BY <4>1, <3>1
    <3> QED BY <3>2, <3>3
  <2>5. claim' \in [Calls -> [row : BOOLEAN, left : Int]]
    BY <2>4, <1>8 DEF Tick
  <2>6. ASSUME NEW p \in Principals
        PROVE  /\ bucket'[p] \in -MaxIdle..Capacity /\ debt'[p] \in Nat
               /\ debt'[p] > 0 => debt'[p] <= bucket'[p] + MaxWait
    <3>1. bucket[p] \in -MaxIdle..Capacity /\ debt[p] \in Nat
      BY DEF IInv, TypeOK
    <3>2. /\ bucket'[p] = Earlier(bucket[p])
          /\ debt'[p] = IF debt[p] > 0 THEN debt[p] - 1 ELSE 0
      BY <1>8 DEF Tick
    <3>3. debt[p] > 0 => debt[p] <= bucket[p] + MaxWait
      BY DEF IInv, Owed
    <3> QED BY <3>1, <3>2, <3>3, <2>1
  <2>7. bucket' \in [Principals -> -MaxIdle..Capacity] /\ debt' \in [Principals -> Nat]
    BY <2>6, <1>8 DEF Tick
  <2>8. TypeOK' /\ Owed'
    BY <2>3, <2>5, <2>6, <2>7 DEF TypeOK, Owed
  <2>9. Inherited' /\ Fresh'
    BY <2>2 DEF IInv, TypeOK, Inherited, Fresh
  <2>10. Outlives'
    BY <2>2, <2>4 DEF IInv, TypeOK, Outlives
  <2>11. Live' \subseteq Live
    BY <2>4 DEF IInv, TypeOK, Live
  <2> QED BY <2>8, <2>9, <2>10, <2>11, FewerLive DEF IInv
<1> QED
  BY <1>0, <1>1, <1>2, <1>3, <1>4, <1>5, <1>6, <1>7, <1>8 DEF Next, CallStep

LEMMA Invariance == Spec => []IInv
BY InitIInv, NextIInv, PTL DEF Spec

(* The admission state keeps its types for all constants: in particular a  *)
(* principal's next_at is never more than Capacity refills ahead.          *)
THEOREM AdmissionTypes == Spec => []TypeOK
<1>1. IInv => TypeOK
  BY DEF IInv
<1> QED BY <1>1, Invariance, PTL

(* For any limits and any number of calls and nodes, the calls running at  *)
(* one time stay within the limit of every dimension (AcquireMCP's counts, *)
(* with a clock that lags by the wait for the lock).                       *)
THEOREM RunningStaysBounded == Spec => []RunningBounded
<1>1. IInv => RunningBounded
  <2> SUFFICES ASSUME IInv, NEW g \in Groups
               PROVE  Cardinality(Running \cap g) <= Limit[g]
    BY DEF RunningBounded
  <2>1. Running \subseteq Live
    BY DEF IInv, TypeOK, Outlives, Running, Live
  <2>2. /\ Running \cap g \in SUBSET Calls /\ Live \cap g \in SUBSET Calls
        /\ Running \cap g \subseteq Live \cap g
    BY <2>1 DEF Running, Live
  <2>3. Limit[g] \in Nat /\ Cardinality(Live \cap g) <= Limit[g]
    BY AdmissionConstants DEF IInv, LiveBounded
  <2> QED BY <2>2, <2>3, SubsetCounts
<1> QED BY <1>1, Invariance, PTL

(* Over any period a principal is admitted at most Capacity + MaxWait      *)
(* times more than the bucket refilled.                                    *)
THEOREM BurstsStayBounded == Spec => []BurstBounded
<1>1. IInv => BurstBounded
  <2> SUFFICES ASSUME IInv, NEW p \in Principals PROVE debt[p] <= Capacity + MaxWait
    BY DEF BurstBounded
  <2>1. bucket[p] \in -MaxIdle..Capacity /\ debt[p] \in Nat
    BY DEF IInv, TypeOK
  <2> QED BY <2>1, AdmissionConstants DEF IInv, Owed
<1> QED BY <1>1, Invariance, PTL

(* Both bounds of the admission, for any limits, capacity and calls.       *)
THEOREM AdmissionStaysBounded == Spec => []AdmissionBounded
<1> QED BY AdmissionTypes, RunningStaysBounded, BurstsStayBounded, PTL DEF AdmissionBounded
=============================================================================
