---------------------------- MODULE McpAdmission ----------------------------
(***************************************************************************)
(* The shared admission of MCP calls: a call claims one slot in each of    *)
(* three concurrency dimensions (its principal, its organization, the      *)
(* instance) and one token of its principal's rate bucket, in one          *)
(* datastore transaction, runs outside it, and releases the claim when it  *)
(* ends (service/mcp_admission.go, store/coordination.go,                  *)
(* mcpserver/tools.go withAdmission).  A claim whose process died is freed *)
(* by its expiry.                                                          *)
(*                                                                         *)
(* PostgreSQL's now() is the start of the transaction, and the transaction *)
(* then waits for the admission lock: the decision, the claim's expiry and *)
(* the bucket use a clock that is up to MaxWait behind.  Deadlines are     *)
(* kept as the time that is left; the unit is one refill interval.         *)
(***************************************************************************)
EXTENDS Integers, FiniteSets

CONSTANTS
    Calls,          \* call ids
    Principals,     \* rate limiter subjects
    PrincipalOf,    \* the principal of a call
    Groups,         \* the dimensions: the calls of one principal, of one
                    \* organization, of the instance
    Limit,          \* concurrent claims each group may hold
    Capacity,       \* MCPRateCapacity
    TTL,            \* mcpAdmissionLeaseTTL
    Timeout,        \* ToolExecutionTimeout: a call's whole life
    MaxWait,        \* longest wait for the lock
    MaxIdle         \* how far behind now a deadline is followed

ASSUME AdmissionConstants ==
    /\ IsFiniteSet(Calls)
    /\ PrincipalOf \in [Calls -> Principals]
    /\ Groups \subseteq SUBSET Calls
    /\ Limit \in [Groups -> Nat]
    /\ {Capacity, TTL, Timeout, MaxWait, MaxIdle} \subseteq Nat
    /\ Capacity > 0 /\ Timeout < TTL /\ MaxWait < MaxIdle

VARIABLES
    call,       \* each call: [phase, left, age]
    claim,      \* mcp_inflight: [row, left], left until expires_at
    bucket,     \* mcp_rate_buckets: next_at, relative to now
    debt        \* observer: admissions of a principal, paid off at the refill
                \* rate; never more than an ideal bucket would hold

vars == <<call, claim, bucket, debt>>

NoCall == [phase |-> "idle", left |-> 0, age |-> 0]
NoClaim == [row |-> FALSE, left |-> 0]

Init ==
    /\ call = [c \in Calls |-> NoCall]
    /\ claim = [c \in Calls |-> NoClaim]
    /\ bucket = [p \in Principals |-> -MaxIdle]
    /\ debt = [p \in Principals |-> 0]

(* The transport gives a call its deadline before anything else.  An id    *)
(* may stand for a new call once no transaction counts its old claim.      *)
Arrive(c) ==
    /\ call[c].phase = "idle"
    /\ claim[c].row => claim[c].left + MaxWait <= 0
    /\ claim' = [claim EXCEPT ![c] = NoClaim]
    /\ call' = [call EXCEPT ![c] = [phase |-> "arrived", left |-> Timeout, age |-> 0]]
    /\ UNCHANGED <<bucket, debt>>

(* The admission transaction begins, which fixes its now(), and queues for *)
(* the lock.                                                               *)
Begin(c) ==
    /\ call[c].phase = "arrived"
    /\ call' = [call EXCEPT ![c].phase = "waiting"]
    /\ UNCHANGED <<claim, bucket, debt>>

CountedNoPrune(c) == {k \in Calls : claim[k].row}

(* The claims that are left, and so counted, once the transaction of call  *)
(* c has pruned those that had expired at its now().                       *)
Counted(c) == {k \in Calls : claim[k].row /\ claim[k].left + call[c].age > 0}

(* Every dimension of the call has room.                                   *)
HasRoom(c) ==
    \A g \in Groups : c \in g => Cardinality(Counted(c) \cap g) < Limit[g]

HasTokenOver(c) == bucket[PrincipalOf[c]] + call[c].age <= Capacity

(* The bucket has a token: next_at is at most Capacity - 1 refills ahead.  *)
HasToken(c) == bucket[PrincipalOf[c]] + call[c].age <= Capacity - 1

ChargedUnclamped(c) == bucket[PrincipalOf[c]] + 1

(* next_at moved one refill on, from now() when it lies in the past.       *)
Charged(c) ==
    LET p == PrincipalOf[c]
    IN (IF bucket[p] < -call[c].age THEN -call[c].age ELSE bucket[p]) + 1

ClaimLifeTimeout(c) == Timeout - call[c].age

(* expires_at: now() and the lifetime of a claim.                          *)
ClaimLife(c) == TTL - call[c].age

Pruned(c) == [k \in Calls |-> IF k \in Counted(c) THEN claim[k] ELSE NoClaim]

(* AcquireMCP holds the lock: it prunes, counts, charges and claims, or it *)
(* rolls back and the call is refused.  The call starts when the commit is *)
(* acknowledged; an unacknowledged one leaves the claim to its expiry.     *)
AcquireMCP(c) ==
    /\ call[c].phase = "waiting"
    /\ IF HasRoom(c) /\ HasToken(c)
       THEN /\ claim' = [Pruned(c) EXCEPT ![c] = [row |-> TRUE, left |-> ClaimLife(c)]]
            /\ bucket' = [bucket EXCEPT ![PrincipalOf[c]] = Charged(c)]
            /\ debt' = [debt EXCEPT ![PrincipalOf[c]] = @ + 1]
            /\ call' = [call EXCEPT ![c] = [phase |-> "running", left |-> call[c].left, age |-> 0]]
       ELSE /\ call' = [call EXCEPT ![c] = NoCall]
            /\ UNCHANGED <<claim, bucket, debt>>

LoseAck(c) ==
    /\ call[c].phase = "waiting" /\ HasRoom(c) /\ HasToken(c)
    /\ claim' = [Pruned(c) EXCEPT ![c] = [row |-> TRUE, left |-> ClaimLife(c)]]
    /\ bucket' = [bucket EXCEPT ![PrincipalOf[c]] = Charged(c)]
    /\ debt' = [debt EXCEPT ![PrincipalOf[c]] = @ + 1]
    /\ call' = [call EXCEPT ![c] = NoCall]

(* The call returns, or its deadline ends it; the release follows.         *)
EndCall(c) ==
    /\ call[c].phase = "running"
    /\ call' = [call EXCEPT ![c] = [phase |-> "ended", left |-> 0, age |-> 0]]
    /\ UNCHANGED <<claim, bucket, debt>>

(* ReleaseMCP deletes the claim of this call id, if it is still there.     *)
ReleaseMCP(c) ==
    /\ call[c].phase = "ended"
    /\ claim' = [claim EXCEPT ![c] = NoClaim]
    /\ call' = [call EXCEPT ![c] = NoCall]
    /\ UNCHANGED <<bucket, debt>>

(* The release fails, the caller gives up before it is admitted, or its    *)
(* process dies at any point: what it claimed stays.                       *)
Abandon(c) ==
    /\ call[c].phase # "idle"
    /\ call' = [call EXCEPT ![c] = NoCall]
    /\ UNCHANGED <<claim, bucket, debt>>

(* Time passes.  No call runs on after its deadline, and no transaction    *)
(* waits longer than MaxWait or than its caller's deadline.                *)
Earlier(t) == IF t > -MaxIdle THEN t - 1 ELSE t

Tick ==
    /\ \A c \in Calls : call[c].phase \in {"arrived", "waiting", "running"} => call[c].left > 0
    /\ \A c \in Calls : call[c].phase = "waiting" => call[c].age < MaxWait
    /\ call' = [c \in Calls |->
         CASE call[c].phase \in {"arrived", "running"} -> [call[c] EXCEPT !.left = @ - 1]
           [] call[c].phase = "waiting" -> [call[c] EXCEPT !.left = @ - 1, !.age = @ + 1]
           [] OTHER -> call[c]]
    /\ claim' = [c \in Calls |-> IF claim[c].row THEN [claim[c] EXCEPT !.left = Earlier(@)]
                                                 ELSE claim[c]]
    /\ bucket' = [p \in Principals |-> Earlier(bucket[p])]
    /\ debt' = [p \in Principals |-> IF debt[p] > 0 THEN debt[p] - 1 ELSE 0]

CallStep(c) ==
    \/ Arrive(c) \/ Begin(c) \/ AcquireMCP(c) \/ LoseAck(c)
    \/ EndCall(c) \/ ReleaseMCP(c) \/ Abandon(c)

Next == (\E c \in Calls : CallStep(c)) \/ Tick

Spec == Init /\ [][Next]_vars

(* Time passes, calls end by their deadline, and the datastore decides     *)
(* admissions that wait.                                                   *)
FairSpec ==
    /\ Spec /\ WF_vars(Tick)
    /\ \A c \in Calls : WF_vars(AcquireMCP(c)) /\ WF_vars(EndCall(c))
                        /\ WF_vars(Begin(c)) /\ WF_vars(ReleaseMCP(c))

----------------------------------------------------------------------------
TypeOK ==
    /\ call \in [Calls -> [phase : {"idle", "arrived", "waiting", "running", "ended"},
                           left : 0..Timeout, age : 0..MaxWait]]
    /\ claim \in [Calls -> [row : BOOLEAN, left : Int]]
    /\ bucket \in [Principals -> -MaxIdle..Capacity]
    /\ debt \in [Principals -> Nat]

(* Unexpired claims, and the calls that run.                               *)
Live == {c \in Calls : claim[c].row /\ claim[c].left > 0}
Running == {c \in Calls : call[c].phase = "running"}

(* The calls that really run at one time never exceed the limit of their   *)
(* principal, organization or instance: no claim expires under a call that *)
(* is still running, however long its transaction waited for the lock.     *)
RunningBounded == \A g \in Groups : Cardinality(Running \cap g) <= Limit[g]

(* In any window the admissions of a principal exceed the refills by at    *)
(* most the bucket's capacity, and the time a transaction may lag behind:  *)
(* an idle principal saves up no more.                                     *)
BurstBounded == \A p \in Principals : debt[p] <= Capacity + MaxWait

(* Admission is bounded (AcquireMCP): neither the calls that run at one    *)
(* time nor those admitted in a burst exceed what was configured.          *)
AdmissionBounded == TypeOK /\ RunningBounded /\ BurstBounded

(* A call that finds its dimensions full need not for ever: callers that   *)
(* crashed, or whose release or commit was lost, hold their slots only for *)
(* the life of a claim.                                                    *)
CapacityReturns == \A c \in Calls : ~HasRoom(c) ~> HasRoom(c)
=============================================================================
