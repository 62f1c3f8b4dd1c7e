------------------------ MODULE SchedulerLeaseProofs ------------------------
(***************************************************************************)
(* Proofs about SchedulerLease for any set of nodes, any lease TTL and    *)
(* any bounds.                                                             *)
(***************************************************************************)
EXTENDS SchedulerLease, FiniteSetTheorems, TLAPS

\* A heartbeat never works with a clock reading from the future.
NowNotAhead == \A n \in Nodes : now[n] <= clock

\* A row exists once a fence token was handed out.
OwnerHasFence == lease.owner # NoNode => lease.fence > 0

\* The loop holds leadership only between heartbeats and while it renews.
LeaderPlaces == \A n \in Nodes : leader[n] => pc[n] \in {"idle", "renew"}

\* A node that has won, and has not begun its term yet, is the owner for at
\* least as long as the deadline it is about to adopt.
WinnerHoldsLease ==
  \A n \in Nodes :
    pc[n] = "won" /\ clock < now[n] + TTL =>
      /\ lease.owner = n
      /\ lease.fence = fence[n]
      /\ lease.expires >= now[n] + TTL

\* The only term that can still run is the tracked one, and none does when a
\* new one is about to begin.
TermsTracked ==
  \A n \in Nodes : /\ terms[n] \subseteq {termDone[n]}
                   /\ pc[n] = "won" => terms[n] = {}

\* No write of a future term, and the writes are in term order.
LogBelowFence == \A i \in 1..Len(log) : log[i] <= lease.fence

IInv ==
  /\ TypeOK
  /\ NowNotAhead
  /\ OwnerHasFence
  /\ LeaderPlaces
  /\ WinnerHoldsLease
  /\ LeaderHoldsLease
  /\ OpenJobIsNewestTerm
  /\ TermsTracked
  /\ LogBelowFence
  /\ CommitsInTermOrder

-----------------------------------------------------------------------------
\* The initial state satisfies every part of the invariant.
LEMMA InitIInv == Init => IInv
  BY TTLAssumption, NoNodeAssumption
  DEF Init, IInv, TypeOK, NowNotAhead, OwnerHasFence, LeaderPlaces,
      WinnerHoldsLease, LeaderHoldsLease, OpenJobIsNewestTerm, TermsTracked,
      LogBelowFence, CommitsInTermOrder, NoJob

\* Time passing outdates deadlines and nothing else.
LEMMA TickIInv == IInv /\ Tick => IInv'
  BY TTLAssumption
  DEF Tick, IInv, TypeOK, NowNotAhead, OwnerHasFence, LeaderPlaces,
      WinnerHoldsLease, LeaderHoldsLease, OpenJobIsNewestTerm, TermsTracked,
      LogBelowFence, CommitsInTermOrder, local

\* Steps of the heartbeat loop that leave the lease row alone.
LEMMA LocalHeartbeatIInv ==
  ASSUME IInv, NEW n \in Nodes,
         \/ ReadClock(n) \/ ClockUnreachable(n) \/ AcquireSkipped(n)
         \/ ConfirmRefused(n) \/ ClaimRefused(n) \/ WonButStopping(n)
         \/ StartTerm(n)
  PROVE  IInv'
<1> USE TTLAssumption DEF IInv, TypeOK, NowNotAhead, OwnerHasFence,
      LeaderPlaces, OpenJobIsNewestTerm, LogBelowFence, CommitsInTermOrder
<1>1. CASE ReadClock(n)
  <2>1. leader' \in [Nodes -> BOOLEAN] /\ pc' \in [Nodes -> {"down", "idle",
          "renew", "acquire", "won", "stopping"}]
    BY <1>1 DEF ReadClock
  <2>2. /\ pc'[n] \in {"renew", "acquire"}
        /\ leader'[n] => leader[n] /\ pc'[n] = "renew"
        /\ \A m \in Nodes \ {n} : leader'[m] = leader[m] /\ pc'[m] = pc[m]
    BY <1>1 DEF ReadClock
  <2>3. /\ now' = [now EXCEPT ![n] = clock]
        /\ UNCHANGED <<clock, lease, stop, fence, unconfirmed, expiresAt,
                       termDone, terms, job, log>>
    BY <1>1 DEF ReadClock
  <2>4. TypeOK'
    BY <2>1, <2>3
  <2>5. WinnerHoldsLease' /\ LeaderHoldsLease' /\ LeaderPlaces'
    BY <2>2, <2>3 DEF WinnerHoldsLease, LeaderHoldsLease
  <2>6. TermsTracked'
    BY <2>2, <2>3 DEF TermsTracked
  <2> QED BY <2>3, <2>4, <2>5, <2>6
<1>2. CASE ClockUnreachable(n)
  BY <1>2 DEF ClockUnreachable, WinnerHoldsLease, LeaderHoldsLease, TermsTracked
<1>3. CASE AcquireSkipped(n)
  BY <1>3 DEF AcquireSkipped, WinnerHoldsLease, LeaderHoldsLease, TermsTracked
<1>4. CASE ConfirmRefused(n)
  BY <1>4 DEF ConfirmRefused, MayAcquire, WinnerHoldsLease, LeaderHoldsLease,
              TermsTracked
<1>5. CASE ClaimRefused(n)
  BY <1>5 DEF ClaimRefused, MayAcquire, WinnerHoldsLease, LeaderHoldsLease,
              TermsTracked
<1>6. CASE WonButStopping(n)
  BY <1>6 DEF WonButStopping, WinnerHoldsLease, LeaderHoldsLease, TermsTracked
<1>7. CASE StartTerm(n)
  <2>1. TypeOK'
    <3>1. fence[n] \in Nat /\ terms[n] \cup {fence[n]} \in SUBSET Nat
      OBVIOUS
    <3>2. terms' \in [Nodes -> SUBSET Nat]
      BY <1>7, <3>1 DEF StartTerm
    <3>3. /\ leader' \in [Nodes -> BOOLEAN]
          /\ unconfirmed' \in [Nodes -> BOOLEAN]
          /\ pc' \in [Nodes -> {"down", "idle", "renew", "acquire", "won", "stopping"}]
      BY <1>7 DEF StartTerm
    <3>4. expiresAt' \in [Nodes -> Nat] /\ termDone' \in [Nodes -> Nat]
      BY <1>7, <3>1 DEF StartTerm
    <3> QED BY <1>7, <3>2, <3>3, <3>4 DEF StartTerm
  <2>4. LeaderPlaces' /\ WinnerHoldsLease'
    BY <1>7 DEF StartTerm, WinnerHoldsLease
  <2>2. LeaderHoldsLease'
    BY <1>7 DEF StartTerm, WinnerHoldsLease, LeaderHoldsLease
  <2>3. TermsTracked'
    BY <1>7 DEF StartTerm, TermsTracked
  <2> QED BY <1>7, <2>1, <2>2, <2>3, <2>4 DEF StartTerm
<1> QED BY <1>1, <1>2, <1>3, <1>4, <1>5, <1>6, <1>7

\* A node whose tracked term has ended runs no term.
LEMMA Idle ==
  ASSUME NEW n \in Nodes, terms[n] \subseteq {termDone[n]}, ~Draining(n)
  PROVE  terms[n] = {}
  BY DEF Draining

\* Extending node n's own live row, and moving n's loop to where it does not
\* lead and has not won, disturbs no other node's claim to the row.
LEMMA ExtendIInv ==
  ASSUME IInv, NEW n \in Nodes, NEW p \in {"idle", "acquire"},
         \/ UNCHANGED lease
         \/ /\ Unlocked
            /\ Renewable(n, fence[n], now[n])
            /\ lease' = Renewed(now[n] + TTL),
         leader' = [leader EXCEPT ![n] = FALSE],
         pc' = [pc EXCEPT ![n] = p],
         UNCHANGED <<clock, stop, now, fence, unconfirmed, expiresAt, termDone,
                     terms, job, log>>
  PROVE  IInv'
<1> USE TTLAssumption, NoNodeAssumption DEF IInv, TypeOK
<1>1. /\ lease' \in [owner : Nodes \cup {NoNode}, fence : Nat, expires : Nat]
      /\ lease'.owner = lease.owner /\ lease'.fence = lease.fence
      /\ lease' = lease \/ lease.owner = n
  <2>1. CASE UNCHANGED lease
    BY <2>1
  <2>2. CASE Renewable(n, fence[n], now[n]) /\ lease' = Renewed(now[n] + TTL)
    <3>1. lease' = [owner |-> lease.owner, fence |-> lease.fence, expires |-> now[n] + TTL]
      BY <2>2 DEF Renewed
    <3>2. lease.owner = n /\ now[n] + TTL \in Nat
      BY <2>2 DEF Renewable
    <3> QED BY <3>1, <3>2
  <2> QED BY <2>1, <2>2
<1>2. TypeOK'
  BY <1>1
<1>3. WinnerHoldsLease' /\ LeaderHoldsLease'
  BY <1>1 DEF WinnerHoldsLease, LeaderHoldsLease
<1>4. /\ NowNotAhead' /\ OwnerHasFence' /\ LeaderPlaces' /\ OpenJobIsNewestTerm'
      /\ TermsTracked' /\ LogBelowFence' /\ CommitsInTermOrder'
  BY <1>1 DEF NowNotAhead, OwnerHasFence, LeaderPlaces, OpenJobIsNewestTerm,
      TermsTracked, LogBelowFence, CommitsInTermOrder, NoJob
<1> QED BY <1>2, <1>3, <1>4

\* A won claim moves the row to a fresh fence; whoever led before is past its
\* deadline, because the row had lapsed at a clock reading that is not ahead.
LEMMA ClaimIInv ==
  ASSUME IInv, NEW n \in Nodes, CanClaim(n), NEW p \in {"idle", "won"},
         \/ p = "idle" /\ UNCHANGED lease
         \/ lease' = Claimed(n, now[n] + TTL),
         fence' = [fence EXCEPT ![n] = lease.fence + 1],
         unconfirmed' = [unconfirmed EXCEPT ![n] = TRUE],
         pc' = [pc EXCEPT ![n] = p],
         UNCHANGED <<clock, stop, now, leader, expiresAt, termDone, terms, job, log>>
  PROVE  IInv'
<1> USE TTLAssumption, NoNodeAssumption DEF IInv, TypeOK
<1>1. /\ ~leader[n] /\ pc[n] = "acquire" /\ terms[n] = {} /\ now[n] <= clock
      /\ job = NoJob
      /\ lease.fence = 0 \/ lease.expires <= now[n]
  <2>1. pc[n] = "acquire" /\ ~Draining(n) /\ job = NoJob
    BY DEF CanClaim, MayAcquire, Unlocked
  <2>2. ~leader[n]
    BY <2>1 DEF LeaderPlaces
  <2>3. terms[n] = {}
    BY <2>1, Idle DEF TermsTracked
  <2> QED BY <2>1, <2>2, <2>3 DEF CanClaim, Claimable, NowNotAhead
<1>2. /\ lease' \in [owner : Nodes \cup {NoNode}, fence : Nat, expires : Nat]
      /\ lease'.fence >= lease.fence
      /\ \/ lease' = lease /\ p = "idle"
         \/ lease' = [owner |-> n, fence |-> lease.fence + 1, expires |-> now[n] + TTL]
  BY DEF Claimed
<1>3. TypeOK'
  <2>1. fence' \in [Nodes -> Nat] /\ unconfirmed' \in [Nodes -> BOOLEAN]
    OBVIOUS
  <2>2. pc' \in [Nodes -> {"down", "idle", "renew", "acquire", "won", "stopping"}]
    OBVIOUS
  <2> QED BY <1>2, <2>1, <2>2
<1>4. \A m \in Nodes \ {n} : ~(leader[m] /\ clock < expiresAt[m])
                            \/ lease' = lease
  BY <1>1, <1>2 DEF LeaderHoldsLease, OwnerHasFence
<1>5. \A m \in Nodes \ {n} : ~(pc[m] = "won" /\ clock < now[m] + TTL)
                            \/ lease' = lease
  BY <1>1, <1>2 DEF WinnerHoldsLease, OwnerHasFence
<1>6. LeaderHoldsLease'
  BY <1>1, <1>4 DEF LeaderHoldsLease
<1>7. WinnerHoldsLease'
  <2> SUFFICES ASSUME NEW m \in Nodes, pc'[m] = "won", clock' < now'[m] + TTL
               PROVE  lease'.owner = m /\ lease'.fence = fence'[m] /\ lease'.expires >= now'[m] + TTL
    BY DEF WinnerHoldsLease
  <2>1. CASE m = n
    <3>1. p = "won" /\ fence'[n] = lease.fence + 1 /\ now' = now /\ now[n] + TTL \in Nat
      BY <2>1
    <3>2. lease' = [owner |-> n, fence |-> lease.fence + 1, expires |-> now[n] + TTL]
      BY <1>2, <3>1
    <3> HIDE DEF IInv, TypeOK
    <3> QED BY <2>1, <3>1, <3>2
  <2>2. CASE m # n
    <3>1. pc[m] = "won" /\ fence'[m] = fence[m] /\ now' = now /\ clock' = clock
      BY <2>2
    <3>2. lease' = lease
      BY <1>5, <2>2, <3>1
    <3>3. WinnerHoldsLease
      OBVIOUS
    <3> HIDE DEF IInv, TypeOK
    <3> QED BY <3>1, <3>2, <3>3 DEF WinnerHoldsLease
  <2> QED BY <2>1, <2>2
<1>8. /\ NowNotAhead'
      /\ OwnerHasFence'
      /\ LeaderPlaces'
  <2>1. NowNotAhead' BY DEF NowNotAhead
  <2>2. OwnerHasFence' BY <1>2 DEF OwnerHasFence
  <2>3. LeaderPlaces' BY <1>1 DEF LeaderPlaces
  <2> QED BY <2>1, <2>2, <2>3
<1>9. OpenJobIsNewestTerm'
  BY <1>1 DEF OpenJobIsNewestTerm, NoJob
<1>10. TermsTracked'
  BY <1>1 DEF TermsTracked
<1>11. LogBelowFence' /\ CommitsInTermOrder'
  <2>1. /\ log \in Seq(Nat) /\ log' = log /\ LogBelowFence /\ CommitsInTermOrder
        /\ lease.fence \in Nat /\ lease'.fence \in Nat
    BY <1>2
  <2> HIDE DEF IInv, TypeOK
  <2>2. \A i \in 1..Len(log) : log[i] \in Nat
    BY <2>1
  <2> QED BY <1>2, <2>1, <2>2 DEF LogBelowFence, CommitsInTermOrder
<1> QED BY <1>3, <1>6, <1>7, <1>8, <1>9, <1>10, <1>11

\* Steps of the heartbeat loop that may write the lease row.
LEMMA LeaseHeartbeatIInv ==
  ASSUME IInv, NEW n \in Nodes,
         \/ RenewHeld(n) \/ RenewLost(n) \/ ConfirmHeld(n) \/ ConfirmFailed(n)
         \/ ClaimHeld(n) \/ ClaimAmbiguous(n)
  PROVE  IInv'
<1> USE TTLAssumption, NoNodeAssumption DEF IInv, TypeOK
<1>0. ASSUME Unlocked, Renewable(n, fence[n], now[n]), lease' = Renewed(now[n] + TTL)
      PROVE  /\ lease' = [owner |-> n, fence |-> fence[n], expires |-> now[n] + TTL]
             /\ lease'.fence = lease.fence /\ lease.owner = n /\ job = NoJob
  BY <1>0 DEF Unlocked, Renewable, Renewed
<1>1. CASE RenewHeld(n)
  <2>1. /\ lease' = [owner |-> n, fence |-> fence[n], expires |-> now[n] + TTL]
        /\ lease'.fence = lease.fence /\ lease.owner = n /\ job = NoJob
    BY <1>0, <1>1 DEF RenewHeld
  <2>2. TypeOK'
    <3>1. now[n] + TTL \in Nat /\ fence[n] \in Nat
      OBVIOUS
    <3>2. lease' \in [owner : Nodes \cup {NoNode}, fence : Nat, expires : Nat]
      BY <2>1, <3>1
    <3>3. expiresAt' \in [Nodes -> Nat]
      BY <1>1, <3>1 DEF RenewHeld
    <3> QED BY <1>1, <3>2, <3>3 DEF RenewHeld
  <2>3. /\ pc[n] = "renew" /\ pc' = [pc EXCEPT ![n] = "idle"]
        /\ expiresAt' = [expiresAt EXCEPT ![n] = now[n] + TTL]
        /\ UNCHANGED <<clock, now, leader, fence>>
    BY <1>1 DEF RenewHeld
  <2>5. WinnerHoldsLease'
    BY <2>1, <2>3 DEF WinnerHoldsLease
  <2>6. LeaderHoldsLease'
    BY <2>1, <2>3 DEF LeaderHoldsLease
  <2>4. /\ NowNotAhead' /\ OwnerHasFence' /\ LeaderPlaces' /\ OpenJobIsNewestTerm'
        /\ TermsTracked' /\ LogBelowFence' /\ CommitsInTermOrder'
    BY <1>1, <2>1 DEF RenewHeld, NowNotAhead, OwnerHasFence, LeaderPlaces,
        OpenJobIsNewestTerm, TermsTracked, LogBelowFence, CommitsInTermOrder, NoJob
  <2> QED BY <2>2, <2>4, <2>5, <2>6
<1>2. CASE RenewLost(n)
  BY <1>2, ExtendIInv DEF RenewLost
<1>3. CASE ConfirmHeld(n)
  <2>1. /\ lease' = [owner |-> n, fence |-> fence[n], expires |-> now[n] + TTL]
        /\ lease'.fence = lease.fence /\ lease.owner = n /\ job = NoJob
    BY <1>0, <1>3 DEF ConfirmHeld
  <2>5. pc[n] = "acquire" /\ ~Draining(n)
    BY <1>3 DEF ConfirmHeld, MayAcquire
  <2>6. ~leader[n] /\ terms[n] = {}
    BY <2>5, Idle DEF LeaderPlaces, TermsTracked
  <2>7. pc' = [pc EXCEPT ![n] = "won"] /\ UNCHANGED <<clock, now, leader, fence, expiresAt>>
    BY <1>3 DEF ConfirmHeld
  <2>2. TypeOK'
    <3>1. now[n] + TTL \in Nat /\ fence[n] \in Nat
      OBVIOUS
    <3>2. lease' \in [owner : Nodes \cup {NoNode}, fence : Nat, expires : Nat]
      BY <2>1, <3>1
    <3>3. pc' \in [Nodes -> {"down", "idle", "renew", "acquire", "won", "stopping"}]
      BY <2>7
    <3> QED BY <1>3, <3>2, <3>3 DEF ConfirmHeld
  <2>3. WinnerHoldsLease' /\ LeaderHoldsLease'
    <3>1. WinnerHoldsLease' BY <2>1, <2>7 DEF WinnerHoldsLease
    <3>2. LeaderHoldsLease' BY <2>1, <2>6, <2>7 DEF LeaderHoldsLease
    <3> QED BY <3>1, <3>2
  <2>4. /\ NowNotAhead' /\ OwnerHasFence' /\ LeaderPlaces' /\ OpenJobIsNewestTerm'
        /\ TermsTracked' /\ LogBelowFence' /\ CommitsInTermOrder'
    <3>1. UNCHANGED <<clock, now, leader, fence, terms, job, log, stop, termDone>>
      BY <1>3 DEF ConfirmHeld
    <3>2. NowNotAhead' BY <3>1 DEF NowNotAhead
    <3>3. OwnerHasFence' BY <2>1, <3>1 DEF OwnerHasFence
    <3>4. LeaderPlaces' BY <2>6, <2>7, <3>1 DEF LeaderPlaces
    <3>5. OpenJobIsNewestTerm' BY <2>1, <3>1 DEF OpenJobIsNewestTerm, NoJob
    <3>6. TermsTracked' BY <2>6, <2>7, <3>1 DEF TermsTracked
    <3>7. LogBelowFence' /\ CommitsInTermOrder'
      BY <2>1, <3>1 DEF LogBelowFence, CommitsInTermOrder
    <3> QED BY <3>2, <3>3, <3>4, <3>5, <3>6, <3>7
  <2> QED BY <2>2, <2>3, <2>4
<1>4. CASE ConfirmFailed(n)
  <2>1. leader' = [leader EXCEPT ![n] = FALSE]
    <3>1. ~leader[n] /\ UNCHANGED leader
      BY <1>4 DEF ConfirmFailed, MayAcquire, LeaderPlaces
    <3> QED BY <3>1
  <2> QED BY <1>4, <2>1, ExtendIInv DEF ConfirmFailed
<1>5. CASE ClaimHeld(n)
  BY <1>5, ClaimIInv DEF ClaimHeld
<1>6. CASE ClaimAmbiguous(n)
  BY <1>6, ClaimIInv DEF ClaimAmbiguous
<1> QED BY <1>1, <1>2, <1>3, <1>4, <1>5, <1>6

\* The end of a process, whether it released its row or not.
LEMMA GoneIInv ==
  ASSUME IInv, NEW n \in Nodes, ProcessGone(n),
         \/ UNCHANGED lease
         \/ Unlocked /\ lease' = Released(n, fence[n])
  PROVE  IInv'
<1> USE TTLAssumption, NoNodeAssumption DEF IInv, TypeOK
<1>1. /\ lease' \in [owner : Nodes \cup {NoNode}, fence : Nat, expires : Nat]
      /\ lease'.owner = lease.owner /\ lease'.fence = lease.fence
      /\ lease' = lease \/ (lease.owner = n /\ Unlocked)
  <2>1. CASE lease' = [lease EXCEPT !.expires = 0]
    <3>1. lease' = [owner |-> lease.owner, fence |-> lease.fence, expires |-> 0]
      BY <2>1
    <3> QED BY <3>1 DEF Released
  <2> QED BY <2>1 DEF Released
<1>2. /\ ~leader'[n] /\ pc'[n] = "down" /\ terms'[n] = {} /\ now'[n] = 0
      /\ \A m \in Nodes \ {n} :
            /\ leader'[m] = leader[m] /\ pc'[m] = pc[m] /\ terms'[m] = terms[m]
            /\ now'[m] = now[m] /\ fence'[m] = fence[m]
            /\ expiresAt'[m] = expiresAt[m] /\ termDone'[m] = termDone[m]
      /\ job' = job \/ job' = NoJob
      /\ UNCHANGED <<clock, log>>
  BY DEF ProcessGone
<1>3. TypeOK'
  <2>1. /\ leader' \in [Nodes -> BOOLEAN] /\ unconfirmed' \in [Nodes -> BOOLEAN]
        /\ stop' \in [Nodes -> BOOLEAN]
        /\ pc' \in [Nodes -> {"down", "idle", "renew", "acquire", "won", "stopping"}]
    BY DEF ProcessGone
  <2>2. /\ now' \in [Nodes -> Nat] /\ fence' \in [Nodes -> Nat]
        /\ expiresAt' \in [Nodes -> Nat] /\ termDone' \in [Nodes -> Nat]
        /\ terms' \in [Nodes -> SUBSET Nat]
    BY DEF ProcessGone
  <2>3. job' \in [node : Nodes \cup {NoNode}, fence : Nat]
    BY <1>2 DEF NoJob
  <2> QED BY <1>1, <1>2, <2>1, <2>2, <2>3
<1>4. WinnerHoldsLease' /\ LeaderHoldsLease' /\ LeaderPlaces' /\ NowNotAhead'
  <2>1. WinnerHoldsLease' BY <1>1, <1>2 DEF WinnerHoldsLease
  <2>2. LeaderHoldsLease' BY <1>1, <1>2 DEF LeaderHoldsLease
  <2>3. LeaderPlaces' BY <1>2 DEF LeaderPlaces
  <2>4. NowNotAhead'
    <3> SUFFICES ASSUME NEW m \in Nodes PROVE now'[m] <= clock'
      BY DEF NowNotAhead
    <3>1. CASE m = n BY <1>2, <3>1
    <3>2. CASE m # n BY <1>2, <3>2 DEF NowNotAhead
    <3> QED BY <3>1, <3>2
  <2> QED BY <2>1, <2>2, <2>3, <2>4
<1>5. OwnerHasFence' /\ OpenJobIsNewestTerm'
  BY <1>1, <1>2 DEF OwnerHasFence, OpenJobIsNewestTerm, NoJob
<1>6. TermsTracked'
  BY <1>2 DEF TermsTracked
<1>7. LogBelowFence' /\ CommitsInTermOrder'
  BY <1>1, <1>2 DEF LogBelowFence, CommitsInTermOrder
<1> QED BY <1>3, <1>4, <1>5, <1>6, <1>7

\* Boot, shutdown and crash.
LEMMA LifecycleIInv == ASSUME IInv, NEW n \in Nodes, Lifecycle(n) PROVE IInv'
<1> USE TTLAssumption, NoNodeAssumption DEF IInv, TypeOK, NowNotAhead,
      OwnerHasFence, LeaderPlaces, OpenJobIsNewestTerm, LogBelowFence,
      CommitsInTermOrder, TermsTracked, NoJob, WinnerHoldsLease, LeaderHoldsLease
<1>1. CASE Boot(n)         BY <1>1 DEF Boot
<1>2. CASE RequestStop(n)  BY <1>2 DEF RequestStop
<1>3. CASE BeginStop(n)    BY <1>3 DEF BeginStop
<1>4. CASE StopReleased(n) \/ StopAbandoned(n) \/ Crash(n)
  <2> HIDE DEF IInv
  <2> QED BY <1>4, GoneIInv DEF StopReleased, StopAbandoned, Crash
<1> QED BY <1>1, <1>2, <1>3, <1>4 DEF Lifecycle

\* The jobs of a term; a commit appends the newest fence token.
LEMMA JobsIInv == ASSUME IInv, NEW n \in Nodes, Jobs(n) PROVE IInv'
<1> USE NoNodeAssumption DEF IInv, TypeOK, NowNotAhead, OwnerHasFence,
      LeaderPlaces, OpenJobIsNewestTerm, TermsTracked, NoJob,
      WinnerHoldsLease, LeaderHoldsLease, local
<1>1. ASSUME NEW f \in terms[n], JobBegin(n, f) PROVE IInv'
  BY <1>1 DEF JobBegin, GuardSingletonLease, LogBelowFence, CommitsInTermOrder
<1>2. ASSUME NEW f \in terms[n], TermExit(n, f) PROVE IInv'
  BY <1>2 DEF TermExit, LogBelowFence, CommitsInTermOrder
<1>3. CASE JobRollback(n)
  BY <1>3 DEF JobRollback, LogBelowFence, CommitsInTermOrder
<1>4. CASE JobCommit(n)
  <2>1. job.fence = lease.fence /\ job' = NoJob
    BY <1>4 DEF JobCommit
  <2>2. /\ log' = Append(log, lease.fence)
        /\ log' \in Seq(Nat)
        /\ Len(log') = Len(log) + 1
        /\ log'[Len(log) + 1] = lease.fence
        /\ \A i \in 1..Len(log) : log'[i] = log[i]
    BY <1>4, <2>1 DEF JobCommit
  <2>3. LogBelowFence' /\ CommitsInTermOrder'
    BY <1>4, <2>2 DEF JobCommit, LogBelowFence, CommitsInTermOrder
  <2> QED BY <1>4, <2>1, <2>2, <2>3 DEF JobCommit
<1> QED BY <1>1, <1>2, <1>3, <1>4 DEF Jobs

\* The invariant is inductive.
LEMMA NextIInv == IInv /\ [Next]_vars => IInv'
<1> SUFFICES ASSUME IInv, [Next]_vars PROVE IInv' OBVIOUS
<1>1. CASE UNCHANGED vars
  BY <1>1 DEF vars, local, IInv, TypeOK, NowNotAhead, OwnerHasFence,
      LeaderPlaces, WinnerHoldsLease, LeaderHoldsLease, OpenJobIsNewestTerm,
      TermsTracked, LogBelowFence, CommitsInTermOrder
<1>2. CASE Tick BY <1>2, TickIInv
<1>3. ASSUME NEW n \in Nodes, Heartbeat(n) PROVE IInv'
  BY <1>3, LocalHeartbeatIInv, LeaseHeartbeatIInv DEF Heartbeat
<1>4. ASSUME NEW n \in Nodes, Lifecycle(n) \/ Jobs(n) PROVE IInv'
  BY <1>4, LifecycleIInv, JobsIInv
<1> QED BY <1>1, <1>2, <1>3, <1>4 DEF Next

\* The inductive invariant holds throughout.
LEMMA Invariance == Spec => []IInv
  BY InitIInv, NextIInv, PTL DEF Spec

\* Every reachable state is well typed.
THEOREM TypeCorrect == Spec => []TypeOK
<1>1. IInv => TypeOK BY DEF IInv
<1> QED BY <1>1, Invariance, PTL

\* A node that leads within its own deadline holds the lease row under its
\* fence: two nodes never both do.
THEOREM LeaderExclusion == Spec => []LeaderHoldsLease
<1>1. IInv => LeaderHoldsLease BY DEF IInv
<1> QED BY <1>1, Invariance, PTL

\* The committed writes of scheduled jobs are in term order.
THEOREM TermOrder == Spec => []CommitsInTermOrder
<1>1. IInv => CommitsInTermOrder BY DEF IInv
<1> QED BY <1>1, Invariance, PTL

\* A job's transaction is only ever open under the newest term: the row lock it
\* took with its fence check keeps every other claim out until it ends.
THEOREM OpenJobsAreNewest == Spec => []OpenJobIsNewestTerm
<1>1. IInv => OpenJobIsNewestTerm BY DEF IInv
<1> QED BY <1>1, Invariance, PTL

\* No node ever runs two leadership terms at once.
THEOREM NoTermOverlap == Spec => []OneTermPerNode
<1>1. IInv => OneTermPerNode
  <2> SUFFICES ASSUME IInv, NEW n \in Nodes PROVE Cardinality(terms[n]) <= 1
    BY DEF OneTermPerNode
  <2>1. terms[n] \subseteq {termDone[n]} BY DEF IInv, TermsTracked
  <2>2. IsFiniteSet({termDone[n]}) /\ Cardinality({termDone[n]}) = 1
    BY FS_Singleton
  <2> QED BY <2>1, <2>2, FS_Subset
<1> QED BY <1>1, Invariance, PTL

\* All of it together, as the run checks it: leadership is safe for every set of
\* nodes and every lease life.
THEOREM Leadership == Spec => []LeadershipSafe
<1> QED BY TypeCorrect, LeaderExclusion, TermOrder, OpenJobsAreNewest, NoTermOverlap, PTL
        DEF LeadershipSafe

\* The lease row and the jobs' transactions implement the fenced log.
THEOREM Refinement == Spec => ImplementsFencedLog
<1>1. Init => FencedLogSpec!Init
  BY DEF Init, FencedLogSpec!Init
<1>2. IInv /\ [Next]_vars => [FencedLogSpec!Next]_<<lease.fence, log>>
  <2> SUFFICES ASSUME IInv, [Next]_vars
               PROVE  [FencedLogSpec!Next]_<<lease.fence, log>>
    OBVIOUS
  <2> USE DEF FencedLogSpec!Next, FencedLogSpec!NewTerm, FencedLogSpec!Write
  <2>1. CASE UNCHANGED vars BY <2>1 DEF vars
  <2>2. CASE Tick BY <2>2 DEF Tick
  <2>3. ASSUME NEW n \in Nodes, Heartbeat(n)
        PROVE  [FencedLogSpec!Next]_<<lease.fence, log>>
    <3>1. UNCHANGED log
      BY <2>3 DEF Heartbeat, ReadClock, ClockUnreachable, RenewHeld, RenewLost,
         AcquireSkipped, ConfirmHeld, ConfirmRefused, ConfirmFailed, ClaimHeld,
         ClaimAmbiguous, ClaimRefused, StartTerm, WonButStopping
    <3>2. lease'.fence = lease.fence \/ lease'.fence = lease.fence + 1
      BY <2>3 DEF Heartbeat, ReadClock, ClockUnreachable, RenewHeld, RenewLost,
         AcquireSkipped, ConfirmHeld, ConfirmRefused, ConfirmFailed, ClaimHeld,
         ClaimAmbiguous, ClaimRefused, StartTerm, WonButStopping, Renewed,
         Claimed, IInv, TypeOK
    <3> QED BY <3>1, <3>2
  <2>4. ASSUME NEW n \in Nodes, Lifecycle(n)
        PROVE  [FencedLogSpec!Next]_<<lease.fence, log>>
    BY <2>4 DEF Lifecycle, Boot, RequestStop, BeginStop, StopReleased,
         StopAbandoned, Crash, ProcessGone, Released, IInv, TypeOK
  <2>5. ASSUME NEW n \in Nodes, Jobs(n)
        PROVE  [FencedLogSpec!Next]_<<lease.fence, log>>
    <3>1. CASE JobCommit(n)
      BY <3>1, NoNodeAssumption DEF JobCommit, IInv, OpenJobIsNewestTerm,
         OwnerHasFence, NoJob
    <3>2. CASE JobRollback(n) BY <3>2 DEF JobRollback
    <3>3. ASSUME NEW f \in terms[n], JobBegin(n, f) \/ TermExit(n, f)
          PROVE  UNCHANGED <<lease.fence, log>>
      BY <3>3 DEF JobBegin, TermExit
    <3> QED BY <2>5, <3>1, <3>2, <3>3 DEF Jobs
  <2> QED BY <2>1, <2>2, <2>3, <2>4, <2>5 DEF Next
<1> QED BY <1>1, <1>2, Invariance, PTL
        DEF Spec, ImplementsFencedLog, FencedLogSpec!Spec
=============================================================================
