----------------------- MODULE ResourceGovernorProofs -----------------------
(***************************************************************************)
(* Theorems about ResourceGovernor for every set of calls and requests,    *)
(* every budget and every bypass limit.                                    *)
(***************************************************************************)
EXTENDS ResourceGovernor, FiniteSetTheorems, TLAPS

\* The groups of unchanged variables.
USE DEF vars, govVars, reqVars, leaseVars, timeVars, tokVars, callVars

-----------------------------------------------------------------------------
(* Type correctness.                                                       *)

\* A lease that is held has a live handle, so that dropping one leaves a
\* natural number.
HolderHasHandle == \A c \in Calls : pc[c] = "holding" => handles[c] >= 1

TypeInv == TypeOK /\ HolderHasHandle

\* A grant is a number of permits between one and the free ones.
LEMMA GrantForBounds ==
    ASSUME NEW r \in LeaseRequest, NEW n \in Nat
    PROVE  grant_for(r, n) \in Nat /\ grant_for(r, n) <= n
BY DEF grant_for, LeaseRequest

LEMMA AvailableIsNat ==
    ASSUME active_permits \in Nat
    PROVE  available_locked \in Nat
BY BudgetAssumption DEF available_locked

LEMMA NormaliseType ==
    ASSUME NEW r \in LeaseRequest
    PROVE  normalise(r) \in LeaseRequest
BY DEF normalise, LeaseRequest, Larger

LEMMA CountType ==
    ASSUME totals \in [Counters -> Nat], NEW k \in Counters, NEW n \in Nat,
           Count(k, n)
    PROVE  totals' \in [Counters -> Nat]
BY DEF Count

\* The calls are finitely many.
LEMMA SubsetOfCalls ==
    ASSUME NEW S, S \subseteq Calls
    PROVE  IsFiniteSet(S) /\ Cardinality(S) \in Nat
BY CallsAssumption, FS_Subset, FS_CardinalityType

LEMMA DefaultType == DefaultRequest \in LeaseRequest
BY DEF DefaultRequest, LeaseRequest, Policies

LEMMA TypeInit == Init => TypeInv
<1> SUFFICES ASSUME Init PROVE TypeInv
    OBVIOUS
<1>1. /\ shutting_down \in BOOLEAN
      /\ reservation_started \in [Calls -> BOOLEAN]
      /\ waited \in [Calls -> BOOLEAN]
      /\ aged \in [Calls -> BOOLEAN]
      /\ expired \in [Calls -> BOOLEAN]
      /\ subscribed \in [Tokens -> BOOLEAN]
  BY Zenon DEF Init
<1>2. cancel \in [Tokens -> {"no", "stored", "notified"}]
  BY Zenon DEF Init
<1> QED
  BY <1>1, <1>2, DefaultType
  DEF Init, TypeInv, TypeOK, HolderHasHandle, Statuses, Places, Locked,
      Asleep, Results

LEMMA TypeStep == TypeInv /\ [Next]_vars => TypeInv'
<1> SUFFICES ASSUME TypeInv, [Next]_vars PROVE TypeInv'
    OBVIOUS
<1> USE DEF TypeInv, TypeOK, HolderHasHandle, Statuses, Places, Locked, Asleep,
            Results, Goto, Return, NotifyAll, EraseRemoved, AfterPass
<1>1. ASSUME NEW c \in Calls, NEW r \in Requests, Acquire(c, r) PROVE TypeInv'
  <2>1. req' \in [Calls -> LeaseRequest]
    BY <1>1, NormaliseType, RequestsAssumption DEF Acquire
  <2>2. Verdict(normalise(r)) \in Results
    BY DEF Verdict
  <2> QED
    BY <1>1, <2>1, <2>2 DEF Acquire
<1>2. ASSUME NEW c \in Calls, Subscribe(c) PROVE TypeInv'
  BY <1>2 DEF Subscribe, LeaseRequest
<1>3. ASSUME NEW c \in Calls, EnterShutDown(c) PROVE TypeInv'
  BY <1>3 DEF EnterShutDown
<1>4. ASSUME NEW c \in Calls, Enter(c) PROVE TypeInv'
  BY <1>4 DEF Enter
<1>5. ASSUME NEW c \in Calls, Sweep(c) PROVE TypeInv'
  <2>1. Cardinality(CancelPending({d \in pending : cancellation_requested(d)})) \in Nat
    BY SubsetOfCalls DEF CancelPending
  <2>2. totals' \in [Counters -> Nat]
    BY <1>5, <2>1, CountType DEF Sweep, Counters
  <2> QED
    BY <1>5, <2>2 DEF Sweep
<1>6. ASSUME NEW c \in Calls, PassEnds(c) PROVE TypeInv'
  BY <1>6 DEF PassEnds
<1>7. ASSUME NEW c \in Calls, NEW d \in Calls, GrantOldest(c, d) PROVE TypeInv'
  <2>1. totals' \in [Counters -> Nat]
    BY <1>7, CountType DEF GrantOldest, Counters
  <2>2. grant_for(req[d], available_locked) \in Nat
    BY GrantForBounds, AvailableIsNat
  <2> QED
    BY <1>7, <2>1, <2>2 DEF GrantOldest, GrantOne, Larger
<1>8. ASSUME NEW c \in Calls, NEW d \in Calls, ReserveOldest(c, d) PROVE TypeInv'
  <2>1. totals' \in [Counters -> Nat]
    BY <1>8, CountType DEF ReserveOldest, Counters
  <2> QED
    BY <1>8, <2>1 DEF ReserveOldest
<1>9. ASSUME NEW c \in Calls, NEW d \in Calls, BeginScan(c, d) PROVE TypeInv'
  BY <1>9 DEF BeginScan
<1>10. ASSUME NEW c \in Calls, NEW d \in Calls, ScanCancels(c, d) PROVE TypeInv'
  <2>1. Cardinality(CancelPending({d})) \in Nat
    BY SubsetOfCalls DEF CancelPending
  <2>2. totals' \in [Counters -> Nat]
    BY <1>10, <2>1, CountType DEF ScanCancels, Counters
  <2> QED
    BY <1>10, <2>2 DEF ScanCancels
<1>11. ASSUME NEW c \in Calls, NEW d \in Calls, ScanSkips(c, d) PROVE TypeInv'
  BY <1>11 DEF ScanSkips
<1>12. ASSUME NEW c \in Calls, NEW d \in Calls, NEW o \in Calls, ScanGrants(c, d, o) PROVE TypeInv'
  <2>1. totals' \in [Counters -> Nat]
    BY <1>12 DEF ScanGrants, Counters
  <2>2. grant_for(req[d], available_locked) \in Nat
    BY GrantForBounds, AvailableIsNat
  <2> QED
    BY <1>12, <2>1, <2>2 DEF ScanGrants, GrantOne, Larger
<1>13. ASSUME NEW c \in Calls, ScanEnds(c) PROVE TypeInv'
  BY <1>13 DEF ScanEnds
<1>14. ASSUME NEW c \in Calls, AdmitCancelled(c) PROVE TypeInv'
  BY <1>14 DEF AdmitCancelled
<1>15. ASSUME NEW c \in Calls, AdmitWouldBlock(c) PROVE TypeInv'
  BY <1>15 DEF AdmitWouldBlock
<1>16. ASSUME NEW c \in Calls, AdmitWaits(c) PROVE TypeInv'
  <2>1. totals' \in [Counters -> Nat]
    BY <1>16, CountType DEF AdmitWaits, Counters
  <2> QED
    BY <1>16, <2>1 DEF AdmitWaits
<1>17. ASSUME NEW c \in Calls, ReturnGranted(c) PROVE TypeInv'
  BY <1>17 DEF ReturnGranted
<1>18. ASSUME NEW c \in Calls, CheckShutDown(c) PROVE TypeInv'
  BY <1>18 DEF CheckShutDown
<1>19. ASSUME NEW c \in Calls, CheckCancelled(c) PROVE TypeInv'
  <2>1. Cardinality(CancelPending({c})) \in Nat
    BY SubsetOfCalls DEF CancelPending
  <2>2. totals' \in [Counters -> Nat]
    BY <1>19, <2>1, CountType DEF CheckCancelled, Counters
  <2> QED
    BY <1>19, <2>2 DEF CheckCancelled
<1>20. ASSUME NEW c \in Calls, CheckDeadline(c) PROVE TypeInv'
  <2>1. totals' \in [Counters -> Nat]
    BY <1>20, CountType DEF CheckDeadline, Counters
  <2> QED
    BY <1>20, <2>1 DEF CheckDeadline
<1>21. ASSUME NEW c \in Calls, CheckPasses(c) PROVE TypeInv'
  BY <1>21 DEF CheckPasses
<1>22. ASSUME NEW c \in Calls, Park(c) PROVE TypeInv'
  BY <1>22 DEF Park
<1>23. ASSUME NEW c \in Calls, TimeoutWake(c) PROVE TypeInv'
  BY <1>23 DEF TimeoutWake
<1>24. ASSUME NEW c \in Calls, SpuriousWake(c) PROVE TypeInv'
  BY <1>24 DEF SpuriousWake
<1>25. ASSUME NEW c \in Calls, Relock(c) PROVE TypeInv'
  BY <1>25 DEF Relock
<1>26. ASSUME NEW c \in Calls, Inherit(c) PROVE TypeInv'
  BY <1>26 DEF Inherit
<1>27. ASSUME NEW c \in Calls, DropHandle(c) PROVE TypeInv'
  BY <1>27 DEF DropHandle
<1>28. ASSUME NEW c \in Calls, Release(c) PROVE TypeInv'
  <2>1. totals' \in [Counters -> Nat]
    BY <1>28, CountType DEF Release, Counters
  <2> QED
    BY <1>28, <2>1 DEF Release
<1>29. ASSUME NEW t \in Tokens, CancelStore(t) PROVE TypeInv'
  BY <1>29 DEF CancelStore
<1>30. ASSUME NEW t \in Tokens, CancelNotify(t) PROVE TypeInv'
  BY <1>30 DEF CancelNotify
<1>31. ASSUME RequestShutdown PROVE TypeInv'
  BY <1>31 DEF RequestShutdown
<1>32. ASSUME NEW c \in Calls, AgeOut(c) PROVE TypeInv'
  BY <1>32 DEF AgeOut
<1>33. ASSUME NEW c \in Calls, DeadlineExpires(c) PROVE TypeInv'
  BY <1>33 DEF DeadlineExpires
<1>34. CASE UNCHANGED vars
  BY <1>34
<1> QED
  BY <1>1, <1>2, <1>3, <1>4, <1>5, <1>6, <1>7, <1>8, <1>9, <1>10, <1>11, <1>12, <1>13, <1>14, <1>15, <1>16, <1>17, <1>18, <1>19, <1>20, <1>21, <1>22, <1>23, <1>24, <1>25, <1>26, <1>27, <1>28, <1>29, <1>30, <1>31, <1>32, <1>33, <1>34
  DEF Next, CallStep, LockedStep, LeaseStep, EnvironmentStep, Terminated

(***************************************************************************)
(* The governor's state stays well-typed; in particular no counter of      *)
(* permits, leases or handles ever goes below zero.                        *)
(***************************************************************************)
THEOREM TypeCorrect == Spec => []TypeOK
<1>1. TypeInv => TypeOK
  BY DEF TypeInv
<1> QED
  BY TypeInit, TypeStep, <1>1, PTL DEF Spec

-----------------------------------------------------------------------------
(* The life of a call: where its thread is, what became of its request and *)
(* what it has returned agree.                                             *)

\* The governor mutex excludes.
Locking == \A c \in Calls : pc[c] \in Locked <=> mutex = c

Lifecycle ==
    \A c \in Calls :
        /\ pc[c] \in {"idle", "subscribe", "enter"} =>
               /\ status[c] = "none" /\ result[c] = "none"
               /\ ~reservation_started[c]
        /\ pc[c] \in Locked \cup {"parked", "woken"} =>
               status[c] # "none" /\ result[c] = "none"
        /\ pc[c] \in {"holding", "releasing"} =>
               status[c] = "granted" /\ result[c] = "Granted"
        /\ pc[c] = "done" =>
               /\ status[c] # "queued" /\ result[c] # "none"
               /\ status[c] = "granted" <=> result[c] = "Granted"
        /\ pc[c] # "holding" => handles[c] = 0

\* The deque holds the queued requests and, until the next erase, requests the
\* scan has flagged as cancelled.
QueueMembers ==
    \A c \in Calls :
        /\ c \in pending => status[c] \in {"queued", "cancelled"}
        /\ status[c] = "queued" => c \in pending

\* The sweep leaves no flagged request for the rest of its pass to grant, and
\* the scan only flags requests it has gone past.
SweptQueue ==
    \A c \in Calls, d \in pending :
        /\ pc[c] = "oldest" => status[d] = "queued"
        /\ pc[c] = "scan" /\ sequence[d] > cursor[c] => status[d] = "queued"

LifeInv == Locking /\ Lifecycle /\ QueueMembers /\ SweptQueue

LEMMA LifeInit == Init => LifeInv
<1> SUFFICES ASSUME Init PROVE LifeInv
    OBVIOUS
<1>1. \A c \in Calls : ~reservation_started[c]
  BY Zenon DEF Init
<1> QED
  BY <1>1, CallsAssumption
  DEF Init, LifeInv, Locking, Lifecycle, QueueMembers, SweptQueue, Locked

LEMMA LifeStep == TypeInv /\ LifeInv /\ [Next]_vars => LifeInv'
<1> SUFFICES ASSUME TypeInv, LifeInv, [Next]_vars PROVE LifeInv'
    OBVIOUS
<1> USE CallsAssumption
    DEF TypeInv, TypeOK, HolderHasHandle, LifeInv, Locking, Lifecycle,
        QueueMembers, SweptQueue, Places, Locked, Asleep, Statuses, Results, Goto, Return,
        NotifyAll, EraseRemoved, AfterPass
<1>1. ASSUME NEW c \in Calls, NEW r \in Requests, Acquire(c, r) PROVE LifeInv'
  BY <1>1 DEF Acquire, Verdict
<1>2. ASSUME NEW c \in Calls, Subscribe(c) PROVE LifeInv'
  BY <1>2 DEF Subscribe
<1>3. ASSUME NEW c \in Calls, EnterShutDown(c) PROVE LifeInv'
  BY <1>3 DEF EnterShutDown
<1>4. ASSUME NEW c \in Calls, Enter(c) PROVE LifeInv'
  BY <1>4 DEF Enter
<1>5. ASSUME NEW c \in Calls, Sweep(c) PROVE LifeInv'
  BY <1>5 DEF Sweep, CancelPending
<1>6. ASSUME NEW c \in Calls, PassEnds(c) PROVE LifeInv'
  BY <1>6 DEF PassEnds
<1>7. ASSUME NEW c \in Calls, NEW d \in Calls, GrantOldest(c, d) PROVE LifeInv'
  BY <1>7 DEF GrantOldest, GrantOne, IsOldest
<1>8. ASSUME NEW c \in Calls, NEW d \in Calls, ReserveOldest(c, d) PROVE LifeInv'
  BY <1>8 DEF ReserveOldest, OldestBlocked, IsOldest
<1>9. ASSUME NEW c \in Calls, NEW d \in Calls, BeginScan(c, d) PROVE LifeInv'
  BY <1>9 DEF BeginScan
<1>10. ASSUME NEW c \in Calls, NEW d \in Calls, ScanCancels(c, d) PROVE LifeInv'
  BY <1>10 DEF ScanCancels, CancelPending, IsNext
<1>11. ASSUME NEW c \in Calls, NEW d \in Calls, ScanSkips(c, d) PROVE LifeInv'
  BY <1>11 DEF ScanSkips, IsNext
<1>12. ASSUME NEW c \in Calls, NEW d \in Calls, NEW o \in Calls, ScanGrants(c, d, o) PROVE LifeInv'
  BY <1>12 DEF ScanGrants, GrantOne, IsNext, IsOldest
<1>13. ASSUME NEW c \in Calls, ScanEnds(c) PROVE LifeInv'
  BY <1>13 DEF ScanEnds
<1>14. ASSUME NEW c \in Calls, AdmitCancelled(c) PROVE LifeInv'
  BY <1>14 DEF AdmitCancelled
<1>15. ASSUME NEW c \in Calls, AdmitWouldBlock(c) PROVE LifeInv'
  BY <1>15 DEF AdmitWouldBlock
<1>16. ASSUME NEW c \in Calls, AdmitWaits(c) PROVE LifeInv'
  BY <1>16 DEF AdmitWaits
<1>17. ASSUME NEW c \in Calls, ReturnGranted(c) PROVE LifeInv'
  BY <1>17 DEF ReturnGranted
<1>18. ASSUME NEW c \in Calls, CheckShutDown(c) PROVE LifeInv'
  BY <1>18 DEF CheckShutDown
<1>19. ASSUME NEW c \in Calls, CheckCancelled(c) PROVE LifeInv'
  BY <1>19 DEF CheckCancelled, CancelPending
<1>20. ASSUME NEW c \in Calls, CheckDeadline(c) PROVE LifeInv'
  BY <1>20 DEF CheckDeadline
<1>21. ASSUME NEW c \in Calls, CheckPasses(c) PROVE LifeInv'
  BY <1>21 DEF CheckPasses
<1>22. ASSUME NEW c \in Calls, Park(c) PROVE LifeInv'
  BY <1>22 DEF Park
<1>23. ASSUME NEW c \in Calls, TimeoutWake(c) PROVE LifeInv'
  BY <1>23 DEF TimeoutWake
<1>24. ASSUME NEW c \in Calls, SpuriousWake(c) PROVE LifeInv'
  BY <1>24 DEF SpuriousWake
<1>25. ASSUME NEW c \in Calls, Relock(c) PROVE LifeInv'
  BY <1>25 DEF Relock
<1>26. ASSUME NEW c \in Calls, Inherit(c) PROVE LifeInv'
  BY <1>26 DEF Inherit
<1>27. ASSUME NEW c \in Calls, DropHandle(c) PROVE LifeInv'
  BY <1>27 DEF DropHandle
<1>28. ASSUME NEW c \in Calls, Release(c) PROVE LifeInv'
  BY <1>28 DEF Release
<1>29. ASSUME NEW t \in Tokens, CancelStore(t) PROVE LifeInv'
  BY <1>29 DEF CancelStore
<1>30. ASSUME NEW t \in Tokens, CancelNotify(t) PROVE LifeInv'
  BY <1>30 DEF CancelNotify
<1>31. ASSUME RequestShutdown PROVE LifeInv'
  BY <1>31 DEF RequestShutdown
<1>32. ASSUME NEW c \in Calls, AgeOut(c) PROVE LifeInv'
  BY <1>32 DEF AgeOut
<1>33. ASSUME NEW c \in Calls, DeadlineExpires(c) PROVE LifeInv'
  BY <1>33 DEF DeadlineExpires
<1>34. CASE UNCHANGED vars
  BY <1>34
<1> QED
  BY <1>1, <1>2, <1>3, <1>4, <1>5, <1>6, <1>7, <1>8, <1>9, <1>10, <1>11, <1>12, <1>13, <1>14, <1>15, <1>16, <1>17, <1>18, <1>19, <1>20, <1>21, <1>22, <1>23, <1>24, <1>25, <1>26, <1>27, <1>28, <1>29, <1>30, <1>31, <1>32, <1>33, <1>34
  DEF Next, CallStep, LockedStep, LeaseStep, EnvironmentStep, Terminated

(***************************************************************************)
(* Every losing path of acquire (rejection, WouldBlock, deadline,          *)
(* cancellation, shutdown) leaves the call without permits, without a      *)
(* handle and without a request that could still be granted.               *)
(***************************************************************************)
THEOREM LosersProved == Spec => []LosersLeaveNothing
<1>1. TypeInv /\ LifeInv => LosersLeaveNothing
  BY DEF TypeInv, TypeOK, LifeInv, Locking, Lifecycle, QueueMembers,
         LosersLeaveNothing, Places, Locked, Asleep, Statuses
<1> QED
  BY TypeInit, TypeStep, LifeInit, LifeStep, <1>1, PTL DEF Spec

(***************************************************************************)
(* A grant is counted as long as any handle of its lease tree is alive.    *)
(***************************************************************************)
THEOREM HandlesProved == Spec => []PermitsOutliveHandles
<1>1. TypeInv /\ LifeInv => PermitsOutliveHandles
  BY DEF TypeInv, TypeOK, LifeInv, Lifecycle, PermitsOutliveHandles, Holds
<1> QED
  BY TypeInit, TypeStep, LifeInit, LifeStep, <1>1, PTL DEF Spec

-----------------------------------------------------------------------------
(* Permit accounting.                                                      *)

\* One client's permits, as pairs.
LEMMA PairsCount ==
    ASSUME NEW c, NEW n \in Nat
    PROVE  /\ IsFiniteSet({c} \X (1..n))
           /\ Cardinality({c} \X (1..n)) = n
<1>1. IsFiniteSet({c}) /\ Cardinality({c}) = 1
  BY FS_Singleton
<1>2. IsFiniteSet(1..n) /\ Cardinality(1..n) = n
  BY FS_Interval
<1>3. /\ IsFiniteSet({c} \X (1..n))
      /\ Cardinality({c} \X (1..n)) = Cardinality({c}) * Cardinality(1..n)
  BY <1>1, <1>2, FS_Product
<1> QED
  BY <1>1, <1>2, <1>3

\* Adding one client's permits to those of the others adds their number.
LEMMA PermitsAdd ==
    ASSUME NEW S, IsFiniteSet(S), NEW c, NEW n \in Nat,
           \A p \in S : p[1] # c
    PROVE  Cardinality(S \cup ({c} \X (1..n))) = Cardinality(S) + n
<1>1. S \cap ({c} \X (1..n)) = {}
  OBVIOUS
<1>2. Cardinality(S) \in Nat
  BY FS_CardinalityType
<1> DEFINE T == {c} \X (1..n)
<1>3. IsFiniteSet(T) /\ Cardinality(T) = n
  BY PairsCount
<1>4. Cardinality(S \cup T)
        = Cardinality(S) + Cardinality(T) - Cardinality(S \cap T)
  BY <1>3, FS_Union
<1>5. Cardinality(S \cap T) = 0
  BY <1>1, FS_EmptySet
<1> QED
  BY <1>2, <1>3, <1>4, <1>5

LEMMA HeldPermitsFinite == IsFiniteSet(HeldPermits)
<1>1. IsFiniteSet(1..cpu_budget)
  BY BudgetAssumption, FS_Interval
<1>2. IsFiniteSet(Calls \X (1..cpu_budget))
  BY <1>1, CallsAssumption, FS_Product
<1> QED
  BY <1>2, FS_Subset DEF HeldPermits

\* A grant lies within the budget, and the counter counts the permits held.
GrantsFit ==
    \A c \in Calls : status[c] = "granted" => granted_workers[c] <= cpu_budget

PermitInv == PermitConservation /\ BudgetRespected /\ GrantsFit

\* Steps that neither grant nor give back.
PermitFrame ==
    /\ \A c \in Calls : Holds(c)' <=> Holds(c)
    /\ \A c \in Calls : status[c]' = "granted" => status[c] = "granted"
    /\ UNCHANGED <<granted_workers, active_permits, maximum_active_permits>>

LEMMA PermitFrameKeeps == PermitInv /\ PermitFrame => PermitInv'
<1> SUFFICES ASSUME PermitInv, PermitFrame PROVE PermitInv'
    OBVIOUS
<1>1. HeldPermits' = HeldPermits
  BY DEF PermitFrame, HeldPermits
<1> QED
  BY <1>1 DEF PermitInv, PermitFrame, PermitConservation, BudgetRespected,
              GrantsFit

\* grant_one_locked with a grant that fits the free permits.
LEMMA PermitGrant ==
    ASSUME TypeInv, PermitInv, NEW c \in Calls, NEW d \in Calls,
           pc[c] \in Locked, pc[d] # "done", status[d] = "queued",
           NEW w \in Nat, w <= available_locked,
           GrantOne(c, d, w)
    PROVE  PermitInv'
<1> USE DEF TypeInv, TypeOK
<1>1. /\ active_permits + w <= cpu_budget
      /\ w <= cpu_budget
  BY BudgetAssumption DEF available_locked, PermitInv, BudgetRespected
<1>2. \A e \in Calls : Holds(e)' <=> Holds(e) \/ e = d
  BY DEF Holds, GrantOne, NotifyAll, Asleep, Locked
<1>3. HeldPermits' = HeldPermits \cup ({d} \X (1..w))
  <2>1. ASSUME NEW p \in Calls \X (1..cpu_budget)
        PROVE  (p \in HeldPermits') <=> (p \in HeldPermits \cup ({d} \X (1..w)))
    <3>1. CASE p[1] = d
      <4>1. p = <<d, p[2]>> /\ p[2] \in 1..cpu_budget
        BY <3>1
      <4>2. p \notin HeldPermits
        BY <3>1 DEF HeldPermits, Holds
      <4>3. granted_workers'[d] = w /\ Holds(d)'
        BY <1>2 DEF GrantOne
      <4>4. p \in HeldPermits' <=> p[2] <= w
        BY <3>1, <4>3 DEF HeldPermits
      <4> QED
        BY <4>1, <4>2, <4>4, BudgetAssumption
    <3>2. CASE p[1] # d
      BY <3>2, <1>2 DEF HeldPermits, GrantOne
    <3> QED
      BY <3>1, <3>2
  <2> QED
    BY <2>1, <1>1, BudgetAssumption DEF HeldPermits
<1>4. \A p \in HeldPermits : p[1] # d
  BY DEF HeldPermits, Holds
<1>5. Cardinality(HeldPermits') = Cardinality(HeldPermits) + w
  BY <1>3, <1>4, HeldPermitsFinite, PermitsAdd
<1>6. PermitConservation'
  BY <1>5 DEF PermitInv, PermitConservation, GrantOne
<1>7. BudgetRespected'
  BY <1>1, BudgetAssumption DEF PermitInv, BudgetRespected, GrantOne, Larger
<1>8. GrantsFit'
  BY <1>1 DEF PermitInv, GrantsFit, GrantOne
<1> QED
  BY <1>6, <1>7, <1>8 DEF PermitInv

\* ~LeaseControl takes away exactly what the grant had added.
LEMMA PermitRelease ==
    ASSUME TypeInv, LifeInv, PermitInv, NEW c \in Calls, Release(c)
    PROVE  PermitInv'
<1> USE DEF TypeInv, TypeOK
<1> DEFINE w == granted_workers[c]
<1>1. status[c] = "granted" /\ w <= cpu_budget
  BY DEF LifeInv, Lifecycle, Release, PermitInv, GrantsFit
<1>2. \A e \in Calls : Holds(e) <=> Holds(e)' \/ e = c
  BY <1>1 DEF Holds, Release, NotifyAll, Asleep
<1>3. ~Holds(c)'
  BY DEF Holds, Release, NotifyAll, Asleep
<1>4. HeldPermits = HeldPermits' \cup ({c} \X (1..w))
  <2>1. ASSUME NEW p \in Calls \X (1..cpu_budget)
        PROVE  (p \in HeldPermits) <=> (p \in HeldPermits' \cup ({c} \X (1..w)))
    BY <1>1, <1>2, <1>3, BudgetAssumption DEF HeldPermits, Release
  <2> QED
    BY <2>1, <1>1, BudgetAssumption DEF HeldPermits
<1>5. \A p \in HeldPermits' : p[1] # c
  BY <1>3 DEF HeldPermits
<1>6. IsFiniteSet(HeldPermits')
  <2>1. HeldPermits' \subseteq HeldPermits
    BY <1>4
  <2> QED
    BY <2>1, HeldPermitsFinite, FS_Subset
<1>7. Cardinality(HeldPermits) = Cardinality(HeldPermits') + w
  BY <1>4, <1>5, <1>6, PermitsAdd
<1>8. Cardinality(HeldPermits') \in Nat
  BY <1>6, FS_CardinalityType
<1>9. PermitConservation'
  BY <1>7, <1>8 DEF PermitInv, PermitConservation, Release
<1>10. BudgetRespected' /\ GrantsFit'
  BY DEF PermitInv, BudgetRespected, GrantsFit, Release
<1> QED
  BY <1>9, <1>10 DEF PermitInv

LEMMA PermitInit == Init => PermitInv
<1> SUFFICES ASSUME Init PROVE PermitInv
    OBVIOUS
<1>1. HeldPermits = {}
  BY DEF Init, HeldPermits, Holds
<1> QED
  BY <1>1, FS_EmptySet, BudgetAssumption
  DEF Init, PermitInv, PermitConservation, BudgetRespected, GrantsFit

LEMMA PermitStep == TypeInv /\ LifeInv /\ PermitInv /\ [Next]_vars => PermitInv'
<1> SUFFICES ASSUME TypeInv, LifeInv, PermitInv, [Next]_vars
             PROVE  PermitInv'
    OBVIOUS
<1> USE PermitFrameKeeps
    DEF TypeInv, TypeOK, LifeInv, Locking, Lifecycle, QueueMembers,
        PermitFrame, Holds, Places, Locked, Asleep, Statuses, Goto, Return,
        NotifyAll, AfterPass
<1>1. ASSUME NEW c \in Calls, NEW r \in Requests, Acquire(c, r) PROVE PermitInv'
  BY <1>1 DEF Acquire
<1>2. ASSUME NEW c \in Calls, Subscribe(c) PROVE PermitInv'
  BY <1>2 DEF Subscribe
<1>3. ASSUME NEW c \in Calls, EnterShutDown(c) PROVE PermitInv'
  BY <1>3 DEF EnterShutDown
<1>4. ASSUME NEW c \in Calls, Enter(c) PROVE PermitInv'
  BY <1>4 DEF Enter
<1>5. ASSUME NEW c \in Calls, Sweep(c) PROVE PermitInv'
  BY <1>5 DEF Sweep, CancelPending
<1>6. ASSUME NEW c \in Calls, PassEnds(c) PROVE PermitInv'
  BY <1>6 DEF PassEnds
<1>7. ASSUME NEW c \in Calls, NEW d \in Calls, GrantOldest(c, d) PROVE PermitInv'
  <2>1. d \in pending /\ status[d] = "queued" /\ pc[d] # "done"
    BY <1>7 DEF GrantOldest, IsOldest, SweptQueue
  <2>2. /\ grant_for(req[d], available_locked) \in Nat
        /\ grant_for(req[d], available_locked) <= available_locked
    BY GrantForBounds, AvailableIsNat
  <2>3. pc[c] \in Locked /\ GrantOne(c, d, grant_for(req[d], available_locked))
    BY <1>7 DEF GrantOldest
  <2> QED
    BY <2>1, <2>2, <2>3, PermitGrant
<1>8. ASSUME NEW c \in Calls, NEW d \in Calls, ReserveOldest(c, d) PROVE PermitInv'
  BY <1>8 DEF ReserveOldest
<1>9. ASSUME NEW c \in Calls, NEW d \in Calls, BeginScan(c, d) PROVE PermitInv'
  BY <1>9 DEF BeginScan
<1>10. ASSUME NEW c \in Calls, NEW d \in Calls, ScanCancels(c, d) PROVE PermitInv'
  BY <1>10 DEF ScanCancels, CancelPending
<1>11. ASSUME NEW c \in Calls, NEW d \in Calls, ScanSkips(c, d) PROVE PermitInv'
  BY <1>11 DEF ScanSkips
<1>12. ASSUME NEW c \in Calls, NEW d \in Calls, NEW o \in Calls, ScanGrants(c, d, o) PROVE PermitInv'
  <2>1. d \in pending /\ status[d] = "queued" /\ pc[d] # "done"
    BY <1>12 DEF ScanGrants, IsNext, SweptQueue
  <2>2. /\ grant_for(req[d], available_locked) \in Nat
        /\ grant_for(req[d], available_locked) <= available_locked
    BY GrantForBounds, AvailableIsNat
  <2>3. pc[c] \in Locked /\ GrantOne(c, d, grant_for(req[d], available_locked))
    BY <1>12 DEF ScanGrants
  <2> QED
    BY <2>1, <2>2, <2>3, PermitGrant
<1>13. ASSUME NEW c \in Calls, ScanEnds(c) PROVE PermitInv'
  BY <1>13 DEF ScanEnds
<1>14. ASSUME NEW c \in Calls, AdmitCancelled(c) PROVE PermitInv'
  BY <1>14 DEF AdmitCancelled
<1>15. ASSUME NEW c \in Calls, AdmitWouldBlock(c) PROVE PermitInv'
  BY <1>15 DEF AdmitWouldBlock
<1>16. ASSUME NEW c \in Calls, AdmitWaits(c) PROVE PermitInv'
  BY <1>16 DEF AdmitWaits
<1>17. ASSUME NEW c \in Calls, ReturnGranted(c) PROVE PermitInv'
  BY <1>17 DEF ReturnGranted
<1>18. ASSUME NEW c \in Calls, CheckShutDown(c) PROVE PermitInv'
  BY <1>18 DEF CheckShutDown
<1>19. ASSUME NEW c \in Calls, CheckCancelled(c) PROVE PermitInv'
  BY <1>19 DEF CheckCancelled, CancelPending
<1>20. ASSUME NEW c \in Calls, CheckDeadline(c) PROVE PermitInv'
  BY <1>20 DEF CheckDeadline
<1>21. ASSUME NEW c \in Calls, CheckPasses(c) PROVE PermitInv'
  BY <1>21 DEF CheckPasses
<1>22. ASSUME NEW c \in Calls, Park(c) PROVE PermitInv'
  BY <1>22 DEF Park
<1>23. ASSUME NEW c \in Calls, TimeoutWake(c) PROVE PermitInv'
  BY <1>23 DEF TimeoutWake
<1>24. ASSUME NEW c \in Calls, SpuriousWake(c) PROVE PermitInv'
  BY <1>24 DEF SpuriousWake
<1>25. ASSUME NEW c \in Calls, Relock(c) PROVE PermitInv'
  BY <1>25 DEF Relock
<1>26. ASSUME NEW c \in Calls, Inherit(c) PROVE PermitInv'
  BY <1>26 DEF Inherit
<1>27. ASSUME NEW c \in Calls, DropHandle(c) PROVE PermitInv'
  BY <1>27 DEF DropHandle
<1>28. ASSUME NEW c \in Calls, Release(c) PROVE PermitInv'
  BY <1>28, PermitRelease
<1>29. ASSUME NEW t \in Tokens, CancelStore(t) PROVE PermitInv'
  BY <1>29 DEF CancelStore
<1>30. ASSUME NEW t \in Tokens, CancelNotify(t) PROVE PermitInv'
  BY <1>30 DEF CancelNotify
<1>31. ASSUME RequestShutdown PROVE PermitInv'
  BY <1>31 DEF RequestShutdown
<1>32. ASSUME NEW c \in Calls, AgeOut(c) PROVE PermitInv'
  BY <1>32 DEF AgeOut
<1>33. ASSUME NEW c \in Calls, DeadlineExpires(c) PROVE PermitInv'
  BY <1>33 DEF DeadlineExpires
<1>34. CASE UNCHANGED vars
  BY <1>34
<1> QED
  BY <1>1, <1>2, <1>3, <1>4, <1>5, <1>6, <1>7, <1>8, <1>9, <1>10, <1>11, <1>12, <1>13, <1>14, <1>15, <1>16, <1>17, <1>18, <1>19, <1>20, <1>21, <1>22, <1>23, <1>24, <1>25, <1>26, <1>27, <1>28, <1>29, <1>30, <1>31, <1>32, <1>33, <1>34
  DEF Next, CallStep, LockedStep, LeaseStep, EnvironmentStep, Terminated

(***************************************************************************)
(* The permit counter equals, in every reachable state, the number of      *)
(* permits of the leases that are still alive: none is lost and none is    *)
(* returned twice, whatever grant, cancellation, deadline, shutdown and    *)
(* release do to each other.                                               *)
(***************************************************************************)
THEOREM ConservationProved == Spec => []PermitConservation
<1>1. PermitInv => PermitConservation
  BY DEF PermitInv
<1> QED
  BY TypeInit, TypeStep, LifeInit, LifeStep, PermitInit, PermitStep, <1>1, PTL
  DEF Spec

(***************************************************************************)
(* The governor never hands out more permits than its budget.              *)
(***************************************************************************)
THEOREM BudgetProved == Spec => []BudgetRespected
<1>1. PermitInv => BudgetRespected
  BY DEF PermitInv
<1> QED
  BY TypeInit, TypeStep, LifeInit, LifeStep, PermitInit, PermitStep, <1>1, PTL
  DEF Spec

-----------------------------------------------------------------------------
(* Fairness of the queue.                                                  *)

\* The deque's order is total and new requests go to its end.
Ordered ==
    /\ \A c \in Calls : sequence[c] < next_sequence
    /\ \A c, d \in pending : c # d => sequence[c] # sequence[d]

\* Capacity is only reserved for the request at the front.
ReservedIsOldest ==
    \A o \in Calls : reservation_started[o] /\ status[o] = "queued" => IsOldest(o)

\* A scan only runs over an unreserved front, and what it has gone past and not
\* cancelled does not fit.
ScanJustified ==
    \A c \in Calls : pc[c] = "scan" =>
        /\ \A o \in Calls : IsOldest(o) =>
               /\ bypass_count[o] < BypassLimit
               /\ ~reservation_started[o]
               /\ sequence[o] <= cursor[c]
        /\ \A d \in pending : sequence[d] <= cursor[c] /\ status[d] = "queued"
               => grant_for(req[d], available_locked) = 0

QueueInv == Ordered /\ ReservedIsOldest /\ ScanJustified /\ BypassBounded

LEMMA BypassLimitType == BypassLimit \in Nat \ {0}
BY BypassAssumption DEF BypassLimit

\* The front is the only request as old as the front.
LEMMA OldestIsUnique ==
    ASSUME pending \subseteq Calls, sequence \in [Calls -> Nat], Ordered,
           NEW d \in Calls, IsOldest(d),
           NEW p \in pending, sequence[p] <= sequence[d]
    PROVE  p = d
<1>1. sequence[p] \in Nat /\ sequence[d] \in Nat /\ d \in pending
  BY DEF IsOldest
<1>2. sequence[d] <= sequence[p]
  BY DEF IsOldest
<1>3. sequence[p] = sequence[d]
  BY <1>1, <1>2
<1> QED
  BY <1>1, <1>3 DEF Ordered

\* The scan misses nobody between two candidates.
LEMMA NextMissesNobody ==
    ASSUME pending \subseteq Calls, sequence \in [Calls -> Nat], Ordered,
           NEW k \in Nat, NEW d \in Calls, IsNext(d, k),
           NEW p \in pending, sequence[p] <= sequence[d], p # d
    PROVE  sequence[p] <= k
<1>1. sequence[p] \in Nat /\ sequence[d] \in Nat /\ d \in pending
  BY DEF IsNext
<1>2. sequence[p] # sequence[d]
  BY <1>1 DEF Ordered
<1>3. sequence[p] > k => sequence[d] <= sequence[p]
  BY DEF IsNext
<1> QED
  BY <1>1, <1>2, <1>3

LEMMA QueueInit == Init => QueueInv
<1> SUFFICES ASSUME Init PROVE QueueInv
    OBVIOUS
<1>1. \A c \in Calls : ~reservation_started[c]
  BY Zenon DEF Init
<1> QED
  BY <1>1, BypassLimitType
  DEF Init, QueueInv, Ordered, ReservedIsOldest, ScanJustified, BypassBounded

LEMMA QueueStep == TypeInv /\ LifeInv /\ QueueInv /\ [Next]_vars => QueueInv'
<1> SUFFICES ASSUME TypeInv, LifeInv, QueueInv, [Next]_vars
             PROVE  QueueInv'
    OBVIOUS
<1> USE CallsAssumption, BypassLimitType
    DEF TypeInv, TypeOK, LifeInv, Locking, Lifecycle, QueueMembers, SweptQueue,
        QueueInv, Ordered, ReservedIsOldest, ScanJustified, BypassBounded,
        IsOldest, Places, Locked, Asleep, Statuses, Goto, Return, NotifyAll,
        EraseRemoved, AfterPass, available_locked
<1>1. ASSUME NEW c \in Calls, NEW r \in Requests, Acquire(c, r) PROVE QueueInv'
  BY <1>1 DEF Acquire
<1>2. ASSUME NEW c \in Calls, Subscribe(c) PROVE QueueInv'
  BY <1>2 DEF Subscribe
<1>3. ASSUME NEW c \in Calls, EnterShutDown(c) PROVE QueueInv'
  BY <1>3 DEF EnterShutDown
<1>4. ASSUME NEW c \in Calls, Enter(c) PROVE QueueInv'
  BY <1>4 DEF Enter
<1>5. ASSUME NEW c \in Calls, Sweep(c) PROVE QueueInv'
  BY <1>5 DEF Sweep, CancelPending
<1>6. ASSUME NEW c \in Calls, PassEnds(c) PROVE QueueInv'
  BY <1>6 DEF PassEnds
<1>7. ASSUME NEW c \in Calls, NEW d \in Calls, GrantOldest(c, d) PROVE QueueInv'
  BY <1>7 DEF GrantOldest, GrantOne
<1>8. ASSUME NEW c \in Calls, NEW d \in Calls, ReserveOldest(c, d) PROVE QueueInv'
  BY <1>8 DEF ReserveOldest, OldestBlocked
<1>9. ASSUME NEW c \in Calls, NEW d \in Calls, BeginScan(c, d) PROVE QueueInv'
  <2>1. \A e \in Calls : pc'[e] = "scan" => e = c
    BY <1>9 DEF BeginScan
  <2>2. Ordered' /\ ReservedIsOldest' /\ BypassBounded'
    BY <1>9 DEF BeginScan, OldestBlocked
  <2>3. ASSUME NEW p \in pending, sequence[p] <= sequence[d] PROVE p = d
    BY <1>9, <2>3, OldestIsUnique DEF BeginScan, OldestBlocked
  <2>4. /\ bypass_count[d] < BypassLimit /\ ~reservation_started[d]
        /\ grant_for(req[d], available_locked) = 0
    BY <1>9 DEF BeginScan, OldestBlocked, MustReserve
  <2>5. ScanJustified'
    BY <1>9, <2>1, <2>3, <2>4 DEF BeginScan, OldestBlocked
  <2> QED
    BY <2>2, <2>5
<1>10. ASSUME NEW c \in Calls, NEW d \in Calls, ScanCancels(c, d) PROVE QueueInv'
  <2>1. \A e \in Calls : pc'[e] = "scan" => e = c
    BY <1>10 DEF ScanCancels
  <2>2. Ordered' /\ ReservedIsOldest' /\ BypassBounded'
    BY <1>10 DEF ScanCancels, CancelPending, IsNext
  <2>3. ASSUME NEW p \in pending, sequence[p] <= sequence[d], p # d
        PROVE  sequence[p] <= cursor[c]
    BY <1>10, <2>3, NextMissesNobody DEF ScanCancels
  <2>4. status'[d] # "queued" /\ \A p \in Calls : p # d => status'[p] = status[p]
    BY <1>10 DEF ScanCancels, CancelPending
  <2>5. ScanJustified'
    BY <1>10, <2>1, <2>3, <2>4 DEF ScanCancels, IsNext
  <2> QED
    BY <2>2, <2>5
<1>11. ASSUME NEW c \in Calls, NEW d \in Calls, ScanSkips(c, d) PROVE QueueInv'
  <2>1. \A e \in Calls : pc'[e] = "scan" => e = c
    BY <1>11 DEF ScanSkips
  <2>2. Ordered' /\ ReservedIsOldest' /\ BypassBounded'
    BY <1>11 DEF ScanSkips, IsNext
  <2>3. ASSUME NEW p \in pending, sequence[p] <= sequence[d], p # d
        PROVE  sequence[p] <= cursor[c]
    BY <1>11, <2>3, NextMissesNobody DEF ScanSkips
  <2>4. grant_for(req[d], available_locked) = 0
    BY <1>11 DEF ScanSkips
  <2>5. ScanJustified'
    BY <1>11, <2>1, <2>3, <2>4 DEF ScanSkips, IsNext
  <2> QED
    BY <2>2, <2>5
<1>12. ASSUME NEW c \in Calls, NEW d \in Calls, NEW o \in Calls, ScanGrants(c, d, o) PROVE QueueInv'
  BY <1>12 DEF ScanGrants, GrantOne, IsNext
<1>13. ASSUME NEW c \in Calls, ScanEnds(c) PROVE QueueInv'
  BY <1>13 DEF ScanEnds
<1>14. ASSUME NEW c \in Calls, AdmitCancelled(c) PROVE QueueInv'
  BY <1>14 DEF AdmitCancelled
<1>15. ASSUME NEW c \in Calls, AdmitWouldBlock(c) PROVE QueueInv'
  BY <1>15 DEF AdmitWouldBlock
<1>16. ASSUME NEW c \in Calls, AdmitWaits(c) PROVE QueueInv'
  BY <1>16 DEF AdmitWaits
<1>17. ASSUME NEW c \in Calls, ReturnGranted(c) PROVE QueueInv'
  BY <1>17 DEF ReturnGranted
<1>18. ASSUME NEW c \in Calls, CheckShutDown(c) PROVE QueueInv'
  BY <1>18 DEF CheckShutDown
<1>19. ASSUME NEW c \in Calls, CheckCancelled(c) PROVE QueueInv'
  BY <1>19 DEF CheckCancelled, CancelPending
<1>20. ASSUME NEW c \in Calls, CheckDeadline(c) PROVE QueueInv'
  BY <1>20 DEF CheckDeadline
<1>21. ASSUME NEW c \in Calls, CheckPasses(c) PROVE QueueInv'
  BY <1>21 DEF CheckPasses
<1>22. ASSUME NEW c \in Calls, Park(c) PROVE QueueInv'
  BY <1>22 DEF Park
<1>23. ASSUME NEW c \in Calls, TimeoutWake(c) PROVE QueueInv'
  BY <1>23 DEF TimeoutWake
<1>24. ASSUME NEW c \in Calls, SpuriousWake(c) PROVE QueueInv'
  BY <1>24 DEF SpuriousWake
<1>25. ASSUME NEW c \in Calls, Relock(c) PROVE QueueInv'
  BY <1>25 DEF Relock
<1>26. ASSUME NEW c \in Calls, Inherit(c) PROVE QueueInv'
  BY <1>26 DEF Inherit
<1>27. ASSUME NEW c \in Calls, DropHandle(c) PROVE QueueInv'
  BY <1>27 DEF DropHandle
<1>28. ASSUME NEW c \in Calls, Release(c) PROVE QueueInv'
  BY <1>28 DEF Release
<1>29. ASSUME NEW t \in Tokens, CancelStore(t) PROVE QueueInv'
  BY <1>29 DEF CancelStore
<1>30. ASSUME NEW t \in Tokens, CancelNotify(t) PROVE QueueInv'
  BY <1>30 DEF CancelNotify
<1>31. ASSUME RequestShutdown PROVE QueueInv'
  BY <1>31 DEF RequestShutdown
<1>32. ASSUME NEW c \in Calls, AgeOut(c) PROVE QueueInv'
  BY <1>32 DEF AgeOut
<1>33. ASSUME NEW c \in Calls, DeadlineExpires(c) PROVE QueueInv'
  BY <1>33 DEF DeadlineExpires
<1>34. CASE UNCHANGED vars
  BY <1>34
<1> QED
  BY <1>1, <1>2, <1>3, <1>4, <1>5, <1>6, <1>7, <1>8, <1>9, <1>10, <1>11, <1>12, <1>13, <1>14, <1>15, <1>16, <1>17, <1>18, <1>19, <1>20, <1>21, <1>22, <1>23, <1>24, <1>25, <1>26, <1>27, <1>28, <1>29, <1>30, <1>31, <1>32, <1>33, <1>34
  DEF Next, CallStep, LockedStep, LeaseStep, EnvironmentStep, Terminated

(***************************************************************************)
(* No request is ever bypassed more often than the bypass limit.           *)
(***************************************************************************)
THEOREM BypassProved == Spec => []BypassBounded
<1>1. QueueInv => BypassBounded
  BY DEF QueueInv
<1> QED
  BY TypeInit, TypeStep, LifeInit, LifeStep, QueueInit, QueueStep, <1>1, PTL
  DEF Spec

\* Only the two granting steps of a pass grant.
PassGrants(d) ==
    \E c \in Calls : GrantOldest(c, d) \/ \E o \in Calls : ScanGrants(c, d, o)

LEMMA OnlyPassGrants ==
    ASSUME TypeInv, [Next]_vars, NEW g \in Calls, GrantStep(g)
    PROVE  PassGrants(g)
<1> USE DEF TypeInv, TypeOK, GrantStep, Statuses
<1>1. ASSUME NEW c \in Calls, NEW r \in Requests, Acquire(c, r) PROVE PassGrants(g)
  BY <1>1 DEF Acquire
<1>2. ASSUME NEW c \in Calls, Subscribe(c) PROVE PassGrants(g)
  BY <1>2 DEF Subscribe
<1>3. ASSUME NEW c \in Calls, EnterShutDown(c) PROVE PassGrants(g)
  BY <1>3 DEF EnterShutDown
<1>4. ASSUME NEW c \in Calls, Enter(c) PROVE PassGrants(g)
  BY <1>4 DEF Enter
<1>5. ASSUME NEW c \in Calls, Sweep(c) PROVE PassGrants(g)
  BY <1>5 DEF Sweep, CancelPending
<1>6. ASSUME NEW c \in Calls, PassEnds(c) PROVE PassGrants(g)
  BY <1>6 DEF PassEnds
<1>7. ASSUME NEW c \in Calls, NEW d \in Calls, GrantOldest(c, d) PROVE PassGrants(g)
  <2>1. g = d
    BY <1>7 DEF GrantOldest, GrantOne
  <2> QED
    BY <1>7, <2>1 DEF PassGrants
<1>8. ASSUME NEW c \in Calls, NEW d \in Calls, ReserveOldest(c, d) PROVE PassGrants(g)
  BY <1>8 DEF ReserveOldest
<1>9. ASSUME NEW c \in Calls, NEW d \in Calls, BeginScan(c, d) PROVE PassGrants(g)
  BY <1>9 DEF BeginScan
<1>10. ASSUME NEW c \in Calls, NEW d \in Calls, ScanCancels(c, d) PROVE PassGrants(g)
  BY <1>10 DEF ScanCancels, CancelPending
<1>11. ASSUME NEW c \in Calls, NEW d \in Calls, ScanSkips(c, d) PROVE PassGrants(g)
  BY <1>11 DEF ScanSkips
<1>12. ASSUME NEW c \in Calls, NEW d \in Calls, NEW o \in Calls, ScanGrants(c, d, o) PROVE PassGrants(g)
  <2>1. g = d
    BY <1>12 DEF ScanGrants, GrantOne
  <2> QED
    BY <1>12, <2>1 DEF PassGrants
<1>13. ASSUME NEW c \in Calls, ScanEnds(c) PROVE PassGrants(g)
  BY <1>13 DEF ScanEnds
<1>14. ASSUME NEW c \in Calls, AdmitCancelled(c) PROVE PassGrants(g)
  BY <1>14 DEF AdmitCancelled
<1>15. ASSUME NEW c \in Calls, AdmitWouldBlock(c) PROVE PassGrants(g)
  BY <1>15 DEF AdmitWouldBlock
<1>16. ASSUME NEW c \in Calls, AdmitWaits(c) PROVE PassGrants(g)
  BY <1>16 DEF AdmitWaits
<1>17. ASSUME NEW c \in Calls, ReturnGranted(c) PROVE PassGrants(g)
  BY <1>17 DEF ReturnGranted
<1>18. ASSUME NEW c \in Calls, CheckShutDown(c) PROVE PassGrants(g)
  BY <1>18 DEF CheckShutDown
<1>19. ASSUME NEW c \in Calls, CheckCancelled(c) PROVE PassGrants(g)
  BY <1>19 DEF CheckCancelled, CancelPending
<1>20. ASSUME NEW c \in Calls, CheckDeadline(c) PROVE PassGrants(g)
  BY <1>20 DEF CheckDeadline
<1>21. ASSUME NEW c \in Calls, CheckPasses(c) PROVE PassGrants(g)
  BY <1>21 DEF CheckPasses
<1>22. ASSUME NEW c \in Calls, Park(c) PROVE PassGrants(g)
  BY <1>22 DEF Park
<1>23. ASSUME NEW c \in Calls, TimeoutWake(c) PROVE PassGrants(g)
  BY <1>23 DEF TimeoutWake
<1>24. ASSUME NEW c \in Calls, SpuriousWake(c) PROVE PassGrants(g)
  BY <1>24 DEF SpuriousWake
<1>25. ASSUME NEW c \in Calls, Relock(c) PROVE PassGrants(g)
  BY <1>25 DEF Relock
<1>26. ASSUME NEW c \in Calls, Inherit(c) PROVE PassGrants(g)
  BY <1>26 DEF Inherit
<1>27. ASSUME NEW c \in Calls, DropHandle(c) PROVE PassGrants(g)
  BY <1>27 DEF DropHandle
<1>28. ASSUME NEW c \in Calls, Release(c) PROVE PassGrants(g)
  BY <1>28 DEF Release
<1>29. ASSUME NEW t \in Tokens, CancelStore(t) PROVE PassGrants(g)
  BY <1>29 DEF CancelStore
<1>30. ASSUME NEW t \in Tokens, CancelNotify(t) PROVE PassGrants(g)
  BY <1>30 DEF CancelNotify
<1>31. ASSUME RequestShutdown PROVE PassGrants(g)
  BY <1>31 DEF RequestShutdown
<1>32. ASSUME NEW c \in Calls, AgeOut(c) PROVE PassGrants(g)
  BY <1>32 DEF AgeOut
<1>33. ASSUME NEW c \in Calls, DeadlineExpires(c) PROVE PassGrants(g)
  BY <1>33 DEF DeadlineExpires
<1>34. CASE UNCHANGED vars
  BY <1>34
<1> QED
  BY <1>1, <1>2, <1>3, <1>4, <1>5, <1>6, <1>7, <1>8, <1>9, <1>10, <1>11, <1>12, <1>13, <1>14, <1>15, <1>16, <1>17, <1>18, <1>19, <1>20, <1>21, <1>22, <1>23, <1>24, <1>25, <1>26, <1>27, <1>28, <1>29, <1>30, <1>31, <1>32, <1>33, <1>34
  DEF Next, CallStep, LockedStep, LeaseStep, EnvironmentStep, Terminated

\* What a granting step knows about the requests it overtakes.
LEMMA OvertakenAreBlocked ==
    ASSUME TypeInv, LifeInv, QueueInv, NEW d \in Calls, PassGrants(d),
           NEW o \in Calls, Older(o, d)
    PROVE  /\ ~reservation_started[o]
           /\ grant_for(req[o], available_locked) = 0
<1> USE DEF TypeInv, TypeOK
<1>1. ASSUME NEW c \in Calls, GrantOldest(c, d) PROVE FALSE
  BY <1>1 DEF GrantOldest, IsOldest, Older
<1>2. ASSUME NEW c \in Calls, NEW f \in Calls, ScanGrants(c, d, f)
      PROVE  /\ ~reservation_started[o]
             /\ grant_for(req[o], available_locked) = 0
  <2>1. pc[c] = "scan" /\ IsNext(d, cursor[c]) /\ IsOldest(f)
    BY <1>2 DEF ScanGrants
  <2>2. o \in pending /\ status[o] = "queued" /\ sequence[o] < sequence[d]
    BY DEF Older
  <2>3. sequence[o] <= cursor[c]
    BY <2>1, <2>2 DEF IsNext
  <2>4. grant_for(req[o], available_locked) = 0
    BY <2>1, <2>2, <2>3 DEF QueueInv, ScanJustified
  <2>5. ~reservation_started[o]
    BY <2>1, <2>2 DEF QueueInv, ReservedIsOldest, ScanJustified
  <2> QED
    BY <2>4, <2>5
<1> QED
  BY <1>1, <1>2 DEF PassGrants

(***************************************************************************)
(* Once capacity is reserved for a request, no younger request is granted  *)
(* before it leaves the queue.                                             *)
(***************************************************************************)
THEOREM ReservationProved == Spec => ReservationProtected
<1>1. TypeInv /\ LifeInv /\ QueueInv /\ [Next]_vars
        => [\A d, o \in Calls :
              GrantStep(d) /\ Older(o, d) => ~reservation_started[o]]_vars
  BY OnlyPassGrants, OvertakenAreBlocked
<1> QED
  BY TypeInit, TypeStep, LifeInit, LifeStep, QueueInit, QueueStep, <1>1, PTL
  DEF Spec, ReservationProtected

(***************************************************************************)
(* First in, first out except past requests that do not fit: a grant never *)
(* overtakes an older request that the free permits could have served.     *)
(***************************************************************************)
THEOREM OvertakingProved == Spec => OnlyBlockedAreOvertaken
<1>1. TypeInv /\ LifeInv /\ QueueInv /\ [Next]_vars
        => [\A d, o \in Calls :
              GrantStep(d) /\ Older(o, d)
                  => grant_for(req[o], available_locked) = 0]_vars
  BY OnlyPassGrants, OvertakenAreBlocked
<1> QED
  BY TypeInit, TypeStep, LifeInit, LifeStep, QueueInit, QueueStep, <1>1, PTL
  DEF Spec, OnlyBlockedAreOvertaken

-----------------------------------------------------------------------------
(***************************************************************************)
(* The governor is a permit pool: what a caller of acquire is promised.    *)
(***************************************************************************)
-----------------------------------------------------------------------------
(* Requests that passed the early returns of acquire.                      *)

\* A normalised request without any reason to be turned away at once.
Acceptable(q) ==
    /\ q \in {normalise(r) : r \in Requests}
    /\ ~invalid_range(q) /\ ~invalid_exact(q) /\ ~impossible(q)

\* Beyond the early returns acquire only works on acceptable requests.
Accepted ==
    \A c \in Calls :
        pc[c] \notin {"idle", "done"} \/ status[c] # "none"
            => Acceptable(req[c])

\* Steps that hand no request in and advance nobody past the early returns.
AcceptFrame ==
    /\ req' = req
    /\ \A c \in Calls :
           pc'[c] \notin {"idle", "done"} \/ status'[c] # "none"
               => pc[c] \notin {"idle", "done"} \/ status[c] # "none"

LEMMA AcceptFrameKeeps == Accepted /\ AcceptFrame => Accepted'
BY DEF Accepted, AcceptFrame, Acceptable, invalid_range, invalid_exact, impossible

LEMMA AcceptInit == Init => Accepted
BY DEF Init, Accepted

LEMMA AcceptStep == TypeInv /\ LifeInv /\ Accepted /\ [Next]_vars => Accepted'
<1> SUFFICES ASSUME TypeInv, LifeInv, Accepted, [Next]_vars PROVE Accepted'
    OBVIOUS
<1> USE AcceptFrameKeeps
    DEF TypeInv, TypeOK, LifeInv, Locking, Lifecycle, QueueMembers, AcceptFrame,
        Places, Locked, Asleep, Statuses, Goto, Return, NotifyAll, AfterPass

<1>1. ASSUME NEW c \in Calls, NEW r \in Requests, Acquire(c, r)
      PROVE  Accepted'
  <2>1. Verdict(normalise(r)) = "none" => Acceptable(normalise(r))
    BY DEF Verdict, Acceptable
  <2>2. pc'[c] # "done" => Acceptable(req'[c])
    BY <1>1, <2>1 DEF Acquire
  <2>3. \A d \in Calls : d # c => UNCHANGED <<req[d], pc[d], status[d]>>
    BY <1>1 DEF Acquire
  <2>4. status'[c] = "none"
    BY <1>1 DEF Acquire
  <2> QED
    BY <2>2, <2>3, <2>4 DEF Accepted
<1>2. ASSUME NEW c \in Calls, Subscribe(c) PROVE Accepted'
  BY <1>2 DEF Subscribe
<1>3. ASSUME NEW c \in Calls, EnterShutDown(c) PROVE Accepted'
  BY <1>3 DEF EnterShutDown
<1>4. ASSUME NEW c \in Calls, Enter(c) PROVE Accepted'
  BY <1>4 DEF Enter
<1>5. ASSUME NEW c \in Calls, Sweep(c) PROVE Accepted'
  BY <1>5 DEF Sweep, CancelPending
<1>6. ASSUME NEW c \in Calls, PassEnds(c) PROVE Accepted'
  BY <1>6 DEF PassEnds
<1>7. ASSUME NEW c \in Calls, NEW d \in Calls, GrantOldest(c, d)
      PROVE  Accepted'
  BY <1>7 DEF GrantOldest, GrantOne, IsOldest
<1>8. ASSUME NEW c \in Calls, NEW d \in Calls, ReserveOldest(c, d)
      PROVE  Accepted'
  BY <1>8 DEF ReserveOldest
<1>9. ASSUME NEW c \in Calls, NEW d \in Calls, BeginScan(c, d) PROVE Accepted'
  BY <1>9 DEF BeginScan
<1>10. ASSUME NEW c \in Calls, NEW d \in Calls, ScanCancels(c, d)
      PROVE  Accepted'
  BY <1>10 DEF ScanCancels, CancelPending
<1>11. ASSUME NEW c \in Calls, NEW d \in Calls, ScanSkips(c, d)
      PROVE  Accepted'
  BY <1>11 DEF ScanSkips
<1>12. ASSUME NEW c \in Calls, NEW d \in Calls, NEW o \in Calls, ScanGrants(c, d, o)
      PROVE  Accepted'
  BY <1>12 DEF ScanGrants, GrantOne, IsNext
<1>13. ASSUME NEW c \in Calls, ScanEnds(c) PROVE Accepted'
  BY <1>13 DEF ScanEnds
<1>14. ASSUME NEW c \in Calls, AdmitCancelled(c) PROVE Accepted'
  BY <1>14 DEF AdmitCancelled
<1>15. ASSUME NEW c \in Calls, AdmitWouldBlock(c) PROVE Accepted'
  BY <1>15 DEF AdmitWouldBlock
<1>16. ASSUME NEW c \in Calls, AdmitWaits(c) PROVE Accepted'
  BY <1>16 DEF AdmitWaits
<1>17. ASSUME NEW c \in Calls, ReturnGranted(c) PROVE Accepted'
  BY <1>17 DEF ReturnGranted
<1>18. ASSUME NEW c \in Calls, CheckShutDown(c) PROVE Accepted'
  BY <1>18 DEF CheckShutDown
<1>19. ASSUME NEW c \in Calls, CheckCancelled(c) PROVE Accepted'
  BY <1>19 DEF CheckCancelled, CancelPending
<1>20. ASSUME NEW c \in Calls, CheckDeadline(c) PROVE Accepted'
  BY <1>20 DEF CheckDeadline
<1>21. ASSUME NEW c \in Calls, CheckPasses(c) PROVE Accepted'
  BY <1>21 DEF CheckPasses
<1>22. ASSUME NEW c \in Calls, Park(c) PROVE Accepted'
  BY <1>22 DEF Park
<1>23. ASSUME NEW c \in Calls, TimeoutWake(c) PROVE Accepted'
  BY <1>23 DEF TimeoutWake
<1>24. ASSUME NEW c \in Calls, SpuriousWake(c) PROVE Accepted'
  BY <1>24 DEF SpuriousWake
<1>25. ASSUME NEW c \in Calls, Relock(c) PROVE Accepted'
  BY <1>25 DEF Relock
<1>26. ASSUME NEW c \in Calls, Inherit(c) PROVE Accepted'
  BY <1>26 DEF Inherit
<1>27. ASSUME NEW c \in Calls, DropHandle(c) PROVE Accepted'
  BY <1>27 DEF DropHandle
<1>28. ASSUME NEW c \in Calls, Release(c) PROVE Accepted'
  BY <1>28 DEF Release
<1>29. ASSUME NEW t \in Tokens, CancelStore(t) PROVE Accepted'
  BY <1>29 DEF CancelStore
<1>30. ASSUME NEW t \in Tokens, CancelNotify(t) PROVE Accepted'
  BY <1>30 DEF CancelNotify
<1>31. ASSUME RequestShutdown PROVE Accepted'
  BY <1>31 DEF RequestShutdown
<1>32. ASSUME NEW c \in Calls, AgeOut(c) PROVE Accepted'
  BY <1>32 DEF AgeOut
<1>33. ASSUME NEW c \in Calls, DeadlineExpires(c) PROVE Accepted'
  BY <1>33 DEF DeadlineExpires
<1>34. CASE UNCHANGED vars
  BY <1>34
<1> QED
  BY <1>1, <1>2, <1>3, <1>4, <1>5, <1>6, <1>7, <1>8, <1>9, <1>10, <1>11,
     <1>12, <1>13, <1>14, <1>15, <1>16, <1>17, <1>18, <1>19, <1>20, <1>21, <1>22,
     <1>23, <1>24, <1>25, <1>26, <1>27, <1>28, <1>29, <1>30, <1>31, <1>32, <1>33,
     <1>34
  DEF Next, CallStep, LockedStep, LeaseStep, EnvironmentStep, Terminated


\* A grant of an acceptable request lies between its minimum and what it asked
\* for.
LEMMA GrantWithinContract ==
    ASSUME NEW q \in LeaseRequest, Acceptable(q), NEW n \in Nat,
           grant_for(q, n) # 0
    PROVE  /\ q.minimum_workers <= grant_for(q, n)
           /\ grant_for(q, n) <= q.requested_workers
BY DEF grant_for, LeaseRequest, Acceptable, invalid_range, invalid_exact

\* The idle governor can serve every acceptable request.
LEMMA IdleGovernorServes ==
    ASSUME NEW q \in LeaseRequest, Acceptable(q)
    PROVE  grant_for(q, cpu_budget) > 0
BY BudgetAssumption
DEF grant_for, LeaseRequest, Acceptable, invalid_range, impossible

LEMMA PendingFits ==
    TypeInv /\ LifeInv /\ Accepted => WaitersFitIdleGovernor
<1> SUFFICES ASSUME TypeInv, LifeInv, Accepted, NEW c \in Calls, c \in pending
             PROVE  grant_for(req[c], cpu_budget) > 0
    BY DEF WaitersFitIdleGovernor
<1>1. Acceptable(req[c])
  BY DEF LifeInv, QueueMembers, Accepted
<1>2. req[c] \in LeaseRequest
  BY DEF TypeInv, TypeOK
<1> QED
  BY <1>1, <1>2, IdleGovernorServes

(***************************************************************************)
(* Every request in the deque can be served once the others have returned  *)
(* their permits: acquire turns away what the budget can never serve.      *)
(***************************************************************************)
THEOREM WaitersFitProved == Spec => []WaitersFitIdleGovernor
BY TypeInit, TypeStep, LifeInit, LifeStep, AcceptInit, AcceptStep, PendingFits,
   PTL DEF Spec

-----------------------------------------------------------------------------
(* Sleeping threads.                                                       *)

\* A pass that leaves its own request queued has found permits in use, and so
\* has every thread that goes to sleep.
FoundPermitsInUse(c) ==
    \/ pc[c] \in {"scan", "park"}
    \/ pc[c] \in {"admit", "check"} /\ status[c] = "queued" /\ ~shutting_down

Awake ==
    /\ active_permits = 0 => \A c \in Calls : pc[c] # "parked"
    /\ \A c \in Calls : FoundPermitsInUse(c) => active_permits > 0

LEMMA AwakeInit == Init => Awake
BY DEF Init, Awake, FoundPermitsInUse

\* Whatever is at the front of the deque is only blocked by permits in use.
LEMMA BlockedByHolders ==
    ASSUME TypeInv, LifeInv, Accepted, NEW o \in Calls, OldestBlocked(o)
    PROVE  active_permits > 0
<1>1. grant_for(req[o], cpu_budget) > 0
  BY PendingFits DEF OldestBlocked, IsOldest, WaitersFitIdleGovernor
<1>2. active_permits = 0 => available_locked = cpu_budget
  BY BudgetAssumption DEF available_locked
<1>3. grant_for(req[o], available_locked) = 0
  BY DEF OldestBlocked
<1> QED
  BY <1>1, <1>2, <1>3 DEF TypeInv, TypeOK

LEMMA AwakeStep ==
    TypeInv /\ LifeInv /\ Accepted /\ Awake /\ [Next]_vars => Awake'
<1> SUFFICES ASSUME TypeInv, LifeInv, Accepted, Awake, [Next]_vars
             PROVE  Awake'
    OBVIOUS
<1> USE CallsAssumption
    DEF TypeInv, TypeOK, LifeInv, Locking, Lifecycle, QueueMembers, Awake,
        FoundPermitsInUse, Places, Locked, Asleep, Statuses, Goto, Return, NotifyAll, AfterPass

<1>1. ASSUME NEW c \in Calls, NEW r \in Requests, Acquire(c, r) PROVE Awake'
  BY <1>1 DEF Acquire
<1>2. ASSUME NEW c \in Calls, Subscribe(c) PROVE Awake'
  BY <1>2 DEF Subscribe
<1>3. ASSUME NEW c \in Calls, EnterShutDown(c) PROVE Awake'
  BY <1>3 DEF EnterShutDown
<1>4. ASSUME NEW c \in Calls, Enter(c) PROVE Awake'
  BY <1>4 DEF Enter
<1>5. ASSUME NEW c \in Calls, Sweep(c) PROVE Awake'
  BY <1>5 DEF Sweep, CancelPending
<1>6. ASSUME NEW c \in Calls, PassEnds(c) PROVE Awake'
  <2>1. status[c] = "queued" /\ ~shutting_down => active_permits > 0
    BY <1>6, BudgetAssumption DEF PassEnds, available_locked
  <2> QED
    BY <1>6, <2>1 DEF PassEnds
<1>7. ASSUME NEW c \in Calls, NEW d \in Calls, GrantOldest(c, d) PROVE Awake'
  <2>1. grant_for(req[d], available_locked) \in Nat
    BY GrantForBounds, AvailableIsNat
  <2> QED
    BY <1>7, <2>1 DEF GrantOldest, GrantOne
<1>8. ASSUME NEW c \in Calls, NEW d \in Calls, ReserveOldest(c, d)
      PROVE  Awake'
  BY <1>8, BlockedByHolders DEF ReserveOldest
<1>9. ASSUME NEW c \in Calls, NEW d \in Calls, BeginScan(c, d) PROVE Awake'
  BY <1>9, BlockedByHolders DEF BeginScan
<1>10. ASSUME NEW c \in Calls, NEW d \in Calls, ScanCancels(c, d) PROVE Awake'
  BY <1>10 DEF ScanCancels, CancelPending
<1>11. ASSUME NEW c \in Calls, NEW d \in Calls, ScanSkips(c, d) PROVE Awake'
  BY <1>11 DEF ScanSkips
<1>12. ASSUME NEW c \in Calls, NEW d \in Calls, NEW o \in Calls, ScanGrants(c, d, o)
      PROVE  Awake'
  <2>1. grant_for(req[d], available_locked) \in Nat
    BY GrantForBounds, AvailableIsNat
  <2> QED
    BY <1>12, <2>1 DEF ScanGrants, GrantOne
<1>13. ASSUME NEW c \in Calls, ScanEnds(c) PROVE Awake'
  BY <1>13 DEF ScanEnds
<1>14. ASSUME NEW c \in Calls, AdmitCancelled(c) PROVE Awake'
  BY <1>14 DEF AdmitCancelled
<1>15. ASSUME NEW c \in Calls, AdmitWouldBlock(c) PROVE Awake'
  BY <1>15 DEF AdmitWouldBlock
<1>16. ASSUME NEW c \in Calls, AdmitWaits(c) PROVE Awake'
  BY <1>16 DEF AdmitWaits
<1>17. ASSUME NEW c \in Calls, ReturnGranted(c) PROVE Awake'
  BY <1>17 DEF ReturnGranted
<1>18. ASSUME NEW c \in Calls, CheckShutDown(c) PROVE Awake'
  BY <1>18 DEF CheckShutDown
<1>19. ASSUME NEW c \in Calls, CheckCancelled(c) PROVE Awake'
  BY <1>19 DEF CheckCancelled, CancelPending
<1>20. ASSUME NEW c \in Calls, CheckDeadline(c) PROVE Awake'
  BY <1>20 DEF CheckDeadline
<1>21. ASSUME NEW c \in Calls, CheckPasses(c) PROVE Awake'
  BY <1>21 DEF CheckPasses
<1>22. ASSUME NEW c \in Calls, Park(c) PROVE Awake'
  BY <1>22 DEF Park
<1>23. ASSUME NEW c \in Calls, TimeoutWake(c) PROVE Awake'
  BY <1>23 DEF TimeoutWake
<1>24. ASSUME NEW c \in Calls, SpuriousWake(c) PROVE Awake'
  BY <1>24 DEF SpuriousWake
<1>25. ASSUME NEW c \in Calls, Relock(c) PROVE Awake'
  BY <1>25 DEF Relock
<1>26. ASSUME NEW c \in Calls, Inherit(c) PROVE Awake'
  BY <1>26 DEF Inherit
<1>27. ASSUME NEW c \in Calls, DropHandle(c) PROVE Awake'
  BY <1>27 DEF DropHandle
<1>28. ASSUME NEW c \in Calls, Release(c) PROVE Awake'
  BY <1>28 DEF Release
<1>29. ASSUME NEW t \in Tokens, CancelStore(t) PROVE Awake'
  BY <1>29 DEF CancelStore
<1>30. ASSUME NEW t \in Tokens, CancelNotify(t) PROVE Awake'
  BY <1>30 DEF CancelNotify
<1>31. ASSUME RequestShutdown PROVE Awake'
  BY <1>31 DEF RequestShutdown
<1>32. ASSUME NEW c \in Calls, AgeOut(c) PROVE Awake'
  BY <1>32 DEF AgeOut
<1>33. ASSUME NEW c \in Calls, DeadlineExpires(c) PROVE Awake'
  BY <1>33 DEF DeadlineExpires
<1>34. CASE UNCHANGED vars
  BY <1>34
<1> QED
  BY <1>1, <1>2, <1>3, <1>4, <1>5, <1>6, <1>7, <1>8, <1>9, <1>10, <1>11,
     <1>12, <1>13, <1>14, <1>15, <1>16, <1>17, <1>18, <1>19, <1>20, <1>21, <1>22,
     <1>23, <1>24, <1>25, <1>26, <1>27, <1>28, <1>29, <1>30, <1>31, <1>32, <1>33,
     <1>34
  DEF Next, CallStep, LockedStep, LeaseStep, EnvironmentStep, Terminated


(***************************************************************************)
(* While all permits are free no thread sleeps in acquire: the release of  *)
(* the last permits has woken everybody, and nobody goes to sleep after    *)
(* it without having found permits in use.                                 *)
(***************************************************************************)
THEOREM NoStallProved == Spec => []NoStall
<1>1. Awake => NoStall
  BY DEF Awake, NoStall
<1> QED
  BY TypeInit, TypeStep, LifeInit, LifeStep, AcceptInit, AcceptStep,
     AwakeInit, AwakeStep, <1>1, PTL DEF Spec

-----------------------------------------------------------------------------
(* The snapshot counters.                                                  *)

\* The calls each counter counts.
Granted   == {c \in Calls : status[c] = "granted"}
Cancelled == {c \in Calls : status[c] = "cancelled"}
Holding   == {c \in Calls : Holds(c)}
Late      == {c \in Calls : result[c] = "DeadlineExpired"}
Reserved  == {c \in Calls : reservation_started[c]}
Patient   == {c \in Calls : waited[c]}

\* active_leases counts the leases alive, and a call passes its first
\* admission test once.
Balance ==
    /\ totals["grants"] = Cardinality(Granted)
    /\ totals["grants"] = totals["releases"] + active_leases
    /\ totals["cancellations"] = Cardinality(Cancelled)
    /\ totals["deadlines"] = Cardinality(Late)
    /\ totals["reservations"] = Cardinality(Reserved)
    /\ totals["waits"] = Cardinality(Patient)

CountInv ==
    /\ Balance
    /\ active_leases = Cardinality(Holding)
    /\ \A c \in Calls : pc[c] = "admit" => ~waited[c]

\* Steps that count nothing.
CountFrame ==
    /\ UNCHANGED <<totals, active_leases>>
    /\ Granted' = Granted /\ Cancelled' = Cancelled /\ Holding' = Holding
    /\ Late' = Late /\ Reserved' = Reserved /\ Patient' = Patient
    /\ \A c \in Calls : pc'[c] = "admit" => ~waited'[c]

LEMMA CountFrameKeeps == CountInv /\ CountFrame => CountInv'
BY DEF CountInv, CountFrame, Balance

LEMMA CountedCalls ==
    /\ Granted \subseteq Calls /\ Cancelled \subseteq Calls /\ Holding \subseteq Calls
    /\ Late \subseteq Calls /\ Reserved \subseteq Calls /\ Patient \subseteq Calls
BY DEF Granted, Cancelled, Holding, Late, Reserved, Patient

\* One call more.
LEMMA OneMore ==
    ASSUME NEW S, S \subseteq Calls, NEW c \in Calls, c \notin S,
           NEW T, T = S \cup {c}
    PROVE  Cardinality(T) = Cardinality(S) + 1
BY SubsetOfCalls, FS_AddElement

\* Disjoint sets of calls add up.
LEMMA DisjointAdd ==
    ASSUME NEW S, S \subseteq Calls, NEW T, T \subseteq Calls, S \cap T = {}
    PROVE  Cardinality(S \cup T) = Cardinality(S) + Cardinality(T)
<1>1. /\ IsFiniteSet(S) /\ IsFiniteSet(T)
      /\ Cardinality(S) \in Nat /\ Cardinality(T) \in Nat
  BY SubsetOfCalls
<1>2. Cardinality(S \cup T)
        = Cardinality(S) + Cardinality(T) - Cardinality(S \cap T)
  BY <1>1, FS_Union
<1>3. Cardinality(S \cap T) = 0
  BY FS_EmptySet
<1> QED
  BY <1>1, <1>2, <1>3

LEMMA CountInit == Init => CountInv
<1> SUFFICES ASSUME Init PROVE CountInv
    OBVIOUS
<1>1. Reserved = {} /\ Patient = {}
  BY Zenon DEF Init, Reserved, Patient
<1>2. Granted = {} /\ Cancelled = {} /\ Holding = {} /\ Late = {}
  BY DEF Init, Granted, Cancelled, Holding, Late, Holds
<1>3. \A c \in Calls : pc[c] # "admit"
  BY DEF Init
<1>4. Cardinality({}) = 0
  BY FS_EmptySet
<1>5. totals = [k \in Counters |-> 0] /\ active_leases = 0
  BY DEF Init
<1>6. Balance
  BY <1>1, <1>2, <1>4, <1>5 DEF Balance, Counters
<1> QED
  BY <1>2, <1>3, <1>4, <1>5, <1>6 DEF CountInv

\* A grant is counted once, with the lease it makes.
LEMMA CountGrant ==
    ASSUME TypeInv, LifeInv, CountInv, NEW c \in Calls, NEW d \in Calls,
           NEW w \in Nat, GrantOne(c, d, w),
           pc[c] \in Locked, status[d] = "queued",
           totals'["grants"] = totals["grants"] + 1,
           \A k \in {"releases", "cancellations", "deadlines", "reservations",
                     "waits"} : totals'[k] = totals[k],
           UNCHANGED <<result, reservation_started, waited>>
    PROVE  CountInv'
<1> USE DEF TypeInv, TypeOK
<1>1. Granted' = Granted \cup {d} /\ d \notin Granted
  BY DEF Granted, GrantOne
<1>2. Holding' = Holding \cup {d} /\ d \notin Holding
  BY DEF Holding, Holds, GrantOne, NotifyAll, Locked, Asleep, LifeInv, Lifecycle
<1>3. /\ Cardinality(Granted') = Cardinality(Granted) + 1
      /\ Cardinality(Holding') = Cardinality(Holding) + 1
  BY <1>1, <1>2, OneMore, CountedCalls
<1>4. Cancelled' = Cancelled /\ Late' = Late /\ Reserved' = Reserved
      /\ Patient' = Patient
  BY DEF Cancelled, Late, Reserved, Patient, GrantOne
<1>5. \A e \in Calls : pc'[e] = "admit" => ~waited'[e]
  BY DEF CountInv, GrantOne, NotifyAll, Asleep
<1>6. active_leases' = active_leases + 1
  BY DEF GrantOne
<1>7. totals["grants"] \in Nat /\ totals["releases"] \in Nat /\ active_leases \in Nat
  BY DEF Counters
<1>8. Balance'
  <2>1. totals["grants"] = totals["releases"] + active_leases
    BY DEF CountInv, Balance
  <2>2. totals'["releases"] = totals["releases"]
    OBVIOUS
  <2>3. totals'["grants"] = totals'["releases"] + active_leases'
    BY <2>1, <2>2, <1>6, <1>7
  <2>4. totals'["grants"] = Cardinality(Granted')
    BY <1>3 DEF CountInv, Balance
  <2> QED
    BY <2>3, <2>4, <1>4 DEF CountInv, Balance
<1> QED
  BY <1>3, <1>5, <1>6, <1>8 DEF CountInv

\* A cancellation is counted by whoever sets the flag, and only then.
LEMMA CountCancel ==
    ASSUME TypeInv, LifeInv, CountInv, NEW S \in SUBSET Calls,
           Count("cancellations", Cardinality(CancelPending(S))),
           status' = [d \in Calls |-> IF d \in CancelPending(S) THEN "cancelled"
                                                              ELSE status[d]],
           Late' = Late, UNCHANGED <<active_leases, reservation_started, waited>>,
           \A d \in Calls : pc'[d] = "done" /\ pc[d] # "done" => status[d] # "granted",
           \A d \in Calls : pc[d] = "done" => pc'[d] = "done",
           \A d \in Calls : pc'[d] = "admit" => pc[d] = "admit"
    PROVE  CountInv'
<1> USE DEF TypeInv, TypeOK
<1> DEFINE T == CancelPending(S)
<1>1. T \in SUBSET Calls /\ Cancelled \cap T = {} /\ Cancelled' = Cancelled \cup T
  BY DEF CancelPending, Cancelled
<1>2. Cardinality(Cancelled') = Cardinality(Cancelled) + Cardinality(T)
  <2> HIDE DEF T
  <2> QED
    BY <1>1, DisjointAdd, CountedCalls
<1>3. /\ Granted' = Granted /\ Holding' = Holding
      /\ Reserved' = Reserved /\ Patient' = Patient
  BY DEF Granted, Holding, Holds, Reserved, Patient, CancelPending
<1>4. /\ totals'["cancellations"] = totals["cancellations"] + Cardinality(T)
      /\ \A k \in Counters \ {"cancellations"} : totals'[k] = totals[k]
  BY DEF Count, Counters
<1>5. Balance'
  BY <1>2, <1>3, <1>4 DEF CountInv, Balance, Counters
<1> QED
  BY <1>3, <1>5 DEF CountInv

LEMMA CountStep == TypeInv /\ LifeInv /\ CountInv /\ [Next]_vars => CountInv'
<1> SUFFICES ASSUME TypeInv, LifeInv, CountInv, [Next]_vars
             PROVE  CountInv'
    OBVIOUS
<1> USE DEF TypeInv, TypeOK, LifeInv, Locking, Lifecycle, QueueMembers,
            Places, Locked, Asleep, Statuses, Results
<1>0. CountFrame => CountInv'
  BY CountFrameKeeps
<1>admit. \A c \in Calls : pc[c] = "admit" => ~waited[c]
  BY DEF CountInv
<1> USE <1>0, <1>admit
    DEF CountFrame, Goto, Return, NotifyAll, AfterPass

<1>1. ASSUME NEW c \in Calls, NEW r \in Requests, Acquire(c, r)
      PROVE  CountInv'
  <2>1. Verdict(normalise(r)) # "DeadlineExpired" /\ result[c] = "none"
    BY <1>1 DEF Verdict, Acquire
  <2> QED
    BY <1>1, <2>1 DEF Acquire, Granted, Cancelled, Holding, Holds, Late,
       Reserved, Patient
<1>2. ASSUME NEW c \in Calls, Subscribe(c) PROVE CountInv'
  BY <1>2 DEF Subscribe, Granted, Cancelled, Holding, Holds, Late,
       Reserved, Patient
<1>3. ASSUME NEW c \in Calls, EnterShutDown(c) PROVE CountInv'
  BY <1>3 DEF EnterShutDown, Granted, Cancelled, Holding, Holds, Late,
       Reserved, Patient
<1>4. ASSUME NEW c \in Calls, Enter(c) PROVE CountInv'
  BY <1>4 DEF Enter, Granted, Cancelled, Holding, Holds, Late,
       Reserved, Patient
<1>5. ASSUME NEW c \in Calls, Sweep(c) PROVE CountInv'
  <2> DEFINE S == {d \in pending : cancellation_requested(d)}
  <2>1. /\ S \in SUBSET Calls
        /\ Count("cancellations", Cardinality(CancelPending(S)))
        /\ status' = [e \in Calls |-> IF e \in CancelPending(S) THEN "cancelled"
                                                              ELSE status[e]]
        /\ UNCHANGED <<active_leases, reservation_started, waited>>
    BY <1>5 DEF Sweep
  <2>2. Late' = Late
    BY <1>5 DEF Sweep, Late
  <2>3. /\ \A e \in Calls : pc'[e] = "done" /\ pc[e] # "done" => status[e] # "granted"
        /\ \A e \in Calls : pc[e] = "done" => pc'[e] = "done"
        /\ \A e \in Calls : pc'[e] = "admit" => pc[e] = "admit"
    BY <1>5 DEF Sweep
  <2> HIDE DEF S
  <2> QED
    BY <2>1, <2>2, <2>3, CountCancel
<1>6. ASSUME NEW c \in Calls, PassEnds(c) PROVE CountInv'
  BY <1>6 DEF PassEnds, Granted, Cancelled, Holding, Holds, Late,
       Reserved, Patient
<1>7. ASSUME NEW c \in Calls, NEW d \in Calls, GrantOldest(c, d)
      PROVE  CountInv'
  <2>1. grant_for(req[d], available_locked) \in Nat
    BY GrantForBounds, AvailableIsNat
  <2>2. pc[c] \in Locked /\ status[d] = "queued"
    BY <1>7 DEF GrantOldest, IsOldest, SweptQueue
  <2>3. /\ totals'["grants"] = totals["grants"] + 1
        /\ \A k \in {"releases", "cancellations", "deadlines", "reservations",
                     "waits"} : totals'[k] = totals[k]
    BY <1>7 DEF GrantOldest, Count, Counters
  <2>4. /\ GrantOne(c, d, grant_for(req[d], available_locked))
        /\ UNCHANGED <<result, reservation_started, waited>>
    BY <1>7 DEF GrantOldest
  <2> QED
    BY <2>1, <2>2, <2>3, <2>4, CountGrant
<1>8. ASSUME NEW c \in Calls, NEW d \in Calls, ReserveOldest(c, d)
      PROVE  CountInv'
  <2>1. CASE reservation_started[d]
    <3>1. reservation_started' = reservation_started
      BY <1>8, <2>1 DEF ReserveOldest
    <3>2. totals' = totals
      BY <1>8, <2>1 DEF ReserveOldest, Count, Counters
    <3> QED
      BY <1>8, <3>1, <3>2 DEF ReserveOldest, Granted, Cancelled, Holding, Holds, Late,
         Reserved, Patient
  <2>2. CASE ~reservation_started[d]
    <3>1. Reserved' = Reserved \cup {d} /\ d \notin Reserved
      BY <1>8, <2>2 DEF ReserveOldest, Reserved
    <3>2. Cardinality(Reserved') = Cardinality(Reserved) + 1
      BY <3>1, OneMore, CountedCalls
    <3>3. /\ Granted' = Granted /\ Cancelled' = Cancelled /\ Holding' = Holding
          /\ Late' = Late /\ Patient' = Patient
          /\ active_leases' = active_leases
          /\ \A e \in Calls : pc'[e] = "admit" => ~waited'[e]
      BY <1>8 DEF ReserveOldest, Granted, Cancelled, Holding, Holds, Late, Patient
    <3>4. /\ totals'["reservations"] = totals["reservations"] + 1
          /\ \A k \in Counters \ {"reservations"} : totals'[k] = totals[k]
      BY <1>8, <2>2 DEF ReserveOldest, Count, Counters
    <3> QED
      BY <3>2, <3>3, <3>4 DEF CountInv, Balance, Counters
  <2> QED
    BY <2>1, <2>2
<1>9. ASSUME NEW c \in Calls, NEW d \in Calls, BeginScan(c, d) PROVE CountInv'
  BY <1>9 DEF BeginScan, Granted, Cancelled, Holding, Holds, Late,
       Reserved, Patient
<1>10. ASSUME NEW c \in Calls, NEW d \in Calls, ScanCancels(c, d)
      PROVE  CountInv'
  <2> DEFINE S == {d}
  <2>1. /\ S \in SUBSET Calls
        /\ Count("cancellations", Cardinality(CancelPending(S)))
        /\ status' = [e \in Calls |-> IF e \in CancelPending(S) THEN "cancelled"
                                                              ELSE status[e]]
        /\ UNCHANGED <<active_leases, reservation_started, waited>>
    BY <1>10 DEF ScanCancels
  <2>2. Late' = Late
    BY <1>10 DEF ScanCancels, Late
  <2>3. /\ \A e \in Calls : pc'[e] = "done" /\ pc[e] # "done" => status[e] # "granted"
        /\ \A e \in Calls : pc[e] = "done" => pc'[e] = "done"
        /\ \A e \in Calls : pc'[e] = "admit" => pc[e] = "admit"
    BY <1>10 DEF ScanCancels
  <2> HIDE DEF S
  <2> QED
    BY <2>1, <2>2, <2>3, CountCancel
<1>11. ASSUME NEW c \in Calls, NEW d \in Calls, ScanSkips(c, d)
      PROVE  CountInv'
  BY <1>11 DEF ScanSkips, Granted, Cancelled, Holding, Holds, Late,
       Reserved, Patient
<1>12. ASSUME NEW c \in Calls, NEW d \in Calls, NEW o \in Calls, ScanGrants(c, d, o)
      PROVE  CountInv'
  <2>1. grant_for(req[d], available_locked) \in Nat
    BY GrantForBounds, AvailableIsNat
  <2>2. pc[c] \in Locked /\ status[d] = "queued"
    BY <1>12 DEF ScanGrants, IsNext, SweptQueue
  <2>3. /\ totals'["grants"] = totals["grants"] + 1
        /\ \A k \in {"releases", "cancellations", "deadlines", "reservations",
                     "waits"} : totals'[k] = totals[k]
    BY <1>12 DEF ScanGrants, Count, Counters
  <2>4. /\ GrantOne(c, d, grant_for(req[d], available_locked))
        /\ UNCHANGED <<result, reservation_started, waited>>
    BY <1>12 DEF ScanGrants
  <2> QED
    BY <2>1, <2>2, <2>3, <2>4, CountGrant
<1>13. ASSUME NEW c \in Calls, ScanEnds(c) PROVE CountInv'
  BY <1>13 DEF ScanEnds, Granted, Cancelled, Holding, Holds, Late,
       Reserved, Patient
<1>14. ASSUME NEW c \in Calls, AdmitCancelled(c) PROVE CountInv'
  BY <1>14 DEF AdmitCancelled, Granted, Cancelled, Holding, Holds, Late,
       Reserved, Patient
<1>15. ASSUME NEW c \in Calls, AdmitWouldBlock(c) PROVE CountInv'
  BY <1>15 DEF AdmitWouldBlock, Granted, Cancelled, Holding, Holds, Late,
       Reserved, Patient
<1>16. ASSUME NEW c \in Calls, AdmitWaits(c) PROVE CountInv'
  <2>1. Patient' = Patient \cup {c} /\ c \notin Patient
    BY <1>16 DEF AdmitWaits, Patient
  <2>2. Cardinality(Patient') = Cardinality(Patient) + 1
    BY <2>1, OneMore, CountedCalls
  <2>3. /\ Granted' = Granted /\ Cancelled' = Cancelled /\ Holding' = Holding /\ Late' = Late /\ Reserved' = Reserved
        /\ active_leases' = active_leases
        /\ \A e \in Calls : pc'[e] = "admit" => ~waited'[e]
    BY <1>16 DEF AdmitWaits, Holds, Granted, Cancelled, Holding, Late, Reserved
  <2>4. /\ totals'["waits"] = totals["waits"] + 1
        /\ \A k \in Counters \ {"waits"} : totals'[k] = totals[k]
    BY <1>16 DEF AdmitWaits, Count, Counters
  <2> QED
    BY <2>2, <2>3, <2>4 DEF CountInv, Balance, Counters
<1>17. ASSUME NEW c \in Calls, ReturnGranted(c) PROVE CountInv'
  BY <1>17 DEF ReturnGranted, Granted, Cancelled, Holding, Holds, Late,
       Reserved, Patient
<1>18. ASSUME NEW c \in Calls, CheckShutDown(c) PROVE CountInv'
  BY <1>18 DEF CheckShutDown, Granted, Cancelled, Holding, Holds, Late,
       Reserved, Patient
<1>19. ASSUME NEW c \in Calls, CheckCancelled(c) PROVE CountInv'
  <2> DEFINE S == {c}
  <2>1. /\ S \in SUBSET Calls
        /\ Count("cancellations", Cardinality(CancelPending(S)))
        /\ status' = [e \in Calls |-> IF e \in CancelPending(S) THEN "cancelled"
                                                              ELSE status[e]]
        /\ UNCHANGED <<active_leases, reservation_started, waited>>
    BY <1>19 DEF CheckCancelled
  <2>2. Late' = Late
    BY <1>19 DEF CheckCancelled, Late
  <2>3. /\ \A e \in Calls : pc'[e] = "done" /\ pc[e] # "done" => status[e] # "granted"
        /\ \A e \in Calls : pc[e] = "done" => pc'[e] = "done"
        /\ \A e \in Calls : pc'[e] = "admit" => pc[e] = "admit"
    BY <1>19 DEF CheckCancelled
  <2> HIDE DEF S
  <2> QED
    BY <2>1, <2>2, <2>3, CountCancel
<1>20. ASSUME NEW c \in Calls, CheckDeadline(c) PROVE CountInv'
  <2>1. Late' = Late \cup {c} /\ c \notin Late
    BY <1>20 DEF CheckDeadline, Late
  <2>2. Cardinality(Late') = Cardinality(Late) + 1
    BY <2>1, OneMore, CountedCalls
  <2>3. /\ Granted' = Granted /\ Cancelled' = Cancelled /\ Holding' = Holding /\ Reserved' = Reserved /\ Patient' = Patient
        /\ active_leases' = active_leases
        /\ \A e \in Calls : pc'[e] = "admit" => ~waited'[e]
    BY <1>20 DEF CheckDeadline, Holds, Granted, Cancelled, Holding, Reserved, Patient
  <2>4. /\ totals'["deadlines"] = totals["deadlines"] + 1
        /\ \A k \in Counters \ {"deadlines"} : totals'[k] = totals[k]
    BY <1>20 DEF CheckDeadline, Count, Counters
  <2> QED
    BY <2>2, <2>3, <2>4 DEF CountInv, Balance, Counters
<1>21. ASSUME NEW c \in Calls, CheckPasses(c) PROVE CountInv'
  BY <1>21 DEF CheckPasses, Granted, Cancelled, Holding, Holds, Late,
       Reserved, Patient
<1>22. ASSUME NEW c \in Calls, Park(c) PROVE CountInv'
  BY <1>22 DEF Park, Granted, Cancelled, Holding, Holds, Late,
       Reserved, Patient
<1>23. ASSUME NEW c \in Calls, TimeoutWake(c) PROVE CountInv'
  BY <1>23 DEF TimeoutWake, Granted, Cancelled, Holding, Holds, Late,
       Reserved, Patient
<1>24. ASSUME NEW c \in Calls, SpuriousWake(c) PROVE CountInv'
  BY <1>24 DEF SpuriousWake, Granted, Cancelled, Holding, Holds, Late,
       Reserved, Patient
<1>25. ASSUME NEW c \in Calls, Relock(c) PROVE CountInv'
  BY <1>25 DEF Relock, Granted, Cancelled, Holding, Holds, Late,
       Reserved, Patient
<1>26. ASSUME NEW c \in Calls, Inherit(c) PROVE CountInv'
  BY <1>26 DEF Inherit, Granted, Cancelled, Holding, Holds, Late,
       Reserved, Patient
<1>27. ASSUME NEW c \in Calls, DropHandle(c) PROVE CountInv'
  BY <1>27 DEF DropHandle, Granted, Cancelled, Holding, Holds, Late,
       Reserved, Patient
<1>28. ASSUME NEW c \in Calls, Release(c) PROVE CountInv'
  <2>1. /\ Holding = Holding' \cup {c} /\ c \notin Holding'
        /\ Holding' \subseteq Calls
    BY <1>28 DEF Release, Holding, Holds
  <2>2. Cardinality(Holding) = Cardinality(Holding') + 1
    BY <2>1, OneMore, CountedCalls
  <2>3. Cardinality(Holding') \in Nat
    BY <2>1, SubsetOfCalls
  <2>4. active_leases = active_leases' + 1 /\ active_leases' = Cardinality(Holding')
    BY <1>28, <2>2, <2>3 DEF Release, CountInv
  <2>5. /\ Granted' = Granted /\ Cancelled' = Cancelled /\ Late' = Late
        /\ Reserved' = Reserved /\ Patient' = Patient
        /\ \A e \in Calls : pc'[e] = "admit" => ~waited'[e]
    BY <1>28 DEF Release, Granted, Cancelled, Late, Reserved, Patient
  <2>6. /\ totals'["releases"] = totals["releases"] + 1
        /\ \A k \in Counters \ {"releases"} : totals'[k] = totals[k]
    BY <1>28 DEF Release, Count, Counters
  <2>7. totals["releases"] \in Nat /\ active_leases' \in Nat
    BY <2>3, <2>4 DEF Counters
  <2>8. totals'["grants"] = totals'["releases"] + active_leases'
    <3>1. totals["grants"] = totals["releases"] + active_leases
      BY DEF CountInv, Balance
    <3>2. totals'["grants"] = totals["grants"]
      BY <2>6 DEF Counters
    <3> QED
      BY <3>1, <3>2, <2>4, <2>6, <2>7
  <2> QED
    BY <2>4, <2>5, <2>6, <2>8 DEF CountInv, Balance, Counters
<1>29. ASSUME NEW t \in Tokens, CancelStore(t) PROVE CountInv'
  BY <1>29 DEF CancelStore, Granted, Cancelled, Holding, Holds, Late,
       Reserved, Patient
<1>30. ASSUME NEW t \in Tokens, CancelNotify(t) PROVE CountInv'
  BY <1>30 DEF CancelNotify, Granted, Cancelled, Holding, Holds, Late,
       Reserved, Patient
<1>31. ASSUME RequestShutdown PROVE CountInv'
  BY <1>31 DEF RequestShutdown, Granted, Cancelled, Holding, Holds, Late,
       Reserved, Patient
<1>32. ASSUME NEW c \in Calls, AgeOut(c) PROVE CountInv'
  BY <1>32 DEF AgeOut, Granted, Cancelled, Holding, Holds, Late,
       Reserved, Patient
<1>33. ASSUME NEW c \in Calls, DeadlineExpires(c) PROVE CountInv'
  BY <1>33 DEF DeadlineExpires, Granted, Cancelled, Holding, Holds, Late,
       Reserved, Patient
<1>34. CASE UNCHANGED vars
  BY <1>34 DEF Granted, Cancelled, Holding, Holds, Late,
       Reserved, Patient
<1> QED
  BY <1>1, <1>2, <1>3, <1>4, <1>5, <1>6, <1>7, <1>8, <1>9, <1>10, <1>11,
     <1>12, <1>13, <1>14, <1>15, <1>16, <1>17, <1>18, <1>19, <1>20, <1>21, <1>22,
     <1>23, <1>24, <1>25, <1>26, <1>27, <1>28, <1>29, <1>30, <1>31, <1>32, <1>33,
     <1>34
  DEF Next, CallStep, LockedStep, LeaseStep, EnvironmentStep, Terminated


(***************************************************************************)
(* Every counter of the snapshot counts each event exactly once, whichever *)
(* of the three places that look for cancellations finds one first and     *)
(* however many passes look at the same reservation.                       *)
(***************************************************************************)
THEOREM CountersProved == Spec => []CountersBalance
<1>1. CountInv => CountersBalance
  BY DEF CountInv, Balance, CountersBalance, Granted, Cancelled, Late, Reserved,
         Patient
<1> QED
  BY TypeInit, TypeStep, LifeInit, LifeStep, CountInit, CountStep, <1>1, PTL
  DEF Spec

-----------------------------------------------------------------------------
(* The refinement of PermitPool.                                           *)

\* The permits of the pool that are in use are the permits held here.
PoolHeld == [c \in Calls |-> IF Holds(c) THEN granted_workers[c] ELSE 0]

\* The contracts of the pool.
PoolContract ==
    [c \in Calls |-> IF status[c] = "none" THEN [least |-> 0, most |-> 0]
                                          ELSE ContractOf(req[c])]

LEMMA SamePermits ==
    ASSUME TypeInv
    PROVE  Pool!InUse(PoolHeld) = HeldPermits
<1>1. ASSUME NEW p \in Calls \X (1..cpu_budget)
      PROVE  p[2] <= PoolHeld[p[1]] <=> Holds(p[1]) /\ p[2] <= granted_workers[p[1]]
  BY BudgetAssumption DEF PoolHeld, TypeInv, TypeOK
<1> QED
  BY <1>1 DEF Pool!InUse, HeldPermits

\* The instance counts like this module.
LEMMA PoolCardinality == \A S : Pool!Cardinality(S) = Cardinality(S)
BY Zenon DEF Pool!Cardinality, Cardinality

\* What a step may leave of a call without a client of the pool noticing.
SameContract(c) ==
    /\ status'[c] = "none" <=> status[c] = "none"
    /\ status[c] # "none" => req'[c] = req[c]

SameHeld(c) ==
    /\ Holds(c)' <=> Holds(c)
    /\ Holds(c) => granted_workers'[c] = granted_workers[c]

PoolFrame ==
    \A c \in Calls : PoolPhase(c)' = PoolPhase(c) /\ SameContract(c) /\ SameHeld(c)

LEMMA PoolStutters == PoolFrame => UNCHANGED Pool!vars
BY DEF PoolFrame, SameContract, SameHeld, ContractOf, Pool!vars

\* The calls in S lose.
PoolRefuses(S) ==
    /\ \A c \in S : PoolPhase(c) \in {"idle", "asking"}
    /\ \A c \in Calls :
           /\ PoolPhase(c)' = IF c \in S THEN "refused" ELSE PoolPhase(c)
           /\ SameContract(c) /\ SameHeld(c)

LEMMA PoolRefuse ==
    ASSUME NEW S \in SUBSET Calls, PoolRefuses(S)
    PROVE  Pool!Next
<1>1. Pool!Refuse(S)
  BY DEF PoolRefuses, SameContract, SameHeld, ContractOf, Pool!Refuse
<1> QED
  BY <1>1 DEF Pool!Next

\* grant_one_locked is the pool's grant.
LEMMA PoolGrant ==
    ASSUME TypeInv, LifeInv, Accepted, PermitInv, NEW c \in Calls, NEW d \in Calls,
           pc[c] \in Locked, status[d] = "queued",
           grant_for(req[d], available_locked) # 0,
           GrantOne(c, d, grant_for(req[d], available_locked)),
           UNCHANGED <<req, result>>
    PROVE  Pool!Next
<1> USE DEF TypeInv, TypeOK
<1>1. PICK w \in Nat : w = grant_for(req[d], available_locked)
                       /\ w <= available_locked /\ w # 0
  BY GrantForBounds, AvailableIsNat
<1>2. w \in 1..cpu_budget /\ active_permits + w <= cpu_budget
  BY <1>1, BudgetAssumption
  DEF available_locked, PermitInv, BudgetRespected
<1>3. /\ ContractOf(req[d]).least <= w /\ w <= ContractOf(req[d]).most
  <2>1. Acceptable(req[d]) /\ req[d] \in LeaseRequest
    BY DEF Accepted
  <2>2. available_locked \in Nat
    BY AvailableIsNat
  <2>3. req[d].minimum_workers <= w /\ w <= req[d].requested_workers
    BY <1>1, <2>1, <2>2, GrantWithinContract
  <2> QED
    BY <2>3 DEF ContractOf
<1>4. Pool!Cardinality(Pool!InUse(PoolHeld)) + w <= cpu_budget
  BY <1>2, SamePermits, PoolCardinality DEF PermitInv, PermitConservation
<1>5. /\ \A e \in Calls : e # d => /\ PoolPhase(e)' = PoolPhase(e)
                                   /\ SameHeld(e)
      /\ \A e \in Calls : SameContract(e)
  BY DEF GrantOne, NotifyAll, Asleep, Locked, PoolPhase, SameHeld, SameContract, Holds
<1>6. /\ PoolPhase(d) = "asking" /\ PoolPhase(d)' = "granted"
      /\ Holds(d)' /\ granted_workers'[d] = w
  BY <1>1 DEF GrantOne, NotifyAll, Asleep, Locked, LifeInv, Lifecycle, PoolPhase, Holds
<1>7. Pool!Grant(d, w)
  <2>1. PoolHeld' = [PoolHeld EXCEPT ![d] = w]
    BY <1>5, <1>6 DEF PoolHeld, SameHeld
  <2>2. [e \in Calls |-> PoolPhase(e)]'
          = [[e \in Calls |-> PoolPhase(e)] EXCEPT ![d] = "granted"]
    BY <1>5, <1>6
  <2>3. PoolContract' = PoolContract
    BY <1>5 DEF PoolContract, SameContract, ContractOf
  <2>4. [e \in Calls |-> PoolPhase(e)][d] = "asking"
    BY <1>6
  <2>5. PoolContract[d] = ContractOf(req[d])
    BY DEF PoolContract
  <2> QED
    BY <1>3, <1>4, <2>1, <2>2, <2>3, <2>4, <2>5, Zenon
    DEF Pool!Grant, PoolContract, PoolHeld
<1> QED
  BY <1>2, <1>7 DEF Pool!Next

LEMMA PoolInit == Init => Pool!Init
<1> SUFFICES ASSUME Init PROVE Pool!Init
    OBVIOUS
<1>1. \A c \in Calls : status[c] = "none" /\ result[c] = "none" /\ ~Holds(c)
  BY DEF Init, Holds
<1>2. \A c \in Calls : PoolPhase(c) = "idle"
  BY <1>1 DEF PoolPhase
<1> QED
  BY <1>1, <1>2 DEF Pool!Init, Pool!NoContract

LEMMA PoolStep ==
    TypeInv /\ LifeInv /\ Accepted /\ PermitInv /\ [Next]_vars
        => [Pool!Next]_(Pool!vars)
<1> SUFFICES ASSUME TypeInv, LifeInv, Accepted, PermitInv, [Next]_vars
             PROVE  [Pool!Next]_(Pool!vars)
    OBVIOUS
<1>a. PoolFrame => [Pool!Next]_(Pool!vars)
  BY PoolStutters
<1>b. \A S \in SUBSET Calls : PoolRefuses(S) => [Pool!Next]_(Pool!vars)
  BY PoolRefuse
<1> USE DEF TypeInv, TypeOK, LifeInv, Locking, Lifecycle, QueueMembers,
            Places, Locked, Asleep, Statuses, Results, Goto, Return, NotifyAll, AfterPass

<1>1. ASSUME NEW c \in Calls, NEW r \in Requests, Acquire(c, r)
      PROVE  [Pool!Next]_(Pool!vars)
  <2>1. CASE Verdict(normalise(r)) = "none"
    BY <1>1, <2>1, <1>a DEF Acquire, PoolFrame, PoolPhase, SameContract,
      SameHeld, Holds
  <2>2. CASE Verdict(normalise(r)) # "none"
    <3>1. PoolRefuses({c})
      BY <1>1, <2>2 DEF Acquire, PoolRefuses, PoolPhase, SameContract,
       SameHeld, Holds
    <3> QED
      BY <3>1, <1>b
  <2> QED
    BY <2>1, <2>2
<1>2. ASSUME NEW c \in Calls, Subscribe(c) PROVE [Pool!Next]_(Pool!vars)
  BY <1>2, <1>a DEF Subscribe, PoolFrame, PoolPhase, SameContract,
      SameHeld, Holds
<1>3. ASSUME NEW c \in Calls, EnterShutDown(c) PROVE [Pool!Next]_(Pool!vars)
  <2>1. PoolRefuses({c})
    BY <1>3 DEF EnterShutDown, PoolRefuses, PoolPhase, SameContract,
       SameHeld, Holds
  <2> QED
    BY <2>1, <1>b
<1>4. ASSUME NEW c \in Calls, Enter(c) PROVE [Pool!Next]_(Pool!vars)
  <2>0. PICK k : k = ContractOf(req[c])
    OBVIOUS
  <2>1. k \in {ContractOf(normalise(r)) : r \in Requests}
    BY <1>4, <2>0 DEF Enter, Accepted, Acceptable
  <2>2. PoolPhase(c) = "idle" /\ PoolPhase(c)' = "asking"
    BY <1>4 DEF Enter, PoolPhase
  <2>3. \A e \in Calls : e # c => PoolPhase(e)' = PoolPhase(e) /\ SameContract(e)
    BY <1>4 DEF Enter, PoolPhase, SameContract
  <2>4. \A e \in Calls : SameHeld(e)
    BY <1>4 DEF Enter, SameHeld, Holds
  <2>5. /\ status[c] = "none" /\ status'[c] = "queued" /\ req' = req
    BY <1>4 DEF Enter
  <2>6. [e \in Calls |-> PoolPhase(e)]'
          = [[e \in Calls |-> PoolPhase(e)] EXCEPT ![c] = "asking"]
    BY <2>2, <2>3
  <2>7. PoolContract' = [PoolContract EXCEPT ![c] = k]
    BY <2>0, <2>3, <2>5 DEF PoolContract, SameContract, ContractOf
  <2>8. PoolHeld' = PoolHeld
    BY <2>4 DEF PoolHeld, SameHeld
  <2>9. [e \in Calls |-> PoolPhase(e)][c] = "idle"
    BY <2>2
  <2>10. Pool!Ask(c, k)
    BY <2>6, <2>7, <2>8, <2>9, Zenon DEF Pool!Ask, PoolContract, PoolHeld
  <2> QED
    BY <2>1, <2>10 DEF Pool!Next
<1>5. ASSUME NEW c \in Calls, Sweep(c) PROVE [Pool!Next]_(Pool!vars)
  <2>1. CancelPending({d \in pending : cancellation_requested(d)}) \in SUBSET Calls
    BY DEF CancelPending
  <2>2. PoolRefuses(CancelPending({d \in pending : cancellation_requested(d)}))
    BY <1>5 DEF Sweep, CancelPending, PoolRefuses, PoolPhase, SameContract,
       SameHeld, Holds
  <2> QED
    BY <2>1, <2>2, <1>b
<1>6. ASSUME NEW c \in Calls, PassEnds(c) PROVE [Pool!Next]_(Pool!vars)
  BY <1>6, <1>a DEF PassEnds, PoolFrame, PoolPhase, SameContract,
      SameHeld, Holds
<1>7. ASSUME NEW c \in Calls, NEW d \in Calls, GrantOldest(c, d)
      PROVE  [Pool!Next]_(Pool!vars)
  <2>1. /\ pc[c] \in Locked /\ status[d] = "queued"
        /\ grant_for(req[d], available_locked) # 0
        /\ GrantOne(c, d, grant_for(req[d], available_locked))
        /\ UNCHANGED <<req, result>>
    BY <1>7 DEF GrantOldest, IsOldest, SweptQueue
  <2> QED
    BY <2>1, PoolGrant
<1>8. ASSUME NEW c \in Calls, NEW d \in Calls, ReserveOldest(c, d)
      PROVE  [Pool!Next]_(Pool!vars)
  BY <1>8, <1>a DEF ReserveOldest, PoolFrame, PoolPhase, SameContract,
      SameHeld, Holds
<1>9. ASSUME NEW c \in Calls, NEW d \in Calls, BeginScan(c, d)
      PROVE  [Pool!Next]_(Pool!vars)
  BY <1>9, <1>a DEF BeginScan, PoolFrame, PoolPhase, SameContract,
      SameHeld, Holds
<1>10. ASSUME NEW c \in Calls, NEW d \in Calls, ScanCancels(c, d)
      PROVE  [Pool!Next]_(Pool!vars)
  <2>1. CancelPending({d}) \in SUBSET Calls
    BY DEF CancelPending
  <2>2. PoolRefuses(CancelPending({d}))
    BY <1>10 DEF ScanCancels, CancelPending, PoolRefuses, PoolPhase, SameContract,
       SameHeld, Holds
  <2> QED
    BY <2>1, <2>2, <1>b
<1>11. ASSUME NEW c \in Calls, NEW d \in Calls, ScanSkips(c, d)
      PROVE  [Pool!Next]_(Pool!vars)
  BY <1>11, <1>a DEF ScanSkips, PoolFrame, PoolPhase, SameContract,
      SameHeld, Holds
<1>12. ASSUME NEW c \in Calls, NEW d \in Calls, NEW o \in Calls, ScanGrants(c, d, o)
      PROVE  [Pool!Next]_(Pool!vars)
  <2>1. /\ pc[c] \in Locked /\ status[d] = "queued"
        /\ grant_for(req[d], available_locked) # 0
        /\ GrantOne(c, d, grant_for(req[d], available_locked))
        /\ UNCHANGED <<req, result>>
    BY <1>12 DEF ScanGrants, IsNext, SweptQueue
  <2> QED
    BY <2>1, PoolGrant
<1>13. ASSUME NEW c \in Calls, ScanEnds(c) PROVE [Pool!Next]_(Pool!vars)
  BY <1>13, <1>a DEF ScanEnds, PoolFrame, PoolPhase, SameContract,
      SameHeld, Holds
<1>14. ASSUME NEW c \in Calls, AdmitCancelled(c) PROVE [Pool!Next]_(Pool!vars)
  BY <1>14, <1>a DEF AdmitCancelled, PoolFrame, PoolPhase, SameContract,
      SameHeld, Holds
<1>15. ASSUME NEW c \in Calls, AdmitWouldBlock(c)
      PROVE  [Pool!Next]_(Pool!vars)
  <2>1. PoolRefuses({c})
    BY <1>15 DEF AdmitWouldBlock, PoolRefuses, PoolPhase, SameContract,
       SameHeld, Holds
  <2> QED
    BY <2>1, <1>b
<1>16. ASSUME NEW c \in Calls, AdmitWaits(c) PROVE [Pool!Next]_(Pool!vars)
  BY <1>16, <1>a DEF AdmitWaits, PoolFrame, PoolPhase, SameContract,
      SameHeld, Holds
<1>17. ASSUME NEW c \in Calls, ReturnGranted(c) PROVE [Pool!Next]_(Pool!vars)
  BY <1>17, <1>a DEF ReturnGranted, PoolFrame, PoolPhase, SameContract,
      SameHeld, Holds
<1>18. ASSUME NEW c \in Calls, CheckShutDown(c) PROVE [Pool!Next]_(Pool!vars)
  <2>1. CancelPending({c}) \in SUBSET Calls
    BY DEF CancelPending
  <2>2. PoolRefuses(CancelPending({c}))
    BY <1>18 DEF CheckShutDown, CancelPending, PoolRefuses, PoolPhase, SameContract,
       SameHeld, Holds
  <2> QED
    BY <2>1, <2>2, <1>b
<1>19. ASSUME NEW c \in Calls, CheckCancelled(c) PROVE [Pool!Next]_(Pool!vars)
  <2>1. CancelPending({c}) \in SUBSET Calls
    BY DEF CancelPending
  <2>2. PoolRefuses(CancelPending({c}))
    BY <1>19 DEF CheckCancelled, CancelPending, PoolRefuses, PoolPhase, SameContract,
       SameHeld, Holds
  <2> QED
    BY <2>1, <2>2, <1>b
<1>20. ASSUME NEW c \in Calls, CheckDeadline(c) PROVE [Pool!Next]_(Pool!vars)
  <2>1. PoolRefuses({c})
    BY <1>20 DEF CheckDeadline, PoolRefuses, PoolPhase, SameContract,
       SameHeld, Holds
  <2> QED
    BY <2>1, <1>b
<1>21. ASSUME NEW c \in Calls, CheckPasses(c) PROVE [Pool!Next]_(Pool!vars)
  BY <1>21, <1>a DEF CheckPasses, PoolFrame, PoolPhase, SameContract,
      SameHeld, Holds
<1>22. ASSUME NEW c \in Calls, Park(c) PROVE [Pool!Next]_(Pool!vars)
  BY <1>22, <1>a DEF Park, PoolFrame, PoolPhase, SameContract,
      SameHeld, Holds
<1>23. ASSUME NEW c \in Calls, TimeoutWake(c) PROVE [Pool!Next]_(Pool!vars)
  BY <1>23, <1>a DEF TimeoutWake, PoolFrame, PoolPhase, SameContract,
      SameHeld, Holds
<1>24. ASSUME NEW c \in Calls, SpuriousWake(c) PROVE [Pool!Next]_(Pool!vars)
  BY <1>24, <1>a DEF SpuriousWake, PoolFrame, PoolPhase, SameContract,
      SameHeld, Holds
<1>25. ASSUME NEW c \in Calls, Relock(c) PROVE [Pool!Next]_(Pool!vars)
  BY <1>25, <1>a DEF Relock, PoolFrame, PoolPhase, SameContract,
      SameHeld, Holds
<1>26. ASSUME NEW c \in Calls, Inherit(c) PROVE [Pool!Next]_(Pool!vars)
  BY <1>26, <1>a DEF Inherit, PoolFrame, PoolPhase, SameContract,
      SameHeld, Holds
<1>27. ASSUME NEW c \in Calls, DropHandle(c) PROVE [Pool!Next]_(Pool!vars)
  BY <1>27, <1>a DEF DropHandle, PoolFrame, PoolPhase, SameContract,
      SameHeld, Holds
<1>28. ASSUME NEW c \in Calls, Release(c) PROVE [Pool!Next]_(Pool!vars)
  <2>1. status[c] = "granted"
    BY <1>28 DEF Release
  <2>2. PoolPhase(c) = "granted" /\ PoolPhase(c)' = "returned" /\ ~Holds(c)'
    BY <1>28, <2>1 DEF Release, PoolPhase, Holds
  <2>3. \A e \in Calls : e # c => PoolPhase(e)' = PoolPhase(e) /\ SameHeld(e)
    BY <1>28 DEF Release, PoolPhase, SameHeld, Holds
  <2>4. \A e \in Calls : SameContract(e)
    BY <1>28 DEF Release, SameContract
  <2>5. [e \in Calls |-> PoolPhase(e)]'
          = [[e \in Calls |-> PoolPhase(e)] EXCEPT ![c] = "returned"]
    BY <2>2, <2>3
  <2>6. PoolContract' = PoolContract
    BY <2>4 DEF PoolContract, SameContract, ContractOf
  <2>7. PoolHeld' = [PoolHeld EXCEPT ![c] = 0]
    BY <2>2, <2>3 DEF PoolHeld, SameHeld
  <2>8. [e \in Calls |-> PoolPhase(e)][c] = "granted"
    BY <2>2
  <2>9. Pool!GiveBack(c)
    BY <2>5, <2>6, <2>7, <2>8, Zenon DEF Pool!GiveBack, PoolContract, PoolHeld
  <2> QED
    BY <2>9 DEF Pool!Next
<1>29. ASSUME NEW t \in Tokens, CancelStore(t) PROVE [Pool!Next]_(Pool!vars)
  BY <1>29, <1>a DEF CancelStore, PoolFrame, PoolPhase, SameContract,
      SameHeld, Holds
<1>30. ASSUME NEW t \in Tokens, CancelNotify(t) PROVE [Pool!Next]_(Pool!vars)
  BY <1>30, <1>a DEF CancelNotify, PoolFrame, PoolPhase, SameContract,
      SameHeld, Holds
<1>31. ASSUME RequestShutdown PROVE [Pool!Next]_(Pool!vars)
  BY <1>31, <1>a DEF RequestShutdown, PoolFrame, PoolPhase, SameContract,
      SameHeld, Holds
<1>32. ASSUME NEW c \in Calls, AgeOut(c) PROVE [Pool!Next]_(Pool!vars)
  BY <1>32, <1>a DEF AgeOut, PoolFrame, PoolPhase, SameContract,
      SameHeld, Holds
<1>33. ASSUME NEW c \in Calls, DeadlineExpires(c)
      PROVE  [Pool!Next]_(Pool!vars)
  BY <1>33, <1>a DEF DeadlineExpires, PoolFrame, PoolPhase, SameContract,
      SameHeld, Holds
<1>34. CASE UNCHANGED vars
  BY <1>34, <1>a DEF PoolFrame, PoolPhase, SameContract,
      SameHeld, Holds
<1> QED
  BY <1>1, <1>2, <1>3, <1>4, <1>5, <1>6, <1>7, <1>8, <1>9, <1>10, <1>11,
     <1>12, <1>13, <1>14, <1>15, <1>16, <1>17, <1>18, <1>19, <1>20, <1>21, <1>22,
     <1>23, <1>24, <1>25, <1>26, <1>27, <1>28, <1>29, <1>30, <1>31, <1>32, <1>33,
     <1>34
  DEF Next, CallStep, LockedStep, LeaseStep, EnvironmentStep, Terminated


(***************************************************************************)
(* The governor implements the permit pool: through every race of passes,  *)
(* cancellation, deadlines, shutdown and releases a caller is answered at  *)
(* most once, with a grant within its contract and within the permits that *)
(* are left, and what it was granted goes back exactly once.               *)
(***************************************************************************)
THEOREM RefinementProved == Spec => ImplementsPool
<1>1. Init => Pool!Init
  BY PoolInit
<1> QED
  BY TypeInit, TypeStep, LifeInit, LifeStep, AcceptInit, AcceptStep, PermitInit,
     PermitStep, PoolInit, PoolStep, PTL
  DEF Spec, ImplementsPool, Pool!Spec
=============================================================================
