-------------------------- MODULE ThreadPoolProofs --------------------------
(***************************************************************************)
(* Theorems about ThreadPool for every set of workers, threads, sessions   *)
(* and regions, every nesting of the regions and every size.               *)
(***************************************************************************)
EXTENDS ThreadPool, FiniteSetTheorems, TLAPS

\* The groups of unchanged variables.
USE DEF vars, poolVars, workVars, regionVars, chunkVars, sessionVars

-----------------------------------------------------------------------------
(* Type correctness.                                                       *)

\* A chunk never ends before it begins, and a consumer that has not begun has
\* an empty one.
ChunksOrdered ==
    \A c \in Consumers :
        /\ chunk_begin[c] <= chunk_end[c]
        /\ at[c] \in {"idle", "reserve", "recruit"} => chunk_begin[c] = 0

\* The helpers that are submitted exist, and helpers are recruited from a
\* session.
HelpersExist ==
    \A r \in Regions :
        /\ helper_count[r] < thread_count
        /\ next_helper[r] >= 1
        /\ at[Caller(r)] = "submit" => next_helper[r] <= helper_count[r]
        /\ at[Caller(r)] = "recruit" => Session[r] \in Sessions

Types == TypeOK /\ visits = [r \in Regions |-> visits[r]] /\ ChunksOrdered

TypeInv == Types /\ HelpersExist

\* The pool has a thread, and consumers are finitely many.
LEMMA ThreadCountType == thread_count \in Nat \ {0}
<1>1. Cardinality(Workers) \in Nat
  BY WorkersAssumption, FS_CardinalityType
<1>2. Cardinality(Workers) # 0
  BY WorkersAssumption, FS_EmptySet
<1> QED
  BY <1>1, <1>2 DEF thread_count

LEMMA ConsumersFinite == IsFiniteSet(Consumers)
<1>1. IsFiniteSet(0 .. thread_count - 1)
  BY ThreadCountType, FS_Interval
<1> QED
  BY <1>1, RegionsAssumption, FS_Product DEF Consumers

LEMMA SubsetOfConsumers ==
    ASSUME NEW S, S \subseteq Consumers
    PROVE  IsFiniteSet(S) /\ Cardinality(S) \in Nat
BY ConsumersFinite, FS_Subset, FS_CardinalityType

LEMMA ConsumerParts ==
    ASSUME NEW c \in Consumers
    PROVE  /\ c[1] \in Regions /\ c[2] \in Nat /\ c[2] < thread_count
           /\ c = <<c[1], c[2]>>
           /\ c \in Jobs <=> c[2] > 0
           /\ c \notin Jobs => c = Caller(c[1])
           /\ c \in Jobs => c \in JobsOf(c[1])
BY ThreadCountType DEF Consumers, Jobs, Caller, JobsOf

LEMMA CallerParts ==
    ASSUME NEW r \in Regions
    PROVE  /\ Caller(r) \in Consumers /\ Caller(r) \notin Jobs
           /\ Caller(r)[1] = r /\ Caller(r)[2] = 0
BY ThreadCountType DEF Consumers, Jobs, Caller

\* The helper k of a region.
LEMMA JobParts ==
    ASSUME NEW r \in Regions, NEW k \in Nat \ {0}, k < thread_count
    PROVE  /\ <<r, k>> \in JobsOf(r) /\ <<r, k>> \in Jobs
           /\ <<r, k>> \in Consumers
           /\ <<r, k>>[1] = r /\ <<r, k>>[2] = k
BY ThreadCountType DEF Consumers, Jobs, JobsOf

LEMMA JobsAreConsumers == Jobs \subseteq Consumers
BY DEF Jobs

-----------------------------------------------------------------------------
(* Sizes.                                                                  *)

LEMMA QuotientType ==
    ASSUME NEW m \in Nat, NEW n \in Nat \ {0}
    PROVE  m \div n \in Nat
OBVIOUS

LEMMA BudgetType ==
    ASSUME NEW r \in Regions
    PROVE  effective_budget(r) \in Nat \ {0}
BY ThreadCountType, ProgramAssumption DEF effective_budget, AtLeastOne, Smaller

LEMMA GrainType ==
    ASSUME NEW r \in Regions, Total[r] > 0
    PROVE  grain(r) \in Nat \ {0}
<1>1. Total[r] - 1 \in Nat /\ 4 * effective_budget(r) \in Nat \ {0}
  BY BudgetType, ProgramAssumption
<1>2. (Total[r] - 1) \div (4 * effective_budget(r)) \in Nat
  BY <1>1, QuotientType
<1> QED
  BY <1>2, ProgramAssumption DEF grain

LEMMA ChunksType ==
    ASSUME NEW r \in Regions
    PROVE  total_chunks(r) \in Nat
<1>1. CASE Total[r] = 0
  BY <1>1 DEF total_chunks
<1>2. CASE Total[r] > 0
  <2>1. (Total[r] - 1) \div grain(r) \in Nat
    BY <1>2, GrainType, QuotientType, ProgramAssumption
  <2> QED
    BY <1>2, <2>1 DEF total_chunks
<1> QED
  BY <1>1, <1>2, ProgramAssumption

LEMMA UsefulType ==
    ASSUME NEW r \in Regions
    PROVE  useful_helper_limit(r) \in Nat
<1>1. CASE total_chunks(r) <= 1
  BY <1>1 DEF useful_helper_limit
<1>2. CASE total_chunks(r) > 1
  <2>1. (total_chunks(r) - 1) \div min_chunks_per_helper \in Nat
    BY <1>2, ChunksType, QuotientType, ProgramAssumption
  <2> QED
    BY <1>2, <2>1, ChunksType DEF useful_helper_limit
<1> QED
  BY <1>1, <1>2, ChunksType

\* Fewer helpers than threads are ever recommended or submitted.
LEMMA RecommendedBounds ==
    ASSUME NEW r \in Regions, NEW n \in Nat, busy_workers \in Nat
    PROVE  /\ recommended_helper_count(r, n) \in Nat
           /\ recommended_helper_count(r, n) < thread_count
BY ThreadCountType, UsefulType
DEF recommended_helper_count, idle_worker_count, AtLeastOne, Smaller

LEMMA SubmitBounds ==
    ASSUME NEW r \in Regions, NEW n \in Nat, busy_workers \in Nat
    PROVE  /\ helpers_to_submit(r, n) \in Nat
           /\ helpers_to_submit(r, n) < thread_count
<1> DEFINE consumers == AtLeastOne(Smaller(1 + n, thread_count))
<1>1. consumers \in Nat /\ consumers >= 1 /\ consumers <= thread_count
  BY ThreadCountType DEF AtLeastOne, Smaller
<1>2. /\ recommended_helper_count(r, consumers) \in Nat
      /\ recommended_helper_count(r, consumers) < thread_count
  BY <1>1, RecommendedBounds
<1> QED
  BY <1>1, <1>2, ThreadCountType, UsefulType DEF helpers_to_submit, Smaller

-----------------------------------------------------------------------------
LEMMA CallersDiffer ==
    ASSUME NEW r \in Regions, NEW q \in Regions, r # q
    PROVE  Caller(r) # Caller(q)
BY DEF Caller

LEMMA TypeInit == Init => TypeInv
<1> SUFFICES ASSUME Init PROVE TypeInv
    OBVIOUS
<1>1. /\ stop \in BOOLEAN
      /\ cancelled \in [Regions -> BOOLEAN]
      /\ direct \in [Regions -> BOOLEAN]
      /\ holds \in [Consumers -> BOOLEAN]
  BY Zenon DEF Init
<1>2. /\ outcome \in [Regions -> {"none", "returned", "threw"}]
      /\ worker \in [Workers -> {"asleep", "ready", "busy", "exited"}]
      /\ at \in [Consumers -> Places]
      /\ thread \in [Consumers -> Threads \cup {NoThread}]
  BY DEF Init, Places
<1>3. \A c \in Consumers : Total[c[1]] \in Nat
  BY ConsumerParts, ProgramAssumption
<1>4. /\ visits = [r \in Regions |-> visits[r]]
      /\ \A r \in Regions : visits[r] \in [Indices(r) -> Nat]
  BY DEF Init
<1> QED
  BY <1>1, <1>2, <1>3, <1>4, ThreadCountType, CallerParts
  DEF Init, TypeInv, Types, TypeOK, ChunksOrdered, HelpersExist

\* What the helpers of the actions keep.
LEMMA NotifyType ==
    ASSUME worker \in [Workers -> {"asleep", "ready", "busy", "exited"}], NotifyOne
    PROVE  worker' \in [Workers -> {"asleep", "ready", "busy", "exited"}]
BY DEF NotifyOne

LEMMA ReserveType ==
    ASSUME TypeOK, NEW c \in Consumers, NEW s \in Sessions, reserve(c, s)
    PROVE  /\ holds' \in [Consumers -> BOOLEAN]
           /\ leased_workers' \in [Sessions -> Nat]
           /\ maximum_leased_workers' \in [Sessions -> Nat]
BY DEF TypeOK, reserve

LEMMA ReleaseType ==
    ASSUME TypeOK, NEW S, S \subseteq Consumers, release(S)
    PROVE  /\ holds' \in [Consumers -> BOOLEAN]
           /\ leased_workers' \in [Sessions -> Nat]
           /\ maximum_leased_workers' \in [Sessions -> Nat]
<1>1. \A s \in Sessions :
        Cardinality({c \in S : holds[c] /\ Session[c[1]] = s}) \in Nat
  BY SubsetOfConsumers
<1>2. holds' \in [Consumers -> BOOLEAN]
  BY Zenon DEF release
<1> QED
  BY <1>1, <1>2 DEF TypeOK, release

\* The helper that is being submitted, and the next one to be recruited.
LEMMA SubmittedIsJob ==
    ASSUME TypeInv, NEW r \in Regions, at[Caller(r)] = "submit"
    PROVE  /\ <<r, next_helper[r]>> \in JobsOf(r)
           /\ <<r, next_helper[r]>> \in Jobs
           /\ <<r, next_helper[r]>> \in Consumers
<1>1. next_helper[r] \in Nat \ {0} /\ next_helper[r] < thread_count
  BY ThreadCountType DEF TypeInv, Types, TypeOK, HelpersExist
<1> QED
  BY <1>1, JobParts

LEMMA RecruitedType ==
    ASSUME NEW r \in Regions
    PROVE  Recruited(r) \in Nat
BY SubsetOfConsumers DEF Recruited, JobsOf, Jobs

LEMMA RecruitIsJob ==
    ASSUME TypeInv, NEW r \in Regions, at[Caller(r)] = "recruit",
           Recruited(r) < helper_count[r]
    PROVE  /\ <<r, Recruited(r) + 1>> \in JobsOf(r)
           /\ <<r, Recruited(r) + 1>> \in Jobs
           /\ <<r, Recruited(r) + 1>> \in Consumers
           /\ Session[r] \in Sessions
<1>1. /\ Recruited(r) + 1 \in Nat \ {0} /\ Recruited(r) + 1 < thread_count
      /\ Session[r] \in Sessions
  BY ThreadCountType, RecruitedType DEF TypeInv, Types, TypeOK, HelpersExist
<1> QED
  BY <1>1, JobParts

LEMMA IncrementType ==
    ASSUME NEW I, NEW f \in [I -> Nat], NEW x \in I
    PROVE  [f EXCEPT ![x] = @ + 1] \in [I -> Nat]
OBVIOUS

LEMMA TypesStep == TypeInv /\ [Next]_vars => Types'
<1> SUFFICES ASSUME TypeInv, [Next]_vars PROVE Types'
    OBVIOUS
<1> USE DEF TypeInv, Types, TypeOK, ChunksOrdered, Places, Consuming, CallerPlaces,
            HelperPlaces, Goto
<1>1. ASSUME NEW r \in Regions, NEW t \in Threads \cup {NoThread},
             NEW places \in [Consumers -> Places],
             \A c \in Consumers : places[c] # at[c] => places[c] = "calling",
             EnterRegion(r, t, places)
      PROVE  Types'
  <2>1. /\ recommended_helper_count(r, effective_budget(r)) \in Nat
        /\ Caller(r) \in Consumers
    BY BudgetType, RecommendedBounds, CallerParts
  <2> QED
    BY <1>1, <2>1 DEF EnterRegion
<1>2. ASSUME NEW r \in Regions, ExecuteRoot(r) PROVE Types'
  BY <1>1, <1>2, ProgramAssumption DEF ExecuteRoot, Threads
<1>3. ASSUME NEW c \in Consumers, NEW r \in Regions, ExecuteNested(c, r)
      PROVE  Types'
  <2> DEFINE places == [at EXCEPT ![c] = "calling"]
  <2>1. /\ thread[c] \in Threads \cup {NoThread}
        /\ places \in [Consumers -> Places]
        /\ \A d \in Consumers : places[d] # at[d] => places[d] = "calling"
    OBVIOUS
  <2>2. EnterRegion(r, thread[c], places)
    BY <1>3 DEF ExecuteNested
  <2> HIDE DEF places
  <2> QED
    BY <1>1, <2>1, <2>2
<1>4. ASSUME NEW r \in Regions, NEW n \in Nat, Dispatch(r, n),
             at[Caller(r)] \in {"reserve", "recruit"},
             UNCHANGED <<poolVars, workVars, next_helper, remaining, outcome,
                         thread, position, chunk_begin, sessionVars, visits>>
      PROVE  Types'
  <2>1. Caller(r) \in Consumers /\ Caller(r)[1] = r /\ Total[r] \in Nat
    BY CallerParts, ProgramAssumption
  <2>2. helpers_to_submit(r, n) \in Nat
    BY SubmitBounds
  <2>3. direct' \in [Regions -> BOOLEAN]
    BY <1>4, Zenon DEF Dispatch
  <2> QED
    BY <1>4, <2>1, <2>2, <2>3 DEF Dispatch
<1>5. ASSUME NEW r \in Regions, ReserveNothing(r) PROVE Types'
  BY <1>4, <1>5 DEF ReserveNothing
<1>6. ASSUME NEW r \in Regions, CallerOwned(r) PROVE Types'
  BY <1>6, CallerParts DEF CallerOwned
<1>7. ASSUME NEW r \in Regions, CallerLeased(r) PROVE Types'
  <2>1. Session[r] \in Sessions
    BY <1>7, ProgramAssumption DEF CallerLeased
  <2> QED
    BY <1>7, <2>1, CallerParts, ReserveType DEF CallerLeased
<1>8. ASSUME NEW r \in Regions, CallerRefused(r) PROVE Types'
  BY <1>8, CallerParts DEF CallerRefused
<1>9. ASSUME NEW r \in Regions, RecruitHelper(r) PROVE Types'
  <2>1. <<r, Recruited(r) + 1>> \in Consumers /\ Session[r] \in Sessions
    BY <1>9, RecruitIsJob DEF RecruitHelper
  <2>2. /\ holds' \in [Consumers -> BOOLEAN]
        /\ leased_workers' \in [Sessions -> Nat]
        /\ maximum_leased_workers' \in [Sessions -> Nat]
    BY <1>9, <2>1, ReserveType DEF RecruitHelper
  <2> QED
    BY <1>9, <2>2 DEF RecruitHelper
<1>10. ASSUME NEW r \in Regions, RecruitEnds(r) PROVE Types'
  <2>1. Recruited(r) \in Nat
    BY RecruitedType
  <2> QED
    BY <1>4, <1>10, <2>1 DEF RecruitEnds
<1>11. ASSUME NEW r \in Regions, RegisterHelper(r) PROVE Types'
  BY <1>11, CallerParts DEF RegisterHelper
<1>12. ASSUME NEW r \in Regions, SubmitHelper(r) PROVE Types'
  <2>1. <<r, next_helper[r]>> \in Jobs /\ <<r, next_helper[r]>> \in Consumers
    BY <1>12, SubmittedIsJob DEF SubmitHelper
  <2>2. worker' \in [Workers -> {"asleep", "ready", "busy", "exited"}]
    BY <1>12, NotifyType DEF SubmitHelper
  <2>3. /\ jobs' = jobs \cup {<<r, next_helper[r]>>}
        /\ ticket' = [ticket EXCEPT ![<<r, next_helper[r]>>] = next_ticket]
        /\ next_ticket' = next_ticket + 1 /\ active_jobs' = active_jobs + 1
        /\ next_helper' = [next_helper EXCEPT ![r] = @ + 1]
    BY <1>12 DEF SubmitHelper
  <2>4. /\ at' \in [Consumers -> Places]
        /\ \A c \in Consumers : at'[c] \in {at[c], "publish", "queued"}
    BY <1>12, <2>1, CallerParts DEF SubmitHelper
  <2>5. UNCHANGED <<busy_workers, stop, workVars, helper_count, remaining,
                    direct, outcome, thread, chunkVars, sessionVars, visits>>
    BY <1>12 DEF SubmitHelper
  <2> QED
    <3>1. /\ jobs' \in SUBSET Jobs
          /\ ticket' \in [Jobs -> Nat]
      BY <2>1, <2>3
    <3>2. next_helper' \in [Regions -> Nat]
      BY <2>3
    <3>3. next_ticket' \in Nat /\ active_jobs' \in Nat
      BY <2>3
    <3>4. ChunksOrdered'
      BY <2>4, <2>5
    <3> QED
      BY <2>2, <2>4, <2>5, <3>1, <3>2, <3>3, <3>4
<1>13. ASSUME NEW r \in Regions, SubmitFails(r) PROVE Types'
  <2>1. {<<r, next_helper[r]>>} \subseteq Consumers
    BY <1>13, SubmittedIsJob DEF SubmitFails
  <2>2. cancelled' \in [Regions -> BOOLEAN]
    BY <1>13, Zenon DEF SubmitFails
  <2>3. /\ holds' \in [Consumers -> BOOLEAN]
        /\ leased_workers' \in [Sessions -> Nat]
        /\ maximum_leased_workers' \in [Sessions -> Nat]
    BY <1>13, <2>1, ReleaseType DEF SubmitFails
  <2>4. remaining' \in [Regions -> Nat]
    BY <1>13 DEF SubmitFails
  <2>5. at' = [at EXCEPT ![Caller(r)] = "acquire"]
    BY <1>13 DEF SubmitFails
  <2>6. UNCHANGED <<poolVars, next_offset, completed_iterations, helper_count,
                    next_helper, direct, outcome, thread, chunkVars, visits>>
    BY <1>13 DEF SubmitFails
  <2> QED
    BY <2>2, <2>3, <2>4, <2>5, <2>6
<1>14. ASSUME NEW r \in Regions, PublishEnds(r) PROVE Types'
  BY <1>14, CallerParts DEF PublishEnds
<1>15. ASSUME NEW c \in Consumers, try_acquire(c) PROVE Types'
  <2>1. c[1] \in Regions /\ Total[c[1]] \in Nat
    BY ConsumerParts, ProgramAssumption
  <2>2. grain(c[1]) \in Nat
    BY <1>15, <2>1, GrainType DEF try_acquire
  <2> QED
    BY <1>15, <2>1, <2>2 DEF try_acquire, Smaller
<1>16. ASSUME NEW c \in Consumers, NoChunk(c) PROVE Types'
  BY <1>16 DEF NoChunk, AfterChunks
<1>17. ASSUME NEW c \in Consumers, CallBack(c) PROVE Types'
  <2>1. visits' = [visits EXCEPT ![c[1]][position[c]] = @ + 1]
    BY <1>17 DEF CallBack
  <2>2. ASSUME NEW r \in Regions PROVE visits'[r] \in [Indices(r) -> Nat]
    <3>1. CASE r = c[1]
      <4>1. visits'[r] = [visits[r] EXCEPT ![position[c]] = @ + 1]
        BY <2>1, <3>1
      <4>2. visits[r] \in [Indices(r) -> Nat]
        OBVIOUS
      <4>3. /\ position[c] \in Nat /\ chunk_end[c] \in Nat /\ Total[r] \in Nat
            /\ position[c] < chunk_end[c] /\ chunk_end[c] <= Total[r]
        BY <1>17, <3>1, ProgramAssumption DEF CallBack
      <4>4. position[c] \in Indices(r)
        BY ONLY <4>3 DEF Indices
      <4> QED
        BY <4>1, <4>2, <4>4, IncrementType
    <3>2. CASE r # c[1]
      BY <2>1, <3>2
    <3> QED
      BY <3>1, <3>2
  <2>3. visits' = [r \in Regions |-> visits'[r]]
    BY <2>1
  <2> QED
    BY <1>17, <2>2, <2>3 DEF CallBack
<1>18. ASSUME NEW c \in Consumers, CallBackReturns(c) PROVE Types'
  BY <1>18 DEF CallBackReturns
<1>19. ASSUME NEW c \in Consumers, CallBackThrows(c) PROVE Types'
  BY <1>19 DEF CallBackThrows, AfterChunks
<1>20. ASSUME NEW c \in Consumers, mark_complete(c) PROVE Types'
  BY <1>20, ConsumerParts DEF mark_complete
<1>21. ASSUME NEW r \in Regions, DirectEnds(r) PROVE Types'
  BY <1>21, CallerParts DEF DirectEnds
<1>22. ASSUME NEW j \in Jobs, DropLease(j) PROVE Types'
  BY <1>22, JobsAreConsumers, ReleaseType DEF DropLease
<1>23. ASSUME NEW j \in Jobs, FinishHelper(j) PROVE Types'
  <2>1. j \in Consumers /\ j[1] \in Regions /\ Caller(j[1]) \in Consumers
    BY JobsAreConsumers, ConsumerParts, CallerParts
  <2> QED
    BY <1>23, <2>1 DEF FinishHelper
<1>24. ASSUME NEW j \in Jobs, FinishWorkerJob(j) PROVE Types'
  <2>1. j \in Consumers /\ j[1] \in Regions /\ Caller(j[1]) \in Consumers
    BY JobsAreConsumers, ConsumerParts, CallerParts
  <2>2. worker' \in [Workers -> {"asleep", "ready", "busy", "exited"}]
    BY <1>24 DEF FinishWorkerJob
  <2>5. busy_workers' \in Nat /\ active_jobs' \in Nat
    BY <1>24 DEF FinishWorkerJob
  <2>3. /\ thread' \in [Consumers -> Threads \cup {NoThread}]
        /\ at' \in [Consumers -> Places]
        /\ \A c \in Consumers : at'[c] \in {at[c], "done", "wait"}
    BY <1>24, <2>1 DEF FinishWorkerJob
  <2>4. UNCHANGED <<jobs, ticket, next_ticket, stop, workVars, regionVars,
                    chunkVars, sessionVars, visits>>
    BY <1>24 DEF FinishWorkerJob
  <2> QED
    BY <2>2, <2>3, <2>4, <2>5
<1>25. ASSUME NEW j \in Jobs, FinishCallerJob(j) PROVE Types'
  <2>1. j \in Consumers /\ j[1] \in Regions /\ Caller(j[1]) \in Consumers
    BY JobsAreConsumers, ConsumerParts, CallerParts
  <2>2. worker' = worker /\ busy_workers' = busy_workers /\ active_jobs' \in Nat
    BY <1>25 DEF FinishCallerJob
  <2>3. /\ thread' \in [Consumers -> Threads \cup {NoThread}]
        /\ at' \in [Consumers -> Places]
        /\ \A c \in Consumers : at'[c] \in {at[c], "done", "wait"}
    BY <1>25, <2>1 DEF FinishCallerJob
  <2>4. UNCHANGED <<jobs, ticket, next_ticket, stop, workVars, regionVars,
                    chunkVars, sessionVars, visits>>
    BY <1>25 DEF FinishCallerJob
  <2> QED
    BY <2>2, <2>3, <2>4
<1>26. ASSUME NEW r \in Regions, KeepIdleHelpers(r) PROVE Types'
  BY <1>26, CallerParts DEF KeepIdleHelpers
<1>27. ASSUME NEW r \in Regions, CancelIdleHelpers(r) PROVE Types'
  <2>1. QueuedOf(r) \subseteq Consumers /\ Cardinality(QueuedOf(r)) \in Nat
    BY SubsetOfConsumers, JobsAreConsumers DEF QueuedOf
  <2> QED
    BY <1>27, <2>1, ReleaseType DEF CancelIdleHelpers
<1>28. ASSUME NEW r \in Regions, DiscountErased(r) PROVE Types'
  <2>1. Cardinality(Erased(r)) \in Nat
    BY SubsetOfConsumers, JobsAreConsumers DEF Erased, JobsOf
  <2> QED
    BY <1>28, <2>1 DEF DiscountErased
<1>29. ASSUME NEW r \in Regions, NEW j \in Jobs, HelpOwnRegion(r, j) PROVE Types'
  BY <1>29, JobsAreConsumers, CallerParts DEF HelpOwnRegion
<1>30. ASSUME NEW r \in Regions, WaitEnds(r) PROVE Types'
  BY <1>30, CallerParts DEF WaitEnds
<1>31. ASSUME NEW r \in Regions, Leave(r) PROVE Types'
  <2>1. {Caller(r)} \cup {j \in JobsOf(r) : at[j] = "idle"} \subseteq Consumers
    BY CallerParts, JobsAreConsumers DEF JobsOf
  <2> QED
    BY <1>31, <2>1, ReleaseType, CallerParts DEF Leave
<1>32. ASSUME NEW w \in Workers, NEW j \in Jobs, TakeJob(w, j) PROVE Types'
  BY <1>32, JobsAreConsumers DEF TakeJob, Threads
<1>33. ASSUME NEW w \in Workers, Sleep(w) \/ Exit(w) PROVE Types'
  BY <1>33 DEF Sleep, Exit
<1>34. CASE StopPool
  BY <1>34 DEF StopPool
<1>35. CASE Terminated \/ UNCHANGED vars
  BY <1>35 DEF Terminated
<1> QED
  BY <1>2, <1>3, <1>5, <1>6, <1>7, <1>8, <1>9, <1>10, <1>11, <1>12, <1>13,
     <1>14, <1>15, <1>16, <1>17, <1>18, <1>19, <1>20, <1>21, <1>22, <1>23,
     <1>24, <1>25, <1>26, <1>27, <1>28, <1>29, <1>30, <1>31, <1>32, <1>33,
     <1>34, <1>35
  DEF Next, CallerStep, ConsumerStep, HelperStep, WorkerStep

\* HelpersExist depends only on the submission counters and on callers that
\* recruit or submit.
LEMMA HelpersFrame ==
    ASSUME HelpersExist, UNCHANGED <<helper_count, next_helper>>,
           \A r \in Regions : at'[Caller(r)] # at[Caller(r)]
               => at'[Caller(r)] \notin {"submit", "recruit"}
    PROVE  HelpersExist'
BY DEF HelpersExist

LEMMA HelpersStep == TypeInv /\ [Next]_vars => HelpersExist'
<1> SUFFICES ASSUME TypeInv, [Next]_vars PROVE HelpersExist'
    OBVIOUS
<1> USE DEF TypeInv, Goto
<1>0. /\ at \in [Consumers -> Places]
      /\ helper_count \in [Regions -> Nat] /\ next_helper \in [Regions -> Nat]
      /\ busy_workers \in Nat
      /\ HelpersExist
  BY DEF Types, TypeOK
<1>c. \A r \in Regions : Caller(r) \in Consumers
  BY CallerParts
<1>1. ASSUME NEW r \in Regions, NEW t, NEW places \in [Consumers -> Places],
             \A c \in Consumers : places[c] # at[c] => places[c] = "calling",
             EnterRegion(r, t, places)
      PROVE  HelpersExist'
  <2>1. /\ helper_count'[r] \in Nat /\ helper_count'[r] < thread_count
        /\ \A q \in Regions \ {r} : helper_count'[q] = helper_count[q]
    BY <1>0, <1>1, BudgetType, RecommendedBounds, ThreadCountType DEF EnterRegion
  <2>2. \A q \in Regions : at'[Caller(q)] # at[Caller(q)]
           => at'[Caller(q)] \notin {"submit", "recruit"}
    BY <1>c, <1>1 DEF EnterRegion
  <2>3. at[Caller(r)] = "idle" /\ at'[Caller(r)] \notin {"submit", "recruit"}
    BY <1>c, <1>1 DEF EnterRegion
  <2> QED
    BY <1>0, <1>1, <2>1, <2>2, <2>3 DEF EnterRegion, HelpersExist
<1>2. ASSUME NEW r \in Regions, ExecuteRoot(r) PROVE HelpersExist'
  BY <1>0, <1>1, <1>2 DEF ExecuteRoot
<1>3. ASSUME NEW c \in Consumers, NEW r \in Regions, ExecuteNested(c, r)
      PROVE  HelpersExist'
  <2> DEFINE places == [at EXCEPT ![c] = "calling"]
  <2>1. /\ places \in [Consumers -> Places]
        /\ \A d \in Consumers : places[d] # at[d] => places[d] = "calling"
    BY <1>0 DEF Places, Consuming
  <2>2. EnterRegion(r, thread[c], places)
    BY <1>3 DEF ExecuteNested
  <2> HIDE DEF places
  <2> QED
    BY <1>1, <2>1, <2>2
<1>4. ASSUME NEW r \in Regions, NEW n \in Nat, Dispatch(r, n),
             UNCHANGED next_helper
      PROVE  HelpersExist'
  <2>1. /\ helper_count'[r] < thread_count
        /\ \A q \in Regions \ {r} : helper_count'[q] = helper_count[q]
    BY <1>0, <1>4, SubmitBounds DEF Dispatch
  <2>2. at'[Caller(r)] \notin {"submit", "recruit"}
    BY <1>0, <1>c, <1>4 DEF Dispatch
  <2>3. \A q \in Regions \ {r} : at'[Caller(q)] = at[Caller(q)]
    BY <1>0, <1>c, <1>4, CallersDiffer DEF Dispatch
  <2> QED
    BY <1>0, <1>4, <2>1, <2>2, <2>3 DEF HelpersExist
<1>5. ASSUME NEW r \in Regions, ReserveNothing(r) PROVE HelpersExist'
  BY <1>0, <1>4, <1>5 DEF ReserveNothing
<1>6. ASSUME NEW r \in Regions, CallerOwned(r) \/ CallerLeased(r)
      PROVE  HelpersExist'
  <2>1. Session[r] \in Sessions /\ UNCHANGED <<helper_count, next_helper>>
    BY <1>6, ProgramAssumption DEF CallerOwned, CallerLeased
  <2>2. at' = [at EXCEPT ![Caller(r)] = "recruit"]
    BY <1>6 DEF CallerOwned, CallerLeased
  <2> QED
    BY <1>0, <1>c, <2>1, <2>2, CallersDiffer DEF HelpersExist
<1>8. ASSUME NEW r \in Regions, CallerRefused(r) PROVE HelpersExist'
  <2>1. Session[r] \in Sessions /\ UNCHANGED next_helper
    BY <1>8, ProgramAssumption DEF CallerRefused
  <2>2. /\ at' = [at EXCEPT ![Caller(r)] = "recruit"]
        /\ helper_count' = [helper_count EXCEPT ![r] = 0]
    BY <1>8 DEF CallerRefused
  <2> QED
    BY <1>0, <1>c, <2>1, <2>2, CallersDiffer, ThreadCountType DEF HelpersExist
<1>9. ASSUME NEW r \in Regions, RecruitHelper(r) PROVE HelpersExist'
  BY <1>0, <1>9, HelpersFrame DEF RecruitHelper
<1>10. ASSUME NEW r \in Regions, RecruitEnds(r) PROVE HelpersExist'
  <2>1. Recruited(r) \in Nat
    BY RecruitedType
  <2> QED
    BY <1>4, <1>10, <2>1 DEF RecruitEnds
<1>11. ASSUME NEW r \in Regions, RegisterHelper(r) PROVE HelpersExist'
  <2>1. /\ next_helper[r] <= helper_count[r]
        /\ UNCHANGED <<helper_count, next_helper>>
        /\ at' = [at EXCEPT ![Caller(r)] = "submit"]
    BY <1>11 DEF RegisterHelper
  <2> QED
    BY <1>0, <1>c, <2>1, CallersDiffer DEF HelpersExist
<1>12. ASSUME NEW r \in Regions, SubmitHelper(r) PROVE HelpersExist'
  <2>1. /\ next_helper' = [next_helper EXCEPT ![r] = @ + 1]
        /\ UNCHANGED helper_count
    BY <1>12 DEF SubmitHelper
  <2>2. \A q \in Regions : at'[Caller(q)] =
            IF q = r THEN "publish" ELSE at[Caller(q)]
    <3>1. <<r, next_helper[r]>> \in Jobs
      BY <1>0, <1>12, JobParts, ThreadCountType DEF SubmitHelper, HelpersExist
    <3> QED
      BY <1>0, <1>12, <3>1, CallerParts, CallersDiffer DEF SubmitHelper
  <2> QED
    BY <1>0, <2>1, <2>2 DEF HelpersExist
<1>13. ASSUME NEW r \in Regions,
              SubmitFails(r) \/ PublishEnds(r) \/ DirectEnds(r)
              \/ KeepIdleHelpers(r) \/ WaitEnds(r)
       PROVE  HelpersExist'
  <2>1. \E p \in {"acquire", "leave", "wait"} : at' = [at EXCEPT ![Caller(r)] = p]
    BY <1>13 DEF SubmitFails, PublishEnds, DirectEnds, KeepIdleHelpers, WaitEnds
  <2>2. UNCHANGED <<helper_count, next_helper>>
    BY <1>13 DEF SubmitFails, PublishEnds, DirectEnds, KeepIdleHelpers, WaitEnds
  <2> QED
    BY <1>0, <1>c, <2>1, <2>2, HelpersFrame
<1>15. ASSUME NEW c \in Consumers,
              \/ try_acquire(c) \/ NoChunk(c) \/ CallBack(c)
              \/ CallBackReturns(c) \/ CallBackThrows(c) \/ mark_complete(c)
       PROVE  HelpersExist'
  <2>1. \E p \in {"chunk", "retire", "drop", "running", "leave", "acquire"} :
           at' = [at EXCEPT ![c] = p]
    BY <1>15 DEF try_acquire, NoChunk, CallBack, CallBackReturns,
                 CallBackThrows, mark_complete, AfterChunks
  <2>2. UNCHANGED <<helper_count, next_helper>>
    BY <1>15 DEF try_acquire, NoChunk, CallBack, CallBackReturns,
                 CallBackThrows, mark_complete
  <2> QED
    BY <1>0, <1>c, <2>1, <2>2, HelpersFrame
<1>22. ASSUME NEW j \in Jobs,
              DropLease(j) \/ FinishHelper(j) \/ FinishWorkerJob(j)
       PROVE  HelpersExist'
  <2>1. \E p \in {"finish", "retired", "done"} : at' = [at EXCEPT ![j] = p]
    BY <1>22 DEF DropLease, FinishHelper, FinishWorkerJob
  <2>2. UNCHANGED <<helper_count, next_helper>>
    BY <1>22 DEF DropLease, FinishHelper, FinishWorkerJob
  <2> QED
    BY <1>0, <1>c, <2>1, <2>2, HelpersFrame
<1>25. ASSUME NEW j \in Jobs, FinishCallerJob(j) PROVE HelpersExist'
  BY <1>0, <1>c, <1>25, HelpersFrame DEF FinishCallerJob
<1>27. ASSUME NEW r \in Regions, CancelIdleHelpers(r) \/ DiscountErased(r)
       PROVE  HelpersExist'
  BY <1>0, <1>c, <1>27, HelpersFrame DEF CancelIdleHelpers, DiscountErased
<1>29. ASSUME NEW r \in Regions, NEW j \in Jobs, HelpOwnRegion(r, j)
       PROVE  HelpersExist'
  BY <1>0, <1>c, <1>29, HelpersFrame DEF HelpOwnRegion
<1>31. ASSUME NEW r \in Regions, Leave(r) PROVE HelpersExist'
  BY <1>0, <1>c, <1>31, HelpersFrame DEF Leave
<1>32. ASSUME NEW w \in Workers, NEW j \in Jobs, TakeJob(w, j)
       PROVE  HelpersExist'
  BY <1>0, <1>c, <1>32, HelpersFrame DEF TakeJob
<1>33. ASSUME NEW w \in Workers, Sleep(w) \/ Exit(w) PROVE HelpersExist'
  BY <1>0, <1>33, HelpersFrame DEF Sleep, Exit
<1>34. CASE StopPool \/ Terminated \/ UNCHANGED vars
  BY <1>0, <1>34, HelpersFrame DEF StopPool, Terminated
<1> QED
  BY <1>2, <1>3, <1>5, <1>6, <1>8, <1>9, <1>10, <1>11, <1>12, <1>13, <1>15,
     <1>22, <1>25, <1>27, <1>29, <1>31, <1>32, <1>33, <1>34
  DEF Next, CallerStep, ConsumerStep, HelperStep, WorkerStep

LEMMA TypeStep == TypeInv /\ [Next]_vars => TypeInv'
BY TypesStep, HelpersStep DEF TypeInv

\* The variables of the pool keep their types, and every chunk that try_acquire
\* hands out lies inside its region, for regions and chunks of any size.
THEOREM PoolTypeCorrect == Spec => []TypeOK
<1>1. TypeInv => TypeOK
  BY DEF TypeInv, Types
<1> QED
  BY <1>1, TypeInit, TypeStep, PTL DEF Spec

-----------------------------------------------------------------------------
(* The life of a region and of its helpers.                                *)

CallersAt == {"idle", "done"} \cup Consuming \cup CallerPlaces
HelpersAt == {"idle", "done"} \cup Consuming \cup HelperPlaces

\* A helper that is registered and has not reported.
OutstandingAt == {"queued", "erased", "drop", "finish"} \cup Consuming
Outstanding(r) == {j \in JobsOf(r) : at[j] \in OutstandingAt}

\* Callers and helpers have their own places, and the queue holds the queued
\* helpers.
PlacesApart ==
    /\ \A r \in Regions : at[Caller(r)] \in CallersAt
    /\ \A j \in Jobs : at[j] \in HelpersAt
    /\ \A j \in Jobs : j \in jobs <=> at[j] = "queued"

\* Where the caller of a region without helpers can be.
DirectAt == {"chunk", "running", "calling", "leave", "done"}

\* The submission loop has submitted exactly the helpers below its counter; a
\* region that runs sequentially has none.
Submission ==
    \A r \in Regions :
        /\ \A j \in JobsOf(r) : at[j] = "idle" <=> j[2] >= next_helper[r]
        /\ at[Caller(r)] \in {"idle", "reserve", "recruit"} => next_helper[r] = 1
        /\ direct[r] => next_helper[r] = 1 /\ at[Caller(r)] \in DirectAt

\* A caller that leaves has no outstanding helper, and only a caller that has
\* left has an outcome.
Departure ==
    \A r \in Regions :
        /\ at[Caller(r)] \in {"leave", "done"}
              => \A j \in JobsOf(r) : at[j] \notin OutstandingAt
        /\ outcome[r] # "none" => at[Caller(r)] = "done"

LifeInv == PlacesApart /\ Submission /\ Departure

\* The completion count: the helper of the submission in progress is
\* registered and not yet queued.
RemainingExact ==
    \A r \in Regions :
        remaining[r] = Cardinality(Outstanding(r))
                       + (IF at[Caller(r)] = "submit" THEN 1 ELSE 0)

\* All helpers of a region that has submitted none are idle.
LEMMA NoneSubmitted ==
    ASSUME Submission, NEW r \in Regions, next_helper[r] = 1
    PROVE  \A j \in JobsOf(r) : at[j] = "idle"
BY ConsumerParts, JobsAreConsumers DEF Submission, JobsOf

LEMMA LifeInit == Init => LifeInv
<1> SUFFICES ASSUME Init PROVE LifeInv
    OBVIOUS
<1>1. \A c \in Consumers : at[c] = "idle"
  BY DEF Init
<1>2. \A j \in Jobs : j[2] >= 1 /\ j \in Consumers
  BY DEF Jobs, Consumers
<1>3. \A r \in Regions : Caller(r) \in Consumers /\ JobsOf(r) \subseteq Jobs
  BY CallerParts DEF JobsOf
<1>4. \A r \in Regions : /\ next_helper[r] = 1 /\ ~direct[r]
                         /\ outcome[r] = "none"
  BY DEF Init
<1>5. PlacesApart
  BY <1>1, <1>2, <1>3 DEF PlacesApart, Init, CallersAt, HelpersAt
<1>6. Submission
  BY <1>1, <1>2, <1>3, <1>4 DEF Submission
<1>7. Departure
  BY <1>1, <1>3, <1>4 DEF Departure
<1> QED
  BY <1>5, <1>6, <1>7 DEF LifeInv

\* A caller moves on and nothing else does.
LEMMA CallerMoves ==
    ASSUME TypeInv, LifeInv, NEW r \in Regions, NEW p \in CallersAt,
           at' = [at EXCEPT ![Caller(r)] = p],
           UNCHANGED <<jobs, next_helper, direct, outcome>>,
           at[Caller(r)] # "done",
           p \in {"idle", "reserve", "recruit"} => next_helper[r] = 1,
           direct[r] => p \in DirectAt,
           p \in {"leave", "done"}
              => \A j \in JobsOf(r) : at[j] \notin OutstandingAt
    PROVE  LifeInv'
<1>1. at \in [Consumers -> Places]
  BY DEF TypeInv, Types, TypeOK
<1>2. /\ \A j \in Jobs : j \in Consumers /\ at'[j] = at[j]
      /\ \A q \in Regions : JobsOf(q) \subseteq Jobs
  BY <1>1, CallerParts, JobsAreConsumers DEF JobsOf
<1>3. \A q \in Regions : at'[Caller(q)] = IF q = r THEN p ELSE at[Caller(q)]
  BY <1>1, CallerParts, CallersDiffer
<1>4. PlacesApart'
  BY <1>2, <1>3 DEF LifeInv, PlacesApart
<1>5. Submission'
  BY <1>2, <1>3 DEF LifeInv, Submission
<1>6. Departure'
  BY <1>2, <1>3 DEF LifeInv, Departure
<1> QED
  BY <1>4, <1>5, <1>6 DEF LifeInv

\* A submitted helper moves on, out of the queue.
LEMMA HelperMoves ==
    ASSUME TypeInv, LifeInv, NEW j \in Jobs, NEW p \in HelpersAt \ {"idle", "queued"},
           at' = [at EXCEPT ![j] = p],
           UNCHANGED <<next_helper, direct, outcome>>,
           jobs' = jobs \ {j},
           at[j] # "idle",
           p \in OutstandingAt => at[j] \in OutstandingAt
    PROVE  LifeInv'
<1>1. at \in [Consumers -> Places]
  BY DEF TypeInv, Types, TypeOK
<1>2. /\ \A i \in Jobs : i \in Consumers /\ at'[i] = IF i = j THEN p ELSE at[i]
      /\ \A q \in Regions : JobsOf(q) \subseteq Jobs
  BY <1>1, JobsAreConsumers DEF JobsOf
<1>3. \A q \in Regions : at'[Caller(q)] = at[Caller(q)]
  BY <1>1, CallerParts
<1>4. PlacesApart'
  BY <1>2, <1>3 DEF LifeInv, PlacesApart
<1>5. Submission'
  BY <1>2, <1>3 DEF LifeInv, Submission
<1>6. Departure'
  BY <1>2, <1>3 DEF LifeInv, Departure
<1> QED
  BY <1>4, <1>5, <1>6 DEF LifeInv

LEMMA LifeStep == TypeInv /\ LifeInv /\ RemainingExact /\ [Next]_vars => LifeInv'
<1> SUFFICES ASSUME TypeInv, LifeInv, RemainingExact, [Next]_vars PROVE LifeInv'
    OBVIOUS
<1> USE DEF Goto, CallersAt, HelpersAt, OutstandingAt, DirectAt, Consuming,
            CallerPlaces, HelperPlaces
<1>0. /\ at \in [Consumers -> Places] /\ direct \in [Regions -> BOOLEAN]
      /\ next_helper \in [Regions -> Nat] /\ jobs \subseteq Jobs
      /\ PlacesApart /\ Submission /\ Departure
  BY DEF TypeInv, Types, TypeOK, LifeInv
<1>c. \A r \in Regions : Caller(r) \in Consumers /\ Caller(r) \notin Jobs
  BY CallerParts
<1>j. \A j \in Jobs : j \in Consumers /\ j[1] \in Regions /\ j \in JobsOf(j[1])
  BY JobsAreConsumers, ConsumerParts
<1>1. ASSUME NEW r \in Regions, NEW t, NEW places \in [Consumers -> Places],
             \A c \in Consumers : places[c] # at[c]
                 => places[c] = "calling" /\ at[c] = "running",
             EnterRegion(r, t, places)
      PROVE  LifeInv'
  <2>1. at' = [places EXCEPT ![Caller(r)] =
                 IF Total[r] = 0 THEN "leave" ELSE "reserve"]
    BY <1>1 DEF EnterRegion
  <2>2. /\ at[Caller(r)] = "idle" /\ outcome[r] = "none"
        /\ UNCHANGED <<jobs, next_helper, direct, outcome>>
    BY <1>1 DEF EnterRegion
  <2>3. \A q \in Regions : q # r =>
           \/ at'[Caller(q)] = at[Caller(q)]
           \/ at'[Caller(q)] = "calling" /\ at[Caller(q)] = "running"
    BY <1>c, <1>1, <2>1, CallersDiffer
  <2>4. \A j \in Jobs :
           at'[j] = at[j] \/ (at'[j] = "calling" /\ at[j] = "running")
    <3> TAKE j \in Jobs
    <3>1. at'[j] = places[j]
      BY <1>c, <1>j, <1>1, <2>1
    <3>2. places[j] # at[j] => places[j] = "calling" /\ at[j] = "running"
      BY <1>j, <1>1
    <3> QED
      BY <3>1, <3>2
  <2>5. at'[Caller(r)] \in {"leave", "reserve"}
    BY <1>c, <1>1, <2>1
  <2>6. next_helper[r] = 1 /\ \A j \in JobsOf(r) : at'[j] = "idle"
    <3>1. next_helper[r] = 1
      BY <1>0, <2>2 DEF Submission
    <3>2. \A j \in JobsOf(r) : at[j] = "idle" /\ j \in Jobs
      BY <1>0, <3>1, NoneSubmitted DEF JobsOf
    <3> QED
      BY <2>4, <3>1, <3>2
  <2>7. ~direct[r]
    BY <1>0, <2>2 DEF Submission
  <2>8. \A q \in Regions : JobsOf(q) \subseteq Jobs
    BY DEF JobsOf
  <2>9. PlacesApart'
    BY <1>0, <2>2, <2>3, <2>4, <2>5 DEF PlacesApart
  <2>10. Submission'
    BY <1>0, <2>2, <2>3, <2>4, <2>5, <2>6, <2>7, <2>8 DEF Submission
  <2>11. Departure'
    BY <1>0, <2>2, <2>3, <2>4, <2>5, <2>6, <2>8 DEF Departure
  <2> QED
    BY <2>9, <2>10, <2>11 DEF LifeInv
<1>2. ASSUME NEW r \in Regions, ExecuteRoot(r) PROVE LifeInv'
  BY <1>0, <1>1, <1>2 DEF ExecuteRoot
<1>3. ASSUME NEW c \in Consumers, NEW r \in Regions, ExecuteNested(c, r)
      PROVE  LifeInv'
  <2> DEFINE places == [at EXCEPT ![c] = "calling"]
  <2>1. /\ places \in [Consumers -> Places]
        /\ \A d \in Consumers : places[d] # at[d]
              => places[d] = "calling" /\ at[d] = "running"
    BY <1>0, <1>3 DEF Places, ExecuteNested
  <2>2. EnterRegion(r, thread[c], places)
    BY <1>3 DEF ExecuteNested
  <2> HIDE DEF places
  <2> QED
    BY <1>1, <2>1, <2>2
<1>4. ASSUME NEW r \in Regions, NEW n, Dispatch(r, n),
             at[Caller(r)] \in {"reserve", "recruit"},
             UNCHANGED <<jobs, next_helper, outcome>>
      PROVE  LifeInv'
  <2>1. /\ direct' = [direct EXCEPT ![r] = n = 0]
        /\ at' = [at EXCEPT ![Caller(r)] = IF n = 0 THEN "chunk" ELSE "publish"]
    BY <1>4 DEF Dispatch
  <2>2. next_helper[r] = 1
    BY <1>0, <1>4 DEF Submission
  <2>3. /\ \A j \in Jobs : at'[j] = at[j]
        /\ \A q \in Regions : JobsOf(q) \subseteq Jobs
    BY <1>0, <1>c, <1>j, <2>1 DEF JobsOf
  <2>4. \A q \in Regions : at'[Caller(q)] =
          IF q = r THEN IF n = 0 THEN "chunk" ELSE "publish" ELSE at[Caller(q)]
    BY <1>0, <1>c, <2>1, CallersDiffer
  <2>5. \A q \in Regions : direct'[q] = IF q = r THEN n = 0 ELSE direct[q]
    BY <1>0, <2>1
  <2>6. PlacesApart'
    BY <1>0, <1>4, <2>3, <2>4 DEF PlacesApart
  <2>7. Submission'
    BY <1>0, <1>4, <2>2, <2>3, <2>4, <2>5 DEF Submission
  <2>8. Departure'
    BY <1>0, <1>4, <2>3, <2>4 DEF Departure
  <2> QED
    BY <2>6, <2>7, <2>8 DEF LifeInv
<1>5. ASSUME NEW r \in Regions, ReserveNothing(r) \/ RecruitEnds(r) PROVE LifeInv'
  BY <1>4, <1>5 DEF ReserveNothing, RecruitEnds
<1>6. ASSUME NEW r \in Regions,
             CallerOwned(r) \/ CallerLeased(r) \/ CallerRefused(r)
      PROVE  LifeInv'
  <2>1. /\ at[Caller(r)] = "reserve" /\ at' = [at EXCEPT ![Caller(r)] = "recruit"]
        /\ UNCHANGED <<jobs, next_helper, direct, outcome>>
    BY <1>6 DEF CallerOwned, CallerLeased, CallerRefused
  <2>2. next_helper[r] = 1 /\ ~direct[r]
    BY <1>0, <2>1 DEF Submission
  <2> QED
    BY <2>1, <2>2, CallerMoves
<1>9. ASSUME NEW r \in Regions, RecruitHelper(r) PROVE LifeInv'
  BY <1>9 DEF RecruitHelper, LifeInv, PlacesApart, Submission, Departure
<1>11. ASSUME NEW r \in Regions,
              \/ RegisterHelper(r) \/ SubmitFails(r) \/ PublishEnds(r)
              \/ KeepIdleHelpers(r)
       PROVE  LifeInv'
  <2>1. /\ at[Caller(r)] \in {"publish", "submit", "retire"}
        /\ \E p \in {"submit", "acquire", "wait"} : at' = [at EXCEPT ![Caller(r)] = p]
        /\ UNCHANGED <<jobs, next_helper, direct, outcome>>
    BY <1>11 DEF RegisterHelper, SubmitFails, PublishEnds, KeepIdleHelpers
  <2>2. ~direct[r]
    BY <1>0, <2>1 DEF Submission
  <2> QED
    BY <2>1, <2>2, CallerMoves
<1>12. ASSUME NEW r \in Regions, SubmitHelper(r) PROVE LifeInv'
  <2> DEFINE k == <<r, next_helper[r]>>
  <2>1. /\ at[Caller(r)] = "submit" /\ jobs' = jobs \cup {k}
        /\ UNCHANGED <<direct, outcome>>
    BY <1>12 DEF SubmitHelper
  <2>a. /\ at' = [at EXCEPT ![Caller(r)] = "publish", ![k] = "queued"]
        /\ next_helper' = [next_helper EXCEPT ![r] = @ + 1]
    BY <1>12 DEF SubmitHelper
  <2>2. k \in JobsOf(r) /\ k \in Jobs /\ k \in Consumers
    BY <2>1, SubmittedIsJob
  <2>k. k[2] = next_helper[r]
    OBVIOUS
  <2>3. \A j \in Jobs : j \in JobsOf(r) /\ j[2] = next_helper[r] <=> j = k
    BY ConsumerParts, JobsAreConsumers DEF JobsOf
  <2> HIDE DEF k
  <2>4. /\ \A j \in Jobs : at'[j] = IF j = k THEN "queued" ELSE at[j]
        /\ \A q \in Regions : JobsOf(q) \subseteq Jobs
    BY <1>0, <1>c, <1>j, <2>a, <2>2 DEF JobsOf
  <2>5. \A q \in Regions : at'[Caller(q)] =
          IF q = r THEN "publish" ELSE at[Caller(q)]
    BY <1>0, <1>c, <2>a, <2>2, CallersDiffer
  <2>6. \A q \in Regions : next_helper'[q] =
          IF q = r THEN next_helper[r] + 1 ELSE next_helper[q]
    BY <1>0, <2>a
  <2>7. \A j \in Jobs : j[2] \in Nat
    BY <1>j, ConsumerParts
  <2>8. ~direct[r]
    BY <1>0, <2>1 DEF Submission
  <2>9. PlacesApart'
    BY <1>0, <2>1, <2>2, <2>4, <2>5 DEF PlacesApart
  <2>10. ASSUME NEW q \in Regions, NEW j \in JobsOf(q)
         PROVE  at'[j] = "idle" <=> j[2] >= next_helper'[q]
    <3>1. CASE q = r
      BY <1>0, <2>2, <2>k, <2>3, <2>4, <2>6, <2>7, <3>1 DEF Submission
    <3>2. CASE q # r
      <4>1. j # k
        BY <2>2, <3>2 DEF JobsOf
      <4> QED
        BY <1>0, <2>4, <2>6, <3>2, <4>1 DEF Submission
    <3> QED
      BY <3>1, <3>2
  <2>11. Submission'
    BY <1>0, <2>1, <2>5, <2>6, <2>8, <2>10 DEF Submission
  <2>12. Departure'
    <3>1. ASSUME NEW q \in Regions, at'[Caller(q)] \in {"leave", "done"},
                 NEW j \in JobsOf(q)
          PROVE  at'[j] \notin OutstandingAt
      <4>1. q # r /\ at[Caller(q)] \in {"leave", "done"}
        BY <2>5, <3>1
      <4>2. j # k
        BY <2>2, <4>1 DEF JobsOf
      <4> QED
        BY <1>0, <2>4, <4>1, <4>2 DEF Departure
    <3>2. \A q \in Regions : outcome'[q] # "none" => at'[Caller(q)] = "done"
      BY <1>0, <2>1, <2>5 DEF Departure
    <3> QED
      BY <3>1, <3>2 DEF Departure
  <2> QED
    BY <2>9, <2>11, <2>12 DEF LifeInv
<1>15. ASSUME NEW c \in Consumers,
              \/ try_acquire(c) \/ NoChunk(c) \/ CallBack(c)
              \/ CallBackReturns(c) \/ CallBackThrows(c) \/ mark_complete(c)
       PROVE  LifeInv'
  <2>1. /\ at[c] \in {"acquire", "chunk", "running"}
        /\ UNCHANGED <<jobs, next_helper, direct, outcome>>
    BY <1>15 DEF try_acquire, NoChunk, CallBack, CallBackReturns,
                 CallBackThrows, mark_complete
  <2>2. \/ /\ at[c] = "acquire"
           /\ \E p \in {"chunk", AfterChunks(c)} : at' = [at EXCEPT ![c] = p]
        \/ at[c] = "chunk" /\ at' = [at EXCEPT ![c] = "running"]
        \/ at[c] = "running" /\ at' = [at EXCEPT ![c] = "chunk"]
        \/ /\ at[c] = "running" /\ direct[c[1]]
           /\ at' = [at EXCEPT ![c] = "leave"]
        \/ /\ at[c] = "running" /\ ~direct[c[1]]
           /\ at' = [at EXCEPT ![c] = AfterChunks(c)]
        \/ /\ at[c] = "chunk" /\ ~direct[c[1]]
           /\ at' = [at EXCEPT ![c] = "acquire"]
    BY <1>15 DEF try_acquire, NoChunk, CallBack, CallBackReturns,
                 CallBackThrows, mark_complete
  <2>3. c[1] \in Regions
    BY ConsumerParts
  <2>4. CASE c \in Jobs
    <3>1. AfterChunks(c) = "drop" /\ c \notin jobs
      BY <1>0, <2>1, <2>4, ConsumerParts DEF AfterChunks, PlacesApart
    <3>2. ~direct[c[1]]
      BY <1>0, <1>j, <2>1, <2>3, <2>4, NoneSubmitted DEF Submission
    <3>3. \E p \in {"chunk", "drop", "running", "acquire"} : at' = [at EXCEPT ![c] = p]
      BY <2>2, <3>1, <3>2
    <3> QED
      BY <2>1, <2>4, <3>1, <3>3, HelperMoves
  <2>5. CASE c \notin Jobs
    <3>1. c = Caller(c[1]) /\ AfterChunks(c) = "retire"
      BY <2>5, ConsumerParts DEF AfterChunks
    <3>2. direct[c[1]] => \A j \in JobsOf(c[1]) : at[j] = "idle"
      BY <1>0, <2>3, NoneSubmitted DEF Submission
    <3>3. direct[c[1]] => at[c] # "acquire"
      BY <1>0, <2>3, <3>1 DEF Submission
    <3>4. \E p \in {"chunk", "retire", "running", "leave", "acquire"} :
            /\ at' = [at EXCEPT ![Caller(c[1])] = p]
            /\ direct[c[1]] => p \in DirectAt
            /\ p = "leave" => direct[c[1]]
      BY <2>2, <3>1, <3>3
    <3> QED
      BY <2>1, <2>3, <3>1, <3>2, <3>4, CallerMoves
  <2> QED
    BY <2>4, <2>5
<1>21. ASSUME NEW r \in Regions, DirectEnds(r) PROVE LifeInv'
  <2>1. /\ at[Caller(r)] = "chunk" /\ direct[r]
        /\ at' = [at EXCEPT ![Caller(r)] = "leave"]
        /\ UNCHANGED <<jobs, next_helper, direct, outcome>>
    BY <1>21 DEF DirectEnds
  <2>2. \A j \in JobsOf(r) : at[j] = "idle"
    BY <1>0, <2>1, NoneSubmitted DEF Submission
  <2> QED
    BY <2>1, <2>2, CallerMoves
<1>22. ASSUME NEW j \in Jobs,
              DropLease(j) \/ FinishHelper(j) \/ FinishWorkerJob(j)
       PROVE  LifeInv'
  <2>1. /\ \/ at[j] = "drop" /\ at' = [at EXCEPT ![j] = "finish"]
           \/ at[j] = "finish" /\ at' = [at EXCEPT ![j] = "retired"]
           \/ at[j] = "retired" /\ at' = [at EXCEPT ![j] = "done"]
        /\ UNCHANGED <<jobs, next_helper, direct, outcome>>
    BY <1>22 DEF DropLease, FinishHelper, FinishWorkerJob
  <2>2. jobs = jobs \ {j}
    BY <1>0, <2>1 DEF PlacesApart
  <2> QED
    BY <2>1, <2>2, HelperMoves
<1>25. ASSUME NEW j \in Jobs, FinishCallerJob(j) PROVE LifeInv'
  <2> DEFINE r == j[1]
  <2>1. /\ at[j] = "retired" /\ at[Caller(r)] = "helping"
        /\ UNCHANGED <<jobs, next_helper, direct, outcome>>
    BY <1>25 DEF FinishCallerJob, RunByCaller
  <2>a. at' = [at EXCEPT ![j] = "done", ![Caller(r)] = "wait"]
    BY <1>25 DEF FinishCallerJob
  <2>2. r \in Regions
    BY <1>j
  <2> HIDE DEF r
  <2>3. /\ \A i \in Jobs : at'[i] = IF i = j THEN "done" ELSE at[i]
        /\ \A q \in Regions : JobsOf(q) \subseteq Jobs
    BY <1>0, <1>c, <1>j, <2>a, <2>2 DEF JobsOf
  <2>4. \A q \in Regions : at'[Caller(q)] = IF q = r THEN "wait" ELSE at[Caller(q)]
    BY <1>0, <1>c, <2>a, <2>2, CallersDiffer
  <2>5. PlacesApart'
    BY <1>0, <2>1, <2>3, <2>4 DEF PlacesApart
  <2>6. Submission'
    BY <1>0, <2>1, <2>2, <2>3, <2>4 DEF Submission
  <2>7. Departure'
    BY <1>0, <2>1, <2>2, <2>3, <2>4 DEF Departure
  <2> QED
    BY <2>5, <2>6, <2>7 DEF LifeInv
<1>27. ASSUME NEW r \in Regions, CancelIdleHelpers(r) PROVE LifeInv'
  <2> DEFINE gone == QueuedOf(r)
             p == IF gone = {} THEN "wait" ELSE "discount"
  <2>1. /\ at[Caller(r)] = "retire"
        /\ jobs' = jobs \ gone
        /\ at' = [c \in Consumers |-> IF c \in gone THEN "erased"
                     ELSE IF c = Caller(r) THEN p ELSE at[c]]
        /\ UNCHANGED <<next_helper, direct, outcome>>
    BY <1>27 DEF CancelIdleHelpers
  <2>2. gone \subseteq Jobs /\ \A j \in gone : at[j] = "queued"
    BY <1>0 DEF QueuedOf, PlacesApart
  <2>p. p \in {"wait", "discount"}
    OBVIOUS
  <2> HIDE DEF gone, p
  <2>3. /\ \A j \in Jobs : at'[j] = IF j \in gone THEN "erased" ELSE at[j]
        /\ \A q \in Regions : JobsOf(q) \subseteq Jobs
    BY <1>c, <1>j, <2>1 DEF JobsOf
  <2>4. \A q \in Regions : at'[Caller(q)] = IF q = r THEN p ELSE at[Caller(q)]
    BY <1>c, <2>1, <2>2, CallersDiffer
  <2>5. PlacesApart'
    BY <1>0, <2>1, <2>2, <2>p, <2>3, <2>4 DEF PlacesApart
  <2>6. Submission'
    BY <1>0, <2>1, <2>2, <2>p, <2>3, <2>4 DEF Submission
  <2>7. Departure'
    BY <1>0, <2>1, <2>2, <2>p, <2>3, <2>4 DEF Departure
  <2> QED
    BY <2>5, <2>6, <2>7 DEF LifeInv
<1>28. ASSUME NEW r \in Regions, DiscountErased(r) PROVE LifeInv'
  <2> DEFINE gone == Erased(r)
  <2>1. /\ at[Caller(r)] = "discount"
        /\ at' = [c \in Consumers |-> IF c \in gone THEN "done"
                     ELSE IF c = Caller(r) THEN "wait" ELSE at[c]]
        /\ UNCHANGED <<jobs, next_helper, direct, outcome>>
    BY <1>28 DEF DiscountErased
  <2>2. gone \subseteq Jobs /\ \A j \in gone : at[j] = "erased"
    BY DEF Erased, JobsOf
  <2> HIDE DEF gone
  <2>3. /\ \A j \in Jobs : at'[j] = IF j \in gone THEN "done" ELSE at[j]
        /\ \A q \in Regions : JobsOf(q) \subseteq Jobs
    BY <1>c, <1>j, <2>1 DEF JobsOf
  <2>4. \A q \in Regions : at'[Caller(q)] = IF q = r THEN "wait" ELSE at[Caller(q)]
    BY <1>c, <2>1, <2>2, CallersDiffer
  <2>5. PlacesApart'
    BY <1>0, <2>1, <2>2, <2>3, <2>4 DEF PlacesApart
  <2>6. Submission'
    BY <1>0, <2>1, <2>2, <2>3, <2>4 DEF Submission
  <2>7. Departure'
    BY <1>0, <2>1, <2>2, <2>3, <2>4 DEF Departure
  <2> QED
    BY <2>5, <2>6, <2>7 DEF LifeInv
<1>29. ASSUME NEW r \in Regions, NEW j \in Jobs, HelpOwnRegion(r, j) PROVE LifeInv'
  <2>1. /\ at[Caller(r)] = "wait" /\ j \in jobs /\ jobs' = jobs \ {j}
        /\ UNCHANGED <<next_helper, direct, outcome>>
    BY <1>29 DEF HelpOwnRegion, QueuedOf
  <2>a. at' = [at EXCEPT ![j] = "acquire", ![Caller(r)] = "helping"]
    BY <1>29 DEF HelpOwnRegion
  <2>2. at[j] = "queued"
    BY <1>0, <2>1 DEF PlacesApart
  <2>3. /\ \A i \in Jobs : at'[i] = IF i = j THEN "acquire" ELSE at[i]
        /\ \A q \in Regions : JobsOf(q) \subseteq Jobs
    BY <1>0, <1>c, <1>j, <2>a DEF JobsOf
  <2>4. \A q \in Regions : at'[Caller(q)] =
          IF q = r THEN "helping" ELSE at[Caller(q)]
    BY <1>0, <1>c, <2>a, CallersDiffer
  <2>5. PlacesApart'
    BY <1>0, <2>1, <2>2, <2>3, <2>4 DEF PlacesApart
  <2>6. Submission'
    BY <1>0, <2>1, <2>2, <2>3, <2>4 DEF Submission
  <2>7. Departure'
    BY <1>0, <2>1, <2>2, <2>3, <2>4 DEF Departure
  <2> QED
    BY <2>5, <2>6, <2>7 DEF LifeInv
<1>30. ASSUME NEW r \in Regions, WaitEnds(r) PROVE LifeInv'
  <2>1. /\ at[Caller(r)] = "wait" /\ at' = [at EXCEPT ![Caller(r)] = "leave"]
        /\ remaining[r] = 0
        /\ UNCHANGED <<jobs, next_helper, direct, outcome>>
    BY <1>30 DEF WaitEnds
  <2>2. IsFiniteSet(Outstanding(r)) /\ Cardinality(Outstanding(r)) \in Nat
    BY SubsetOfConsumers, JobsAreConsumers DEF Outstanding, JobsOf
  <2>3. Cardinality(Outstanding(r)) = 0
    BY <1>30, <2>1, <2>2 DEF RemainingExact
  <2>4. Outstanding(r) = {}
    BY <2>2, <2>3, FS_EmptySet
  <2>5. \A j \in JobsOf(r) : at[j] \notin OutstandingAt
    BY <2>4 DEF Outstanding
  <2>6. ~direct[r]
    BY <1>0, <2>1 DEF Submission
  <2> QED
    BY <2>1, <2>5, <2>6, CallerMoves
<1>31. ASSUME NEW r \in Regions, Leave(r) PROVE LifeInv'
  <2>1. /\ at[Caller(r)] = "leave" /\ UNCHANGED <<jobs, next_helper, direct>>
        /\ \A q \in Regions \ {r} : outcome'[q] = outcome[q]
    BY <1>31 DEF Leave
  <2>2. /\ at'[Caller(r)] = "done"
        /\ \A c \in Consumers \ {Caller(r)} :
              at'[c] = at[c] \/ (at[c] = "calling" /\ at'[c] = "running")
    BY <1>c, <1>31 DEF Leave
  <2>3. /\ \A j \in Jobs : at'[j] = at[j] \/ (at[j] = "calling" /\ at'[j] = "running")
        /\ \A q \in Regions : JobsOf(q) \subseteq Jobs
    BY <1>c, <1>j, <2>2 DEF JobsOf
  <2>4. \A q \in Regions \ {r} :
           \/ at'[Caller(q)] = at[Caller(q)]
           \/ at[Caller(q)] = "calling" /\ at'[Caller(q)] = "running"
    BY <1>c, <2>2, CallersDiffer
  <2>5. PlacesApart'
    BY <1>0, <2>1, <2>2, <2>3, <2>4 DEF PlacesApart
  <2>6. Submission'
    BY <1>0, <2>1, <2>2, <2>3, <2>4 DEF Submission
  <2>7. Departure'
    BY <1>0, <2>1, <2>2, <2>3, <2>4 DEF Departure
  <2> QED
    BY <2>5, <2>6, <2>7 DEF LifeInv
<1>32. ASSUME NEW w \in Workers, NEW j \in Jobs, TakeJob(w, j) PROVE LifeInv'
  <2>1. /\ j \in jobs /\ jobs' = jobs \ {j} /\ at' = [at EXCEPT ![j] = "acquire"]
        /\ UNCHANGED <<next_helper, direct, outcome>>
    BY <1>32 DEF TakeJob
  <2>2. at[j] = "queued"
    BY <1>0, <2>1 DEF PlacesApart
  <2> QED
    BY <2>1, <2>2, HelperMoves
<1>33. ASSUME UNCHANGED <<at, jobs, next_helper, direct, outcome>> PROVE LifeInv'
  BY <1>0, <1>33 DEF LifeInv, PlacesApart, Submission, Departure
<1>34. ASSUME NEW w \in Workers, Sleep(w) \/ Exit(w) PROVE LifeInv'
  BY <1>33, <1>34 DEF Sleep, Exit
<1>35. CASE StopPool \/ Terminated \/ UNCHANGED vars
  BY <1>33, <1>35 DEF StopPool, Terminated
<1> QED
  BY <1>2, <1>3, <1>5, <1>6, <1>9, <1>11, <1>12, <1>15, <1>21, <1>22, <1>25,
     <1>27, <1>28, <1>29, <1>30, <1>31, <1>32, <1>34, <1>35
  DEF Next, CallerStep, ConsumerStep, HelperStep, WorkerStep

-----------------------------------------------------------------------------
(* The completion count.                                                   *)

LEMMA OutstandingFinite ==
    ASSUME NEW r \in Regions
    PROVE  /\ IsFiniteSet(Outstanding(r)) /\ Cardinality(Outstanding(r)) \in Nat
           /\ JobsOf(r) \subseteq Jobs
BY SubsetOfConsumers, JobsAreConsumers DEF Outstanding, JobsOf

LEMMA RemainingInit == Init => RemainingExact
<1> SUFFICES ASSUME Init, NEW r \in Regions
             PROVE  remaining[r] = Cardinality(Outstanding(r))
                       + (IF at[Caller(r)] = "submit" THEN 1 ELSE 0)
    BY DEF RemainingExact
<1>1. \A c \in Consumers : at[c] = "idle"
  BY DEF Init
<1>2. Outstanding(r) = {}
  BY <1>1, JobsAreConsumers DEF Outstanding, JobsOf, OutstandingAt, Consuming
<1>3. remaining[r] = 0
  BY DEF Init
<1>4. at[Caller(r)] # "submit"
  BY <1>1, CallerParts
<1> QED
  BY <1>2, <1>3, <1>4, FS_EmptySet

\* No helper is registered and none reports.
LEMMA RemainingFrame ==
    ASSUME RemainingExact, UNCHANGED remaining,
           \A j \in Jobs : at'[j] \in OutstandingAt <=> at[j] \in OutstandingAt,
           \A q \in Regions :
              at'[Caller(q)] = "submit" <=> at[Caller(q)] = "submit"
    PROVE  RemainingExact'
<1>1. \A q \in Regions : Outstanding(q)' = Outstanding(q)
  BY OutstandingFinite DEF Outstanding
<1> QED
  BY <1>1 DEF RemainingExact

LEMMA RemainingCallerMoves ==
    ASSUME TypeInv, RemainingExact, NEW r \in Regions, NEW p,
           at' = [at EXCEPT ![Caller(r)] = p], UNCHANGED remaining,
           p # "submit", at[Caller(r)] # "submit"
    PROVE  RemainingExact'
<1>1. at \in [Consumers -> Places]
  BY DEF TypeInv, Types, TypeOK
<1>2. \A j \in Jobs : at'[j] = at[j]
  BY <1>1, CallerParts, JobsAreConsumers
<1>3. \A q \in Regions : at'[Caller(q)] = IF q = r THEN p ELSE at[Caller(q)]
  BY <1>1, CallerParts, CallersDiffer
<1> QED
  BY <1>2, <1>3, RemainingFrame

LEMMA RemainingHelperMoves ==
    ASSUME TypeInv, RemainingExact, NEW j \in Jobs, NEW p,
           at' = [at EXCEPT ![j] = p], UNCHANGED remaining,
           p \in OutstandingAt <=> at[j] \in OutstandingAt
    PROVE  RemainingExact'
<1>1. at \in [Consumers -> Places]
  BY DEF TypeInv, Types, TypeOK
<1>2. \A i \in Jobs : at'[i] = IF i = j THEN p ELSE at[i]
  BY <1>1, JobsAreConsumers
<1>3. \A q \in Regions : at'[Caller(q)] = at[Caller(q)]
  BY <1>1, CallerParts
<1> QED
  BY <1>2, <1>3, RemainingFrame

\* The count of one region changes.
LEMMA RemainingOfOne ==
    ASSUME TypeInv, RemainingExact, NEW r \in Regions, NEW n,
           remaining' = [remaining EXCEPT ![r] = n],
           n = Cardinality(Outstanding(r)')
                 + (IF at'[Caller(r)] = "submit" THEN 1 ELSE 0),
           \A j \in Jobs \ JobsOf(r) : at'[j] = at[j],
           \A q \in Regions \ {r} : at'[Caller(q)] = at[Caller(q)]
    PROVE  RemainingExact'
<1>1. remaining \in [Regions -> Nat]
  BY DEF TypeInv, Types, TypeOK
<1>2. ASSUME NEW q \in Regions \ {r} PROVE Outstanding(q)' = Outstanding(q)
  <2>1. \A j \in JobsOf(q) : j \in Jobs \ JobsOf(r)
    BY DEF JobsOf
  <2> QED
    BY <2>1 DEF Outstanding
<1>3. \A q \in Regions \ {r} : remaining'[q] = remaining[q]
  BY <1>1
<1>4. remaining'[r] = n
  BY <1>1
<1> QED
  BY <1>2, <1>3, <1>4 DEF RemainingExact

LEMMA RemainingStep ==
    TypeInv /\ LifeInv /\ RemainingExact /\ [Next]_vars => RemainingExact'
<1> SUFFICES ASSUME TypeInv, LifeInv, RemainingExact, [Next]_vars
             PROVE  RemainingExact'
    OBVIOUS
<1> USE DEF Goto, CallersAt, HelpersAt, OutstandingAt, DirectAt, Consuming,
            CallerPlaces, HelperPlaces
<1>0. /\ at \in [Consumers -> Places] /\ remaining \in [Regions -> Nat]
      /\ PlacesApart /\ Submission /\ Departure
  BY DEF TypeInv, Types, TypeOK, LifeInv
<1>c. \A r \in Regions : Caller(r) \in Consumers /\ Caller(r) \notin Jobs
  BY CallerParts
<1>j. \A j \in Jobs : j \in Consumers /\ j[1] \in Regions /\ j \in JobsOf(j[1])
  BY JobsAreConsumers, ConsumerParts
<1>r. \A r \in Regions : /\ remaining[r] \in Nat
                         /\ remaining[r] = Cardinality(Outstanding(r))
                              + (IF at[Caller(r)] = "submit" THEN 1 ELSE 0)
  BY <1>0 DEF RemainingExact
<1>1. ASSUME NEW r \in Regions, NEW t, NEW places \in [Consumers -> Places],
             \A c \in Consumers : places[c] # at[c]
                 => places[c] = "calling" /\ at[c] = "running",
             EnterRegion(r, t, places)
      PROVE  RemainingExact'
  <2>1. at' = [places EXCEPT ![Caller(r)] =
                 IF Total[r] = 0 THEN "leave" ELSE "reserve"]
    BY <1>1 DEF EnterRegion
  <2>2. at[Caller(r)] = "idle" /\ UNCHANGED remaining
    BY <1>1 DEF EnterRegion
  <2>3. \A q \in Regions : q # r => at'[Caller(q)] = places[Caller(q)]
    BY <1>c, <1>1, <2>1, CallersDiffer
  <2>4. at'[Caller(r)] \in {"leave", "reserve"}
    BY <1>c, <1>1, <2>1
  <2>5. \A j \in Jobs : at'[j] = places[j]
    BY <1>c, <1>j, <1>1, <2>1
  <2>6. \A j \in Jobs : at'[j] \in OutstandingAt <=> at[j] \in OutstandingAt
    BY <1>j, <1>1, <2>5
  <2>7. \A q \in Regions : at'[Caller(q)] = "submit" <=> at[Caller(q)] = "submit"
    BY <1>c, <1>1, <2>2, <2>3, <2>4
  <2> QED
    BY <2>2, <2>6, <2>7, RemainingFrame
<1>2. ASSUME NEW r \in Regions, ExecuteRoot(r) PROVE RemainingExact'
  BY <1>0, <1>1, <1>2 DEF ExecuteRoot
<1>3. ASSUME NEW c \in Consumers, NEW r \in Regions, ExecuteNested(c, r)
      PROVE  RemainingExact'
  <2> DEFINE places == [at EXCEPT ![c] = "calling"]
  <2>1. /\ places \in [Consumers -> Places]
        /\ \A d \in Consumers : places[d] # at[d]
              => places[d] = "calling" /\ at[d] = "running"
    BY <1>0, <1>3 DEF Places, ExecuteNested
  <2>2. EnterRegion(r, thread[c], places)
    BY <1>3 DEF ExecuteNested
  <2> HIDE DEF places
  <2> QED
    BY <1>1, <2>1, <2>2
<1>4. ASSUME NEW r \in Regions,
             \/ ReserveNothing(r) \/ RecruitEnds(r) \/ CallerOwned(r)
             \/ CallerLeased(r) \/ CallerRefused(r) \/ PublishEnds(r)
             \/ KeepIdleHelpers(r) \/ WaitEnds(r) \/ DirectEnds(r)
      PROVE  RemainingExact'
  <2>1. at[Caller(r)] # "submit" /\ UNCHANGED remaining
    BY <1>4 DEF ReserveNothing, RecruitEnds, CallerOwned, CallerLeased, CallerRefused,
                PublishEnds, KeepIdleHelpers, WaitEnds, DirectEnds
  <2>2. \E p \in {"chunk", "publish", "recruit", "acquire", "wait", "leave"} :
           at' = [at EXCEPT ![Caller(r)] = p]
    BY <1>4 DEF ReserveNothing, RecruitEnds, Dispatch, CallerOwned, CallerLeased,
                CallerRefused, PublishEnds, KeepIdleHelpers, WaitEnds, DirectEnds
  <2> QED
    BY <2>1, <2>2, RemainingCallerMoves
<1>9. ASSUME UNCHANGED <<at, remaining>> PROVE RemainingExact'
  BY <1>9, RemainingFrame
<1>10. ASSUME NEW r \in Regions, RecruitHelper(r) PROVE RemainingExact'
  BY <1>9, <1>10 DEF RecruitHelper
<1>11. ASSUME NEW r \in Regions, RegisterHelper(r) \/ SubmitFails(r)
       PROVE  RemainingExact'
  <2> DEFINE p == IF RegisterHelper(r) THEN "submit" ELSE "acquire"
             n == IF RegisterHelper(r) THEN remaining[r] + 1
                  ELSE IF remaining[r] > 0 THEN remaining[r] - 1 ELSE 0
  <2>1. /\ at' = [at EXCEPT ![Caller(r)] = p]
        /\ remaining' = [remaining EXCEPT ![r] = n]
    BY <1>0, <1>11 DEF RegisterHelper, SubmitFails
  <2>2. n = Cardinality(Outstanding(r)) + (IF p = "submit" THEN 1 ELSE 0)
    BY <1>r, <1>11, OutstandingFinite DEF RegisterHelper, SubmitFails
  <2> HIDE DEF p, n
  <2>3. \A j \in Jobs : at'[j] = at[j]
    BY <1>0, <1>c, <1>j, <2>1
  <2>4. at'[Caller(r)] = p /\ \A q \in Regions \ {r} : at'[Caller(q)] = at[Caller(q)]
    BY <1>0, <1>c, <2>1, CallersDiffer
  <2>5. Outstanding(r)' = Outstanding(r)
    BY <2>3, OutstandingFinite DEF Outstanding
  <2> QED
    BY <2>1, <2>2, <2>3, <2>4, <2>5, RemainingOfOne
<1>12. ASSUME NEW r \in Regions, SubmitHelper(r) PROVE RemainingExact'
  <2> DEFINE k == <<r, next_helper[r]>>
  <2>1. at[Caller(r)] = "submit" /\ UNCHANGED remaining
    BY <1>12 DEF SubmitHelper
  <2>2. at' = [at EXCEPT ![Caller(r)] = "publish", ![k] = "queued"]
    BY <1>12 DEF SubmitHelper
  <2>3. k \in JobsOf(r) /\ k \in Jobs /\ k \in Consumers
    BY <2>1, SubmittedIsJob
  <2>4. at[k] = "idle"
    <3>1. k[2] = next_helper[r] /\ next_helper[r] \in Nat
      BY DEF TypeInv, Types, TypeOK
    <3> HIDE DEF k
    <3> QED
      BY <1>0, <2>3, <3>1 DEF Submission
  <2> HIDE DEF k
  <2>5. \A j \in Jobs : at'[j] = IF j = k THEN "queued" ELSE at[j]
    BY <1>0, <1>c, <1>j, <2>2, <2>3
  <2>6. /\ at'[Caller(r)] = "publish"
        /\ \A q \in Regions \ {r} : at'[Caller(q)] = at[Caller(q)]
    BY <1>0, <1>c, <2>2, <2>3, CallersDiffer
  <2>7. Outstanding(r)' = Outstanding(r) \cup {k} /\ k \notin Outstanding(r)
    BY <2>3, <2>4, <2>5, OutstandingFinite DEF Outstanding
  <2>8. Cardinality(Outstanding(r)') = Cardinality(Outstanding(r)) + 1
    BY <2>7, OutstandingFinite, FS_AddElement
  <2>9. remaining[r] = Cardinality(Outstanding(r)')
    BY <1>r, <2>1, <2>8, OutstandingFinite
  <2>10. remaining' = [remaining EXCEPT ![r] = remaining[r]]
    BY <1>0, <2>1
  <2>11. \A j \in Jobs \ JobsOf(r) : at'[j] = at[j]
    BY <2>3, <2>5
  <2>12. Cardinality(Outstanding(r)') \in Nat
    BY <1>r, <2>9
  <2>13. remaining[r] = Cardinality(Outstanding(r)')
                          + (IF at'[Caller(r)] = "submit" THEN 1 ELSE 0)
    BY <2>6, <2>9, <2>12
  <2> QED
    BY ONLY <2>6, <2>10, <2>11, <2>13, TypeInv, RemainingExact, r \in Regions,
            RemainingOfOne
<1>15. ASSUME NEW c \in Consumers,
              \/ try_acquire(c) \/ NoChunk(c) \/ CallBack(c)
              \/ CallBackReturns(c) \/ CallBackThrows(c) \/ mark_complete(c)
       PROVE  RemainingExact'
  <2>1. at[c] \in {"acquire", "chunk", "running"} /\ UNCHANGED remaining
    BY <1>15 DEF try_acquire, NoChunk, CallBack, CallBackReturns,
                 CallBackThrows, mark_complete
  <2>2. \E p \in {"chunk", "running", "acquire", AfterChunks(c), "leave"} :
           /\ at' = [at EXCEPT ![c] = p]
           /\ p = "leave" => direct[c[1]]
    BY <1>15 DEF try_acquire, NoChunk, CallBack, CallBackReturns,
                 CallBackThrows, mark_complete, AfterChunks
  <2>3. CASE c \in Jobs
    <3>1. AfterChunks(c) = "drop"
      BY <2>3, ConsumerParts DEF AfterChunks
    <3>2. ~direct[c[1]]
      BY <1>0, <1>j, <2>1, <2>3, NoneSubmitted DEF Submission
    <3>3. \E p \in {"chunk", "running", "acquire", "drop"} : at' = [at EXCEPT ![c] = p]
      BY <2>2, <3>1, <3>2
    <3> QED
      BY <2>1, <2>3, <3>3, RemainingHelperMoves
  <2>4. CASE c \notin Jobs
    <3>1. c = Caller(c[1]) /\ c[1] \in Regions /\ AfterChunks(c) = "retire"
      BY <2>4, ConsumerParts DEF AfterChunks
    <3> QED
      BY <2>1, <2>2, <3>1, RemainingCallerMoves
  <2> QED
    BY <2>3, <2>4
<1>22. ASSUME NEW j \in Jobs, DropLease(j) \/ FinishWorkerJob(j)
       PROVE  RemainingExact'
  BY <1>22, RemainingHelperMoves DEF DropLease, FinishWorkerJob
<1>23. ASSUME NEW j \in Jobs, FinishHelper(j) PROVE RemainingExact'
  <2> DEFINE r == j[1]
             n == IF remaining[r] > 0 THEN remaining[r] - 1 ELSE 0
  <2>1. at[j] = "finish" /\ at' = [at EXCEPT ![j] = "retired"]
    BY <1>23 DEF FinishHelper
  <2>2. r \in Regions /\ j \in JobsOf(r)
    BY <1>j
  <2>3. remaining' = [remaining EXCEPT ![r] = n]
    BY <1>0, <1>23, <2>2 DEF FinishHelper
  <2> HIDE DEF r
  <2>5. \A i \in Jobs : at'[i] = IF i = j THEN "retired" ELSE at[i]
    BY <1>0, <1>j, <2>1
  <2>6. \A q \in Regions : at'[Caller(q)] = at[Caller(q)]
    BY <1>0, <1>c, <2>1
  <2>7. Outstanding(r)' = Outstanding(r) \ {j} /\ j \in Outstanding(r)
    BY <2>1, <2>2, <2>5, OutstandingFinite DEF Outstanding
  <2>8. /\ Cardinality(Outstanding(r)') = Cardinality(Outstanding(r)) - 1
        /\ Cardinality(Outstanding(r)') \in Nat
    BY <2>2, <2>7, OutstandingFinite, FS_RemoveElement, FS_CardinalityType
  <2>9. n = Cardinality(Outstanding(r)')
              + (IF at'[Caller(r)] = "submit" THEN 1 ELSE 0)
    BY <1>r, <2>2, <2>6, <2>8, OutstandingFinite
  <2>10. \A i \in Jobs \ JobsOf(r) : at'[i] = at[i]
    BY <2>2, <2>5
  <2> HIDE DEF n
  <2> QED
    BY <2>2, <2>3, <2>6, <2>9, <2>10, RemainingOfOne
<1>25. ASSUME NEW j \in Jobs, FinishCallerJob(j) PROVE RemainingExact'
  <2>1. /\ at[j] = "retired" /\ at[Caller(j[1])] = "helping" /\ UNCHANGED remaining
    BY <1>25 DEF FinishCallerJob, RunByCaller
  <2>a. at' = [at EXCEPT ![j] = "done", ![Caller(j[1])] = "wait"]
    BY <1>25 DEF FinishCallerJob
  <2>2. \A i \in Jobs : at'[i] = IF i = j THEN "done" ELSE at[i]
    BY <1>0, <1>c, <1>j, <2>a
  <2>3. \A q \in Regions : at'[Caller(q)] = IF q = j[1] THEN "wait" ELSE at[Caller(q)]
    BY <1>0, <1>c, <1>j, <2>a, CallersDiffer
  <2>4. \A i \in Jobs : at'[i] \in OutstandingAt <=> at[i] \in OutstandingAt
    BY <2>1, <2>2
  <2>5. \A q \in Regions : at'[Caller(q)] = "submit" <=> at[Caller(q)] = "submit"
    BY <2>1, <2>3
  <2> QED
    BY <2>1, <2>4, <2>5, RemainingFrame
<1>27. ASSUME NEW r \in Regions, CancelIdleHelpers(r) PROVE RemainingExact'
  <2> DEFINE gone == QueuedOf(r)
             p == IF gone = {} THEN "wait" ELSE "discount"
  <2>1. /\ at[Caller(r)] = "retire" /\ UNCHANGED remaining
        /\ at' = [c \in Consumers |-> IF c \in gone THEN "erased"
                     ELSE IF c = Caller(r) THEN p ELSE at[c]]
    BY <1>27 DEF CancelIdleHelpers
  <2>2. gone \subseteq Jobs /\ \A j \in gone : at[j] = "queued"
    BY <1>0 DEF QueuedOf, PlacesApart, JobsOf
  <2>p. p \in {"wait", "discount"}
    OBVIOUS
  <2> HIDE DEF gone, p
  <2>3. \A j \in Jobs : at'[j] = IF j \in gone THEN "erased" ELSE at[j]
    BY <1>c, <1>j, <2>1
  <2>4. \A q \in Regions : at'[Caller(q)] = IF q = r THEN p ELSE at[Caller(q)]
    BY <1>c, <2>1, <2>2, CallersDiffer
  <2> QED
    BY <2>1, <2>2, <2>p, <2>3, <2>4, RemainingFrame
<1>28. ASSUME NEW r \in Regions, DiscountErased(r) PROVE RemainingExact'
  <2> DEFINE gone == Erased(r)
             n == IF Cardinality(gone) > remaining[r] THEN 0
                  ELSE remaining[r] - Cardinality(gone)
  <2>1. /\ at[Caller(r)] = "discount"
        /\ at' = [c \in Consumers |-> IF c \in gone THEN "done"
                     ELSE IF c = Caller(r) THEN "wait" ELSE at[c]]
    BY <1>28 DEF DiscountErased
  <2>2. remaining' = [remaining EXCEPT ![r] = n]
    BY <1>0, <1>28 DEF DiscountErased
  <2>3. /\ gone \subseteq Outstanding(r) /\ gone \subseteq JobsOf(r)
        /\ gone \subseteq Jobs /\ \A j \in gone : at[j] = "erased"
    BY DEF Erased, JobsOf, Outstanding
  <2>f. /\ IsFiniteSet(gone) /\ Cardinality(gone) \in Nat
        /\ Cardinality(gone) <= Cardinality(Outstanding(r))
    BY <2>3, OutstandingFinite, FS_Subset, FS_CardinalityType
  <2> HIDE DEF gone
  <2>4. \A j \in Jobs : at'[j] = IF j \in gone THEN "done" ELSE at[j]
    BY <1>c, <1>j, <2>1
  <2>5. \A q \in Regions : at'[Caller(q)] = IF q = r THEN "wait" ELSE at[Caller(q)]
    BY <1>c, <2>1, <2>3, CallersDiffer
  <2>6. /\ Outstanding(r)' = Outstanding(r) \ gone
        /\ Outstanding(r) \cap gone = gone
    BY <2>3, <2>4, OutstandingFinite DEF Outstanding
  <2>7. Cardinality(Outstanding(r)') = Cardinality(Outstanding(r)) - Cardinality(gone)
    BY <2>6, OutstandingFinite, FS_Difference
  <2>8. n = Cardinality(Outstanding(r)')
              + (IF at'[Caller(r)] = "submit" THEN 1 ELSE 0)
    BY <1>r, <2>1, <2>f, <2>5, <2>7, OutstandingFinite
  <2>9. \A j \in Jobs \ JobsOf(r) : at'[j] = at[j]
    BY <2>3, <2>4
  <2> HIDE DEF n
  <2> QED
    BY <2>2, <2>5, <2>8, <2>9, RemainingOfOne
<1>29. ASSUME NEW r \in Regions, NEW j \in Jobs, HelpOwnRegion(r, j)
       PROVE  RemainingExact'
  <2>1. /\ at[Caller(r)] = "wait" /\ j \in jobs /\ UNCHANGED remaining
    BY <1>29 DEF HelpOwnRegion, QueuedOf
  <2>a. at' = [at EXCEPT ![j] = "acquire", ![Caller(r)] = "helping"]
    BY <1>29 DEF HelpOwnRegion
  <2>2. at[j] = "queued"
    BY <1>0, <2>1 DEF PlacesApart
  <2>3. \A i \in Jobs : at'[i] = IF i = j THEN "acquire" ELSE at[i]
    BY <1>0, <1>c, <1>j, <2>a
  <2>4. \A q \in Regions : at'[Caller(q)] =
          IF q = r THEN "helping" ELSE at[Caller(q)]
    BY <1>0, <1>c, <2>a, CallersDiffer
  <2>5. \A i \in Jobs : at'[i] \in OutstandingAt <=> at[i] \in OutstandingAt
    BY <2>2, <2>3
  <2>6. \A q \in Regions : at'[Caller(q)] = "submit" <=> at[Caller(q)] = "submit"
    BY <2>1, <2>4
  <2> QED
    BY <2>1, <2>5, <2>6, RemainingFrame
<1>31. ASSUME NEW r \in Regions, Leave(r) PROVE RemainingExact'
  <2>1. at[Caller(r)] = "leave" /\ UNCHANGED remaining
    BY <1>31 DEF Leave
  <2>2. /\ at'[Caller(r)] = "done"
        /\ \A c \in Consumers \ {Caller(r)} :
              at'[c] = at[c] \/ (at[c] = "calling" /\ at'[c] = "running")
    BY <1>c, <1>31 DEF Leave
  <2>3. \A j \in Jobs : at'[j] \in OutstandingAt <=> at[j] \in OutstandingAt
    BY <1>c, <1>j, <2>2
  <2>4. \A q \in Regions : at'[Caller(q)] = "submit" <=> at[Caller(q)] = "submit"
    BY <1>c, <2>1, <2>2, CallersDiffer
  <2> QED
    BY <2>1, <2>3, <2>4, RemainingFrame
<1>32. ASSUME NEW w \in Workers, NEW j \in Jobs, TakeJob(w, j) PROVE RemainingExact'
  <2>1. /\ j \in jobs /\ at' = [at EXCEPT ![j] = "acquire"] /\ UNCHANGED remaining
    BY <1>32 DEF TakeJob
  <2>2. at[j] = "queued"
    BY <1>0, <2>1 DEF PlacesApart
  <2> QED
    BY <2>1, <2>2, RemainingHelperMoves
<1>34. ASSUME NEW w \in Workers, Sleep(w) \/ Exit(w) PROVE RemainingExact'
  BY <1>9, <1>34 DEF Sleep, Exit
<1>35. CASE StopPool \/ Terminated \/ UNCHANGED vars
  BY <1>9, <1>35 DEF StopPool, Terminated
<1> QED
  BY <1>2, <1>3, <1>4, <1>10, <1>11, <1>12, <1>15, <1>22, <1>23, <1>25, <1>27,
     <1>28, <1>29, <1>31, <1>32, <1>34, <1>35
  DEF Next, CallerStep, ConsumerStep, HelperStep, WorkerStep

-----------------------------------------------------------------------------
(***************************************************************************)
(* The worker leases: they are counted exactly, stay within the session's  *)
(* budget and are back when a region ends, together with the helpers that  *)
(* borrowed the caller's stack.                                            *)
(***************************************************************************)
-----------------------------------------------------------------------------
\* Before the helpers are submitted.
Early == {"idle", "reserve", "recruit"}

\* Helpers lose their leases with their jobs, those that were never submitted
\* lose them with their region, and so does the caller.
LeasesHandedOn ==
    /\ \A j \in Jobs : holds[j] => at[j] \notin Leaseless
    /\ \A r \in Regions : at[Caller(r)] = "done" =>
         \A j \in JobsOf(r) : at[j] = "idle" => ~holds[j]
    /\ \A r \in Regions :
         at[Caller(r)] \in {"idle", "reserve", "done"} => ~holds[Caller(r)]

\* Recruiting gives leases to the helpers in order.
RecruitedInOrder ==
    \A r \in Regions :
        /\ at[Caller(r)] \in {"idle", "reserve"} => \A j \in JobsOf(r) : ~holds[j]
        /\ at[Caller(r)] = "recruit" =>
             \A j \in JobsOf(r) : holds[j] <=> j[2] <= Recruited(r)

LeaseInv == LeasesHandedOn /\ RecruitedInOrder

Holders(s) == {c \in Consumers : holds[c] /\ Session[c[1]] = s}

\* The first half of LeasesBalance.
LeasesCounted ==
    \A s \in Sessions :
        /\ leased_workers[s] = Cardinality(Holders(s))
        /\ leased_workers[s] <= total_budget[s]
        /\ maximum_leased_workers[s] <= total_budget[s]

-----------------------------------------------------------------------------
(* Who holds a lease.                                                      *)

LEMMA LeaseInit == Init => LeaseInv
<1> SUFFICES ASSUME Init PROVE LeaseInv
    OBVIOUS
<1>1. \A c \in Consumers : at[c] = "idle" /\ ~holds[c]
  BY DEF Init
<1>2. \A r \in Regions : Caller(r) \in Consumers /\ JobsOf(r) \subseteq Jobs
  BY CallerParts DEF JobsOf
<1> QED
  BY <1>1, <1>2, JobsAreConsumers DEF LeaseInv, LeasesHandedOn, RecruitedInOrder

\* No helper gains a lease, and leases are dropped where they must be.
LEMMA LeaseMoves ==
    ASSUME LeaseInv,
           \A j \in Jobs : holds'[j] => holds[j],
           \A j \in Jobs : at'[j] \in Leaseless /\ holds'[j] => at[j] \in Leaseless,
           \A j \in Jobs : at'[j] = "idle" => at[j] = "idle",
           \A q \in Regions : at'[Caller(q)] \in Early
                => \A j \in JobsOf(q) : holds'[j] <=> holds[j],
           \A q \in Regions :
              \/ at'[Caller(q)] = at[Caller(q)] /\ (holds'[Caller(q)] => holds[Caller(q)])
              \/ at'[Caller(q)] \notin Early \cup {"done"}
              \/ /\ at[Caller(q)] = "idle" /\ at'[Caller(q)] = "reserve"
                 /\ holds'[Caller(q)] => holds[Caller(q)]
              \/ at[Caller(q)] = "reserve" /\ at'[Caller(q)] = "recruit"
              \/ /\ at'[Caller(q)] = "done" /\ ~holds'[Caller(q)]
                 /\ \A j \in JobsOf(q) : at'[j] = "idle" => ~holds'[j]
    PROVE  LeaseInv'
<1>1. \A q \in Regions : JobsOf(q) \subseteq Jobs
  BY DEF JobsOf
<1>2. (\A j \in Jobs : holds[j] => at[j] \notin Leaseless)'
  BY DEF LeaseInv, LeasesHandedOn
<1>3. ASSUME NEW q \in Regions, at'[Caller(q)] = "done",
             NEW j \in JobsOf(q), at'[j] = "idle"
      PROVE  ~holds'[j]
  <2>1. CASE at[Caller(q)] = "done"
    BY <1>1, <1>3, <2>1 DEF LeaseInv, LeasesHandedOn
  <2>2. CASE at[Caller(q)] # "done"
    BY <1>3, <2>2 DEF Early
  <2> QED
    BY <2>1, <2>2
<1>4. ASSUME NEW q \in Regions, at'[Caller(q)] \in {"idle", "reserve", "done"}
      PROVE  ~holds'[Caller(q)]
  BY <1>4 DEF Early, LeaseInv, LeasesHandedOn
<1>5. ASSUME NEW q \in Regions, at'[Caller(q)] \in {"idle", "reserve"}
      PROVE  \A j \in JobsOf(q) : ~holds'[j]
  <2>1. at[Caller(q)] \in {"idle", "reserve"}
    BY <1>5 DEF Early
  <2> QED
    BY <1>1, <2>1 DEF LeaseInv, RecruitedInOrder
<1>6. ASSUME NEW q \in Regions, at'[Caller(q)] = "recruit"
      PROVE  \A j \in JobsOf(q) : holds'[j] <=> j[2] <= Recruited(q)'
  <2>1. \A j \in JobsOf(q) : holds'[j] <=> holds[j]
    BY <1>6 DEF Early
  <2>2. {j \in JobsOf(q) : holds'[j]} = {j \in JobsOf(q) : holds[j]}
    BY <2>1
  <2>3. Recruited(q)' = Recruited(q)
    BY <2>2 DEF Recruited
  <2>4. CASE at[Caller(q)] = "recruit"
    BY <2>1, <2>3, <2>4 DEF LeaseInv, RecruitedInOrder
  <2>5. CASE at[Caller(q)] = "reserve"
    <3>1. \A j \in JobsOf(q) : ~holds[j]
      BY <2>5 DEF LeaseInv, RecruitedInOrder
    <3>2. {j \in JobsOf(q) : holds[j]} = {}
      BY <3>1
    <3>3. Recruited(q) = 0
      BY <3>2, FS_EmptySet DEF Recruited
    <3>4. \A j \in JobsOf(q) : j[2] \in Nat /\ j[2] > 0
      BY <1>1, JobsAreConsumers, ConsumerParts
    <3> QED
      BY <2>1, <2>3, <3>1, <3>3, <3>4
  <2> QED
    BY <1>6, <2>4, <2>5 DEF Early
<1>7. LeasesHandedOn'
  BY <1>2, <1>3, <1>4 DEF LeasesHandedOn
<1>8. RecruitedInOrder'
  BY <1>5, <1>6 DEF RecruitedInOrder
<1> QED
  BY <1>7, <1>8 DEF LeaseInv

\* Nobody's lease changes.
LEMMA LeaseFrame ==
    ASSUME LeaseInv, UNCHANGED holds,
           \A j \in Jobs : \/ at'[j] = at[j]
                           \/ at'[j] \notin Leaseless \cup {"idle"}
                           \/ at'[j] \in Leaseless /\ at[j] \in Leaseless,
           \A q \in Regions :
              \/ at'[Caller(q)] = at[Caller(q)]
              \/ at'[Caller(q)] \notin Early \cup {"done"}
              \/ at[Caller(q)] = "idle" /\ at'[Caller(q)] = "reserve"
              \/ at[Caller(q)] = "reserve" /\ at'[Caller(q)] = "recruit"
    PROVE  LeaseInv'
<1>1. \A j \in Jobs : /\ at'[j] \in Leaseless => at[j] \in Leaseless
                      /\ at'[j] = "idle" => at[j] = "idle"
  BY DEF Leaseless
<1> QED
  BY <1>1, LeaseMoves

LEMMA LeaseCallerMoves ==
    ASSUME TypeInv, LeaseInv, NEW r \in Regions, NEW p, UNCHANGED holds,
           at' = [at EXCEPT ![Caller(r)] = p],
           \/ p \notin Early \cup {"done"}
           \/ at[Caller(r)] = "reserve" /\ p = "recruit"
    PROVE  LeaseInv'
<1>1. at \in [Consumers -> Places]
  BY DEF TypeInv, Types, TypeOK
<1>2. \A j \in Jobs : at'[j] = at[j]
  BY <1>1, CallerParts, JobsAreConsumers
<1>3. \A q \in Regions : at'[Caller(q)] = IF q = r THEN p ELSE at[Caller(q)]
  BY <1>1, CallerParts, CallersDiffer
<1> QED
  BY <1>2, <1>3, LeaseFrame

LEMMA LeaseHelperMoves ==
    ASSUME TypeInv, LeaseInv, NEW j \in Jobs, NEW p, UNCHANGED holds,
           at' = [at EXCEPT ![j] = p],
           \/ p \notin Leaseless \cup {"idle"}
           \/ p \in Leaseless /\ at[j] \in Leaseless
    PROVE  LeaseInv'
<1>1. at \in [Consumers -> Places]
  BY DEF TypeInv, Types, TypeOK
<1>2. \A i \in Jobs : at'[i] = IF i = j THEN p ELSE at[i]
  BY <1>1, JobsAreConsumers
<1>3. \A q \in Regions : at'[Caller(q)] = at[Caller(q)]
  BY <1>1, CallerParts
<1> QED
  BY <1>2, <1>3, LeaseFrame

\* What release does to the leases of jobs and callers.
LEMMA ReleaseHolds ==
    ASSUME TypeInv, NEW S, release(S)
    PROVE  \A c \in Consumers : holds'[c] <=> holds[c] /\ c \notin S
BY DEF release

LEMMA LeaseStep == TypeInv /\ LifeInv /\ LeaseInv /\ [Next]_vars => LeaseInv'
<1> SUFFICES ASSUME TypeInv, LifeInv, LeaseInv, [Next]_vars PROVE LeaseInv'
    OBVIOUS
<1> USE DEF Goto, Early, Leaseless
<1>0. /\ at \in [Consumers -> Places] /\ holds \in [Consumers -> BOOLEAN]
      /\ PlacesApart /\ Submission /\ Departure
      /\ LeasesHandedOn /\ RecruitedInOrder
  BY DEF TypeInv, Types, TypeOK, LifeInv, LeaseInv
<1>c. \A r \in Regions : Caller(r) \in Consumers /\ Caller(r) \notin Jobs
  BY CallerParts
<1>j. \A j \in Jobs : j \in Consumers /\ j[1] \in Regions /\ j \in JobsOf(j[1])
  BY JobsAreConsumers, ConsumerParts
<1>s. \A r \in Regions : /\ JobsOf(r) \subseteq Jobs
                         /\ \A j \in JobsOf(r) : j[1] = r
  BY DEF JobsOf
\* Before its submission loop a region has only idle helpers.
<1>e. ASSUME NEW r \in Regions, at[Caller(r)] \in Early
      PROVE  \A j \in JobsOf(r) : at[j] = "idle"
  BY <1>0, <1>e, NoneSubmitted DEF Submission
<1>1. ASSUME NEW r \in Regions, NEW t, NEW places \in [Consumers -> Places],
             \A c \in Consumers : places[c] # at[c]
                 => places[c] = "calling" /\ at[c] = "running",
             EnterRegion(r, t, places)
      PROVE  LeaseInv'
  <2>1. at' = [places EXCEPT ![Caller(r)] =
                 IF Total[r] = 0 THEN "leave" ELSE "reserve"]
    BY <1>1 DEF EnterRegion
  <2>2. at[Caller(r)] = "idle" /\ UNCHANGED holds
    BY <1>1 DEF EnterRegion
  <2>3. \A q \in Regions : q # r => at'[Caller(q)] = places[Caller(q)]
    BY <1>c, <1>1, <2>1, CallersDiffer
  <2>4. at'[Caller(r)] \in {"leave", "reserve"}
    BY <1>c, <1>1, <2>1
  <2>5. \A j \in Jobs : at'[j] = places[j]
    BY <1>c, <1>j, <1>1, <2>1
  <2>6. \A j \in Jobs : at'[j] = at[j] \/ at'[j] = "calling"
    BY <1>j, <1>1, <2>5
  <2>7. \A q \in Regions : q # r => at'[Caller(q)] \in {at[Caller(q)], "calling"}
    BY <1>c, <1>1, <2>3
  <2> QED
    BY <2>2, <2>4, <2>6, <2>7, LeaseFrame
<1>2. ASSUME NEW r \in Regions, ExecuteRoot(r) PROVE LeaseInv'
  BY <1>0, <1>1, <1>2 DEF ExecuteRoot
<1>3. ASSUME NEW c \in Consumers, NEW r \in Regions, ExecuteNested(c, r)
      PROVE  LeaseInv'
  <2> DEFINE places == [at EXCEPT ![c] = "calling"]
  <2>1. /\ places \in [Consumers -> Places]
        /\ \A d \in Consumers : places[d] # at[d]
              => places[d] = "calling" /\ at[d] = "running"
    BY <1>0, <1>3 DEF Places, Consuming, ExecuteNested
  <2>2. EnterRegion(r, thread[c], places)
    BY <1>3 DEF ExecuteNested
  <2> HIDE DEF places
  <2> QED
    BY <1>1, <2>1, <2>2
<1>4. ASSUME NEW r \in Regions,
             \/ ReserveNothing(r) \/ RecruitEnds(r) \/ CallerOwned(r)
             \/ CallerRefused(r) \/ PublishEnds(r) \/ RegisterHelper(r)
             \/ KeepIdleHelpers(r) \/ WaitEnds(r) \/ DirectEnds(r)
      PROVE  LeaseInv'
  <2>1. UNCHANGED holds
    BY <1>4 DEF ReserveNothing, RecruitEnds, CallerOwned, CallerRefused, PublishEnds,
                RegisterHelper, KeepIdleHelpers, WaitEnds, DirectEnds
  <2>2. \/ \E p \in {"chunk", "publish", "acquire", "submit", "wait", "leave"} :
              at' = [at EXCEPT ![Caller(r)] = p]
        \/ at[Caller(r)] = "reserve" /\ at' = [at EXCEPT ![Caller(r)] = "recruit"]
    BY <1>4 DEF ReserveNothing, RecruitEnds, Dispatch, CallerOwned, CallerRefused,
                PublishEnds, RegisterHelper, KeepIdleHelpers, WaitEnds, DirectEnds
  <2> QED
    BY <2>1, <2>2, LeaseCallerMoves
<1>7. ASSUME NEW r \in Regions, CallerLeased(r) PROVE LeaseInv'
  <2>1. /\ at[Caller(r)] = "reserve" /\ at' = [at EXCEPT ![Caller(r)] = "recruit"]
        /\ holds' = [holds EXCEPT ![Caller(r)] = TRUE]
    BY <1>7 DEF CallerLeased, reserve
  <2>2. \A j \in Jobs : at'[j] = at[j] /\ holds'[j] = holds[j]
    BY <1>0, <1>c, <1>j, <2>1
  <2>3. /\ at'[Caller(r)] = "recruit"
        /\ \A q \in Regions \ {r} : /\ at'[Caller(q)] = at[Caller(q)]
                                    /\ holds'[Caller(q)] = holds[Caller(q)]
    BY <1>0, <1>c, <2>1, CallersDiffer
  <2> QED
    BY <1>s, <2>1, <2>2, <2>3, LeaseMoves
<1>9. ASSUME NEW r \in Regions, RecruitHelper(r) PROVE LeaseInv'
  <2> DEFINE k == <<r, Recruited(r) + 1>>
  <2>1. /\ at[Caller(r)] = "recruit" /\ Recruited(r) < helper_count[r]
        /\ UNCHANGED at
    BY <1>9 DEF RecruitHelper
  <2>2. holds' = [holds EXCEPT ![k] = TRUE]
    BY <1>9 DEF RecruitHelper, reserve
  <2>3. k \in JobsOf(r) /\ k \in Jobs /\ k \in Consumers
    BY <2>1, RecruitIsJob
  <2>4. \A j \in JobsOf(r) : j[2] \in Nat /\ (j = k <=> j[2] = Recruited(r) + 1)
    BY <1>s, <1>j, ConsumerParts
  <2> HIDE DEF k
  <2>5. \A c \in Consumers : holds'[c] <=> holds[c] \/ c = k
    BY <1>0, <2>2, <2>3
  <2>6. at[k] = "idle"
    BY <1>e, <2>1, <2>3
  <2>7. Recruited(r) \in Nat
    BY RecruitedType
  <2>8. ~holds[k]
    BY <1>0, <2>1, <2>3, <2>4, <2>7 DEF RecruitedInOrder
  <2>9. Recruited(r)' = Recruited(r) + 1
    <3>1. /\ IsFiniteSet({j \in JobsOf(r) : holds[j]})
          /\ k \notin {j \in JobsOf(r) : holds[j]}
      BY <1>s, <2>8, SubsetOfConsumers, JobsAreConsumers
    <3>2. {j \in JobsOf(r) : holds'[j]} = {j \in JobsOf(r) : holds[j]} \cup {k}
      BY <1>s, <1>j, <2>3, <2>5
    <3>3. Cardinality({j \in JobsOf(r) : holds'[j]})
             = Cardinality({j \in JobsOf(r) : holds[j]}) + 1
      BY <3>1, <3>2, FS_AddElement
    <3> QED
      BY <3>3 DEF Recruited
  <2>10. \A j \in JobsOf(r) : holds'[j] <=> j[2] <= Recruited(r)'
    <3> TAKE j \in JobsOf(r)
    <3>1. holds[j] <=> j[2] <= Recruited(r)
      BY <1>0, <2>1 DEF RecruitedInOrder
    <3>2. holds'[j] <=> holds[j] \/ j = k
      BY <1>s, <1>j, <2>5
    <3> QED
      BY <2>4, <2>7, <2>9, <3>1, <3>2
  <2>11. ASSUME NEW q \in Regions \ {r}
         PROVE  /\ \A j \in JobsOf(q) : holds'[j] <=> holds[j]
                /\ Recruited(q)' = Recruited(q)
    <3>1. \A j \in JobsOf(q) : holds'[j] <=> holds[j]
      BY <1>s, <1>j, <2>3, <2>5
    <3>2. {j \in JobsOf(q) : holds'[j]} = {j \in JobsOf(q) : holds[j]}
      BY <3>1
    <3> QED
      BY <3>1, <3>2 DEF Recruited
  <2>12. \A q \in Regions : holds'[Caller(q)] <=> holds[Caller(q)]
    BY <1>c, <2>3, <2>5
  <2>13. RecruitedInOrder'
    <3>1. ASSUME NEW q \in Regions
          PROVE  /\ at'[Caller(q)] \in {"idle", "reserve"}
                       => \A j \in JobsOf(q) : ~holds'[j]
                 /\ at'[Caller(q)] = "recruit"
                       => \A j \in JobsOf(q) : holds'[j] <=> j[2] <= Recruited(q)'
      <4>1. CASE q = r
        BY <2>1, <2>10, <4>1
      <4>2. CASE q # r
        BY <1>0, <2>1, <2>11, <4>2 DEF RecruitedInOrder
      <4> QED
        BY <4>1, <4>2
    <3> QED
      BY <3>1 DEF RecruitedInOrder
  <2>14. LeasesHandedOn'
    <3>1. \A j \in Jobs : holds'[j] => at'[j] \notin Leaseless
      BY <1>0, <1>j, <2>1, <2>5, <2>6 DEF LeasesHandedOn
    <3>2. ASSUME NEW q \in Regions, at'[Caller(q)] = "done",
                 NEW j \in JobsOf(q), at'[j] = "idle"
          PROVE  ~holds'[j]
      <4>1. q # r
        BY <2>1, <3>2
      <4> QED
        BY <1>0, <2>1, <2>11, <3>2, <4>1 DEF LeasesHandedOn
    <3>3. \A q \in Regions :
            at'[Caller(q)] \in {"idle", "reserve", "done"} => ~holds'[Caller(q)]
      BY <1>0, <2>1, <2>12 DEF LeasesHandedOn
    <3> QED
      BY <3>1, <3>2, <3>3 DEF LeasesHandedOn
  <2> QED
    BY <2>13, <2>14 DEF LeaseInv
<1>12. ASSUME NEW r \in Regions, SubmitHelper(r) PROVE LeaseInv'
  <2> DEFINE k == <<r, next_helper[r]>>
  <2>1. at[Caller(r)] = "submit" /\ UNCHANGED holds
    BY <1>12 DEF SubmitHelper
  <2>2. at' = [at EXCEPT ![Caller(r)] = "publish", ![k] = "queued"]
    BY <1>12 DEF SubmitHelper
  <2>3. k \in Jobs /\ k \in Consumers
    BY <2>1, SubmittedIsJob
  <2> HIDE DEF k
  <2>4. \A j \in Jobs : at'[j] = IF j = k THEN "queued" ELSE at[j]
    BY <1>0, <1>c, <1>j, <2>2, <2>3
  <2>5. \A q \in Regions : at'[Caller(q)] = IF q = r THEN "publish" ELSE at[Caller(q)]
    BY <1>0, <1>c, <2>2, <2>3, CallersDiffer
  <2> QED
    BY <2>1, <2>4, <2>5, LeaseFrame
<1>13. ASSUME NEW r \in Regions, SubmitFails(r) PROVE LeaseInv'
  <2> DEFINE k == <<r, next_helper[r]>>
  <2>1. /\ at[Caller(r)] = "submit" /\ at' = [at EXCEPT ![Caller(r)] = "acquire"]
        /\ release({k})
    BY <1>13 DEF SubmitFails
  <2>2. k \in JobsOf(r)
    BY <2>1, SubmittedIsJob
  <2> HIDE DEF k
  <2>3. \A c \in Consumers : holds'[c] <=> holds[c] /\ c # k
    BY <2>1, ReleaseHolds
  <2>4. \A j \in Jobs : at'[j] = at[j] /\ (holds'[j] => holds[j])
    BY <1>0, <1>c, <1>j, <2>1, <2>3
  <2>5. \A q \in Regions : /\ at'[Caller(q)] = IF q = r THEN "acquire" ELSE at[Caller(q)]
                           /\ holds'[Caller(q)] => holds[Caller(q)]
    BY <1>0, <1>c, <2>1, <2>3, CallersDiffer
  <2>6. \A q \in Regions \ {r} : \A j \in JobsOf(q) : holds'[j] <=> holds[j]
    BY <1>j, <1>s, <2>2, <2>3
  <2> QED
    BY <2>4, <2>5, <2>6, LeaseMoves
<1>15. ASSUME NEW c \in Consumers,
              \/ try_acquire(c) \/ NoChunk(c) \/ CallBack(c)
              \/ CallBackReturns(c) \/ CallBackThrows(c) \/ mark_complete(c)
       PROVE  LeaseInv'
  <2>1. UNCHANGED holds
    BY <1>15 DEF try_acquire, NoChunk, CallBack, CallBackReturns,
                 CallBackThrows, mark_complete
  <2>2. \E p \in {"chunk", "running", "acquire", "retire", "drop", "leave"} :
           at' = [at EXCEPT ![c] = p]
    BY <1>15 DEF try_acquire, NoChunk, CallBack, CallBackReturns,
                 CallBackThrows, mark_complete, AfterChunks
  <2>3. CASE c \in Jobs
    BY <2>1, <2>2, <2>3, LeaseHelperMoves
  <2>4. CASE c \notin Jobs
    BY <2>1, <2>2, <2>4, ConsumerParts, LeaseCallerMoves
  <2> QED
    BY <2>3, <2>4
<1>22. ASSUME NEW j \in Jobs, DropLease(j) PROVE LeaseInv'
  <2>1. /\ at[j] = "drop" /\ at' = [at EXCEPT ![j] = "finish"] /\ release({j})
    BY <1>22 DEF DropLease
  <2>2. \A c \in Consumers : holds'[c] <=> holds[c] /\ c # j
    BY <2>1, ReleaseHolds
  <2>3. \A i \in Jobs : /\ at'[i] = IF i = j THEN "finish" ELSE at[i]
                        /\ holds'[i] <=> holds[i] /\ i # j
    BY <1>0, <1>j, <2>1, <2>2
  <2>4. \A q \in Regions : /\ at'[Caller(q)] = at[Caller(q)]
                           /\ holds'[Caller(q)] => holds[Caller(q)]
    BY <1>0, <1>c, <2>1, <2>2
  <2>5. ASSUME NEW q \in Regions, at'[Caller(q)] \in Early
        PROVE  \A i \in JobsOf(q) : holds'[i] <=> holds[i]
    <3>1. j \notin JobsOf(q)
      BY <1>e, <2>1, <2>4, <2>5
    <3> QED
      BY <1>s, <2>3, <3>1
  <2> QED
    BY <2>3, <2>4, <2>5, LeaseMoves
<1>23. ASSUME NEW j \in Jobs, FinishHelper(j) \/ FinishWorkerJob(j) PROVE LeaseInv'
  <2>1. /\ at[j] \in {"finish", "retired"} /\ UNCHANGED holds
        /\ \E p \in {"retired", "done"} : at' = [at EXCEPT ![j] = p]
    BY <1>23 DEF FinishHelper, FinishWorkerJob
  <2> QED
    BY <2>1, LeaseHelperMoves
<1>25. ASSUME NEW j \in Jobs, FinishCallerJob(j) PROVE LeaseInv'
  <2>1. at[j] = "retired" /\ UNCHANGED holds
    BY <1>25 DEF FinishCallerJob
  <2>a. at' = [at EXCEPT ![j] = "done", ![Caller(j[1])] = "wait"]
    BY <1>25 DEF FinishCallerJob
  <2>2. \A i \in Jobs : at'[i] = IF i = j THEN "done" ELSE at[i]
    BY <1>0, <1>c, <1>j, <2>a
  <2>3. \A q \in Regions : at'[Caller(q)] = IF q = j[1] THEN "wait" ELSE at[Caller(q)]
    BY <1>0, <1>c, <1>j, <2>a, CallersDiffer
  <2> QED
    BY <2>1, <2>2, <2>3, LeaseFrame
<1>27. ASSUME NEW r \in Regions, CancelIdleHelpers(r) PROVE LeaseInv'
  <2> DEFINE gone == QueuedOf(r)
             p == IF gone = {} THEN "wait" ELSE "discount"
  <2>1. /\ at[Caller(r)] = "retire" /\ release(gone)
        /\ at' = [c \in Consumers |-> IF c \in gone THEN "erased"
                     ELSE IF c = Caller(r) THEN p ELSE at[c]]
    BY <1>27 DEF CancelIdleHelpers
  <2>2. gone \subseteq JobsOf(r) /\ gone \subseteq Jobs
    BY DEF QueuedOf, JobsOf
  <2>p. p \in {"wait", "discount"}
    OBVIOUS
  <2> HIDE DEF gone, p
  <2>3. \A c \in Consumers : holds'[c] <=> holds[c] /\ c \notin gone
    BY <2>1, ReleaseHolds
  <2>4. \A j \in Jobs : /\ at'[j] = IF j \in gone THEN "erased" ELSE at[j]
                        /\ holds'[j] <=> holds[j] /\ j \notin gone
    BY <1>c, <1>j, <2>1, <2>3
  <2>5. \A q \in Regions : /\ at'[Caller(q)] = IF q = r THEN p ELSE at[Caller(q)]
                           /\ holds'[Caller(q)] => holds[Caller(q)]
    BY <1>c, <2>1, <2>2, <2>3, CallersDiffer
  <2>6. \A q \in Regions \ {r} : \A j \in JobsOf(q) : holds'[j] <=> holds[j]
    BY <1>s, <2>2, <2>4
  <2> QED
    BY <2>p, <2>4, <2>5, <2>6, LeaseMoves
<1>28. ASSUME NEW r \in Regions, DiscountErased(r) PROVE LeaseInv'
  <2>1. /\ at' = [c \in Consumers |-> IF c \in Erased(r) THEN "done"
                     ELSE IF c = Caller(r) THEN "wait" ELSE at[c]]
        /\ UNCHANGED holds
    BY <1>28 DEF DiscountErased
  <2>2. \A j \in Erased(r) : j \in Jobs /\ at[j] = "erased"
    BY DEF Erased, JobsOf
  <2>3. \A j \in Jobs : at'[j] = IF j \in Erased(r) THEN "done" ELSE at[j]
    BY <1>c, <1>j, <2>1
  <2>4. \A q \in Regions : at'[Caller(q)] = IF q = r THEN "wait" ELSE at[Caller(q)]
    BY <1>c, <2>1, <2>2, CallersDiffer
  <2> QED
    BY <2>1, <2>2, <2>3, <2>4, LeaseFrame
<1>29. ASSUME NEW r \in Regions, NEW j \in Jobs, HelpOwnRegion(r, j) PROVE LeaseInv'
  <2>1. UNCHANGED holds
    BY <1>29 DEF HelpOwnRegion
  <2>a. at' = [at EXCEPT ![j] = "acquire", ![Caller(r)] = "helping"]
    BY <1>29 DEF HelpOwnRegion
  <2>2. \A i \in Jobs : at'[i] = IF i = j THEN "acquire" ELSE at[i]
    BY <1>0, <1>c, <1>j, <2>a
  <2>3. \A q \in Regions : at'[Caller(q)] =
          IF q = r THEN "helping" ELSE at[Caller(q)]
    BY <1>0, <1>c, <2>a, CallersDiffer
  <2> QED
    BY <2>1, <2>2, <2>3, LeaseFrame
<1>31. ASSUME NEW r \in Regions, Leave(r) PROVE LeaseInv'
  <2> DEFINE S == {Caller(r)} \cup {j \in JobsOf(r) : at[j] = "idle"}
  <2>1. at[Caller(r)] = "leave" /\ release(S)
    BY <1>31 DEF Leave
  <2>2. /\ at'[Caller(r)] = "done"
        /\ \A c \in Consumers \ {Caller(r)} :
              at'[c] = at[c] \/ (at[c] = "calling" /\ at'[c] = "running")
    BY <1>c, <1>31 DEF Leave
  <2>3. \A c \in Consumers : holds'[c] <=> holds[c] /\ c \notin S
    BY <2>1, ReleaseHolds
  <2>4. /\ \A j \in JobsOf(r) : at[j] = "idle" => j \in S
        /\ Caller(r) \in S
        /\ \A j \in Jobs \ JobsOf(r) : j \notin S
        /\ \A q \in Regions \ {r} : Caller(q) \notin S
    BY <1>c, <1>s, CallersDiffer
  <2> HIDE DEF S
  <2>5. \A j \in Jobs : at'[j] \in {at[j], "running"} /\ (holds'[j] => holds[j])
    BY <1>c, <1>j, <2>2, <2>3
  <2>6. \A q \in Regions \ {r} :
           /\ at'[Caller(q)] \in {at[Caller(q)], "running"}
           /\ holds'[Caller(q)] <=> holds[Caller(q)]
    BY <1>c, <2>2, <2>3, <2>4, CallersDiffer
  <2>7. ~holds'[Caller(r)] /\ \A j \in JobsOf(r) : at'[j] = "idle" => ~holds'[j]
    BY <1>c, <1>j, <1>s, <2>3, <2>4, <2>5
  <2>8. \A q \in Regions \ {r} : \A j \in JobsOf(q) : holds'[j] <=> holds[j]
    BY <1>j, <1>s, <2>3, <2>4
  <2> QED
    BY <2>2, <2>5, <2>6, <2>7, <2>8, LeaseMoves
<1>32. ASSUME NEW w \in Workers, NEW j \in Jobs, TakeJob(w, j) PROVE LeaseInv'
  BY <1>32, LeaseHelperMoves DEF TakeJob
<1>33. ASSUME UNCHANGED <<at, holds>> PROVE LeaseInv'
  BY <1>33, LeaseFrame
<1>34. ASSUME NEW w \in Workers, Sleep(w) \/ Exit(w) PROVE LeaseInv'
  BY <1>33, <1>34 DEF Sleep, Exit
<1>35. CASE StopPool \/ Terminated \/ UNCHANGED vars
  BY <1>33, <1>35 DEF StopPool, Terminated
<1> QED
  BY <1>2, <1>3, <1>4, <1>7, <1>9, <1>12, <1>13, <1>15, <1>22, <1>23, <1>25,
     <1>27, <1>28, <1>29, <1>31, <1>32, <1>34, <1>35
  DEF Next, CallerStep, ConsumerStep, HelperStep, WorkerStep

-----------------------------------------------------------------------------
(* The session's counter.                                                  *)

LEMMA CountInit == Init => LeasesCounted
<1> SUFFICES ASSUME Init, NEW s \in Sessions
             PROVE  /\ leased_workers[s] = Cardinality(Holders(s))
                    /\ leased_workers[s] <= total_budget[s]
                    /\ maximum_leased_workers[s] <= total_budget[s]
    BY DEF LeasesCounted
<1>1. leased_workers[s] = 0 /\ maximum_leased_workers[s] = 0
  BY DEF Init
<1>2. \A c \in Consumers : ~holds[c]
  BY DEF Init
<1>3. Holders(s) = {}
  BY <1>2 DEF Holders
<1>4. total_budget[s] \in Nat
  BY ProgramAssumption
<1> QED
  BY <1>1, <1>3, <1>4, FS_EmptySet

LEMMA CountReserve ==
    ASSUME TypeInv, LeasesCounted, NEW c \in Consumers, NEW s \in Sessions,
           Session[c[1]] = s, ~holds[c], available(s), reserve(c, s)
    PROVE  LeasesCounted'
<1>1. /\ holds \in [Consumers -> BOOLEAN]
      /\ leased_workers \in [Sessions -> Nat]
      /\ maximum_leased_workers \in [Sessions -> Nat]
  BY DEF TypeInv, Types, TypeOK
<1>2. \A d \in Consumers : holds'[d] <=> holds[d] \/ d = c
  BY <1>1 DEF reserve
<1>3. /\ leased_workers'[s] = leased_workers[s] + 1
      /\ maximum_leased_workers'[s] \in {maximum_leased_workers[s], leased_workers[s] + 1}
      /\ \A z \in Sessions \ {s} :
            /\ leased_workers'[z] = leased_workers[z]
            /\ maximum_leased_workers'[z] = maximum_leased_workers[z]
  BY <1>1 DEF reserve
<1>4. Holders(s)' = Holders(s) \cup {c} /\ c \notin Holders(s)
  BY <1>2 DEF Holders
<1>5. \A z \in Sessions \ {s} : Holders(z)' = Holders(z)
  BY <1>2 DEF Holders
<1>6. Cardinality(Holders(s)') = Cardinality(Holders(s)) + 1
  <2>1. IsFiniteSet(Holders(s))
    BY SubsetOfConsumers DEF Holders
  <2> QED
    BY <1>4, <2>1, FS_AddElement
<1>7. leased_workers[s] + 1 <= total_budget[s]
  BY <1>1, ProgramAssumption DEF available
<1>8. ASSUME NEW z \in Sessions
      PROVE  /\ leased_workers'[z] = Cardinality(Holders(z)')
             /\ leased_workers'[z] <= total_budget[z]
             /\ maximum_leased_workers'[z] <= total_budget[z]
  <2>1. CASE z = s
    BY <1>3, <1>6, <1>7, <2>1 DEF LeasesCounted
  <2>2. CASE z # s
    BY <1>3, <1>5, <2>2 DEF LeasesCounted
  <2> QED
    BY <2>1, <2>2
<1> QED
  BY <1>8 DEF LeasesCounted

LEMMA CountRelease ==
    ASSUME TypeInv, LeasesCounted, NEW S, S \subseteq Consumers, release(S)
    PROVE  LeasesCounted'
<1> SUFFICES ASSUME NEW s \in Sessions
             PROVE  /\ leased_workers'[s] = Cardinality(Holders(s)')
                    /\ leased_workers'[s] <= total_budget[s]
                    /\ maximum_leased_workers'[s] <= total_budget[s]
    BY DEF LeasesCounted
<1> DEFINE lost == {c \in S : holds[c] /\ Session[c[1]] = s}
<1>1. /\ leased_workers'[s] = IF leased_workers[s] < Cardinality(lost)
                                THEN leased_workers[s]
                                ELSE leased_workers[s] - Cardinality(lost)
      /\ maximum_leased_workers' = maximum_leased_workers
  BY DEF release
<1>2. \A c \in Consumers : holds'[c] <=> holds[c] /\ c \notin S
  BY ReleaseHolds
<1>3. Holders(s)' = Holders(s) \ lost /\ Holders(s) \cap lost = lost
  BY <1>2 DEF Holders
<1>4. IsFiniteSet(Holders(s)) /\ lost \subseteq Holders(s)
  BY <1>3, SubsetOfConsumers DEF Holders
<1> HIDE DEF lost
<1>5. /\ Cardinality(Holders(s)') = Cardinality(Holders(s)) - Cardinality(lost)
      /\ Cardinality(lost) <= Cardinality(Holders(s))
      /\ Cardinality(lost) \in Nat /\ Cardinality(Holders(s)) \in Nat
  BY <1>3, <1>4, FS_Difference, FS_Subset, FS_CardinalityType
<1>6. /\ leased_workers[s] = Cardinality(Holders(s))
      /\ leased_workers[s] <= total_budget[s]
      /\ maximum_leased_workers[s] <= total_budget[s]
      /\ total_budget[s] \in Nat
  BY ProgramAssumption DEF LeasesCounted
<1> QED
  BY <1>1, <1>5, <1>6

LEMMA CountStep ==
    TypeInv /\ LifeInv /\ LeaseInv /\ LeasesCounted /\ [Next]_vars => LeasesCounted'
<1> SUFFICES ASSUME TypeInv, LifeInv, LeaseInv, LeasesCounted, [Next]_vars
             PROVE  LeasesCounted'
    OBVIOUS
<1>1. ASSUME UNCHANGED sessionVars PROVE LeasesCounted'
  BY <1>1 DEF LeasesCounted, Holders
<1>2. ASSUME NEW r \in Regions, CallerLeased(r) PROVE LeasesCounted'
  <2>1. /\ at[Caller(r)] = "reserve" /\ Session[r] # NoSession
        /\ available(Session[r]) /\ reserve(Caller(r), Session[r])
    BY <1>2 DEF CallerLeased
  <2>2. Session[r] \in Sessions /\ Caller(r) \in Consumers /\ Caller(r)[1] = r
    BY <2>1, CallerParts, ProgramAssumption
  <2>3. ~holds[Caller(r)]
    BY <2>1 DEF LeaseInv, LeasesHandedOn
  <2> QED
    BY <2>1, <2>2, <2>3, CountReserve
<1>3. ASSUME NEW r \in Regions, RecruitHelper(r) PROVE LeasesCounted'
  <2> DEFINE k == <<r, Recruited(r) + 1>>
  <2>1. /\ at[Caller(r)] = "recruit" /\ Recruited(r) < helper_count[r]
        /\ available(Session[r]) /\ reserve(k, Session[r])
    BY <1>3 DEF RecruitHelper
  <2>2. k \in JobsOf(r) /\ k \in Consumers /\ Session[r] \in Sessions
    BY <2>1, RecruitIsJob
  <2>3. k[1] = r /\ k[2] = Recruited(r) + 1
    OBVIOUS
  <2> HIDE DEF k
  <2>4. ~holds[k]
    BY <2>1, <2>2, <2>3, RecruitedType DEF LeaseInv, RecruitedInOrder
  <2> QED
    BY <2>1, <2>2, <2>3, <2>4, CountReserve
<1>4. ASSUME NEW r \in Regions, SubmitFails(r) PROVE LeasesCounted'
  <2>1. {<<r, next_helper[r]>>} \subseteq Consumers
    BY <1>4, SubmittedIsJob DEF SubmitFails
  <2> QED
    BY <1>4, <2>1, CountRelease DEF SubmitFails
<1>5. ASSUME NEW j \in Jobs, DropLease(j) PROVE LeasesCounted'
  <2>1. {j} \subseteq Consumers
    BY JobsAreConsumers
  <2> QED
    BY <1>5, <2>1, CountRelease DEF DropLease
<1>6. ASSUME NEW r \in Regions, CancelIdleHelpers(r) PROVE LeasesCounted'
  <2>1. QueuedOf(r) \subseteq Consumers
    BY JobsAreConsumers DEF QueuedOf, JobsOf
  <2> QED
    BY <1>6, <2>1, CountRelease DEF CancelIdleHelpers
<1>7. ASSUME NEW r \in Regions, Leave(r) PROVE LeasesCounted'
  <2>1. {Caller(r)} \cup {j \in JobsOf(r) : at[j] = "idle"} \subseteq Consumers
    BY JobsAreConsumers, CallerParts DEF JobsOf
  <2> QED
    BY <1>7, <2>1, CountRelease DEF Leave
<1>8. ASSUME NEW r \in Regions,
             \/ ExecuteRoot(r) \/ ReserveNothing(r) \/ CallerOwned(r)
             \/ CallerRefused(r) \/ RecruitEnds(r) \/ RegisterHelper(r)
             \/ SubmitHelper(r) \/ PublishEnds(r) \/ DirectEnds(r)
             \/ KeepIdleHelpers(r) \/ DiscountErased(r) \/ WaitEnds(r)
      PROVE  LeasesCounted'
  BY <1>1, <1>8 DEF ExecuteRoot, EnterRegion, ReserveNothing, CallerOwned,
     CallerRefused, RecruitEnds, RegisterHelper, SubmitHelper, PublishEnds,
     DirectEnds, KeepIdleHelpers, DiscountErased, WaitEnds
<1>9. ASSUME NEW r \in Regions, NEW j \in Jobs, HelpOwnRegion(r, j)
      PROVE  LeasesCounted'
  BY <1>1, <1>9 DEF HelpOwnRegion
<1>10. ASSUME NEW c \in Consumers, ConsumerStep(c) PROVE LeasesCounted'
  BY <1>1, <1>10 DEF ConsumerStep, try_acquire, NoChunk, CallBack, CallBackReturns,
     CallBackThrows, mark_complete, ExecuteNested, EnterRegion
<1>11. ASSUME NEW j \in Jobs,
              FinishHelper(j) \/ FinishWorkerJob(j) \/ FinishCallerJob(j)
       PROVE  LeasesCounted'
  BY <1>1, <1>11 DEF FinishHelper, FinishWorkerJob, FinishCallerJob
<1>12. ASSUME NEW w \in Workers, WorkerStep(w) PROVE LeasesCounted'
  BY <1>1, <1>12 DEF WorkerStep, TakeJob, Sleep, Exit
<1>13. CASE StopPool \/ Terminated \/ UNCHANGED vars
  BY <1>1, <1>13 DEF StopPool, Terminated
<1> QED
  BY <1>2, <1>3, <1>4, <1>5, <1>6, <1>7, <1>8, <1>9, <1>10, <1>11, <1>12, <1>13
  DEF Next, CallerStep, HelperStep

-----------------------------------------------------------------------------
(* The theorems.                                                           *)

\* The inductive invariant.
PoolInv == TypeInv /\ LifeInv /\ RemainingExact /\ LeaseInv /\ LeasesCounted

\* The inductive invariant holds in every reachable state.
THEOREM PoolInvariant == Spec => []PoolInv
<1>1. Init => PoolInv
  BY TypeInit, LifeInit, RemainingInit, LeaseInit, CountInit DEF PoolInv
<1>2. PoolInv /\ [Next]_vars => PoolInv'
  BY TypeStep, LifeStep, RemainingStep, LeaseStep, CountStep DEF PoolInv
<1> QED
  BY <1>1, <1>2, PTL DEF Spec

\* A region ends, by returning or by throwing, only when no job that refers to
\* its stack is queued or running and no helper of it holds a lease: what the
\* wait of execute_visible_work_helping is for, with helpers run by workers and
\* by the caller, erased helpers, failed submissions and shutdown.
THEOREM HelpersRetiredProved == Spec => []HelpersRetiredFirst
<1>1. PoolInv => HelpersRetiredFirst
  <2> SUFFICES ASSUME PoolInv, NEW r \in Regions, outcome[r] # "none",
                      NEW j \in JobsOf(r)
               PROVE  j \notin jobs /\ at[j] \notin Touching /\ ~holds[j]
      BY DEF HelpersRetiredFirst
  <2>1. /\ PlacesApart /\ Departure /\ LeasesHandedOn /\ j \in Jobs
    BY DEF PoolInv, LifeInv, LeaseInv, JobsOf
  <2>2. at[Caller(r)] = "done" /\ at[j] \notin OutstandingAt
    BY <2>1 DEF Departure
  <2>3. at[j] \in {"idle", "done", "retired"}
    BY <2>1, <2>2 DEF PlacesApart, HelpersAt, HelperPlaces, OutstandingAt
  <2>4. ~holds[j]
    BY <2>1, <2>2, <2>3 DEF LeasesHandedOn, Leaseless
  <2> QED
    BY <2>1, <2>3, <2>4 DEF PlacesApart, Touching, Consuming
<1> QED
  BY <1>1, PoolInvariant, PTL

\* The session's counter is the number of worker leases that are held, within
\* the budget, and no lease outlives its job or its region, however submission,
\* cancellation, exceptions and shutdown interleave.
THEOREM LeasesProved == Spec => []LeasesBalance
<1>1. PoolInv => LeasesBalance
  <2> SUFFICES ASSUME PoolInv PROVE LeasesBalance
      OBVIOUS
  <2>1. PlacesApart /\ LeasesHandedOn /\ LeasesCounted
    BY DEF PoolInv, LifeInv, LeaseInv
  <2>2. ASSUME NEW c \in Consumers, holds[c] PROVE at[c] \notin Leaseless
    <3>1. CASE c \in Jobs
      BY <2>1, <2>2, <3>1 DEF LeasesHandedOn
    <3>2. CASE c \notin Jobs
      <4>1. c = Caller(c[1]) /\ c[1] \in Regions
        BY <3>2, ConsumerParts
      <4>2. at[c] \in CallersAt /\ at[c] # "done"
        BY <2>1, <2>2, <4>1 DEF PlacesApart, LeasesHandedOn
      <4> QED
        BY <4>2 DEF CallersAt, CallerPlaces, Consuming, Leaseless
    <3> QED
      BY <3>1, <3>2
  <2> QED
    BY <2>1, <2>2 DEF LeasesBalance, LeasesCounted, Holders
<1> QED
  BY <1>1, PoolInvariant, PTL

-----------------------------------------------------------------------------
(***************************************************************************)
(* ThreadPool implements ParallelRegions: whatever helpers a region        *)
(* recruits, cancels or runs itself, its callback is called at most once   *)
(* per index, exactly once per index when it returns, and never after it   *)
(* has ended.                                                              *)
(***************************************************************************)

-----------------------------------------------------------------------------
(* Who owns which index.                                                   *)

\* Inside a chunk, and inside a callback of it.
Working == {"chunk", "running", "calling"}
InCallback == {"running", "calling"}

\* Before a chunk can be handed out, and after the caller has found none left.
Fresh == {"idle", "reserve", "recruit"}
Winding == {"retire", "discount", "wait", "helping"}

\* The indices below this one belong to somebody.
Acquired(r) == IF direct[r] THEN Total[r] ELSE next_offset[r]

\* A consumer is inside its chunk, and its chunk below what was handed out.
ChunksWithin ==
    /\ \A r \in Regions : next_offset[r] <= Total[r]
    /\ \A c \in Consumers : at[c] \in Working =>
         /\ chunk_begin[c] <= position[c] /\ position[c] <= chunk_end[c]
         /\ chunk_end[c] <= Acquired(c[1])
         /\ at[c] \in InCallback => position[c] < chunk_end[c]

\* No index belongs to two consumers.
ChunksDisjoint ==
    \A c, d \in Consumers :
        c # d /\ c[1] = d[1] /\ at[c] \in Working /\ at[d] \in Working
            => chunk_end[c] <= chunk_begin[d] \/ chunk_end[d] <= chunk_begin[c]

\* No callback was called beyond the indices handed out, and the owner of a
\* chunk calls them in order.
Untouched ==
    \A r \in Regions : \A i \in Indices(r) :
        ~direct[r] /\ next_offset[r] <= i => visits[r][i] = 0
Visited(c, i) == i < position[c] \/ (i = position[c] /\ at[c] \in InCallback)
CalledInOrder ==
    \A c \in Consumers : at[c] \in Working =>
        \A i \in Indices(c[1]) : chunk_begin[c] <= i /\ i < chunk_end[c] =>
            visits[c[1]][i] = IF Visited(c, i) THEN 1 ELSE 0

\* Unless the region is cancelled, an index that was handed out was called or
\* belongs to a consumer.
NoneSkipped ==
    \A r \in Regions : ~direct[r] /\ ~cancelled[r] =>
        \A i \in Indices(r) : i < next_offset[r] /\ visits[r][i] # 1 =>
            \E c \in Consumers : /\ c[1] = r /\ at[c] \in Working
                                 /\ chunk_begin[c] <= i /\ i < chunk_end[c]

\* What the caller's place says about the progress of its region.
Stages ==
    \A r \in Regions :
        /\ at[Caller(r)] \in Fresh =>
             /\ next_offset[r] = 0 /\ position[Caller(r)] = 0
             /\ chunk_begin[Caller(r)] = 0
        /\ at[Caller(r)] \in Winding /\ ~cancelled[r] => next_offset[r] = Total[r]
        /\ at[Caller(r)] = "leave" /\ ~cancelled[r] =>
             \A i \in Indices(r) : visits[r][i] = 1
        /\ direct[r] /\ at[Caller(r)] \in Working =>
             chunk_begin[Caller(r)] = 0 /\ chunk_end[Caller(r)] = Total[r]

OwnInv == /\ ChunksWithin /\ ChunksDisjoint /\ Untouched /\ CalledInOrder
          /\ NoneSkipped /\ Stages

LEMMA OwnInit == Init => OwnInv
<1> SUFFICES ASSUME Init PROVE OwnInv
    OBVIOUS
<1>1. \A c \in Consumers : /\ at[c] = "idle" /\ position[c] = 0
                           /\ chunk_begin[c] = 0
  BY DEF Init
<1>2. \A r \in Regions : /\ next_offset[r] = 0 /\ ~direct[r] /\ ~cancelled[r]
                         /\ \A i \in Indices(r) : visits[r][i] = 0
  BY DEF Init
<1>3. \A r \in Regions : Caller(r) \in Consumers /\ Total[r] \in Nat
  BY CallerParts, ProgramAssumption
<1>4. \A r \in Regions : \A i \in Indices(r) : i >= 0
  BY <1>3 DEF Indices
<1>5. ChunksWithin /\ ChunksDisjoint /\ Untouched /\ CalledInOrder
  BY <1>1, <1>2, <1>3
  DEF Working, ChunksWithin, ChunksDisjoint, Untouched, CalledInOrder
<1>6. NoneSkipped
  BY <1>2, <1>3, <1>4 DEF NoneSkipped, Indices
<1>7. Stages
  BY <1>1, <1>2, <1>3 DEF Stages, Winding, Working
<1> QED
  BY <1>5, <1>6, <1>7 DEF OwnInv

\* No chunk is handed out and no callback is called; a consumer may leave its
\* chunk when it is at its end or the region is cancelled.
LEMMA OwnFrame ==
    ASSUME TypeInv, OwnInv,
           UNCHANGED <<position, chunk_begin, next_offset, visits>>,
           \A c \in Consumers : at'[c] \in Working =>
              /\ at[c] \in Working /\ chunk_end'[c] = chunk_end[c]
              /\ at'[c] \in InCallback <=> at[c] \in InCallback,
           \A c \in Consumers : at[c] \in Working /\ at'[c] \notin Working
              => cancelled'[c[1]] \/ position[c] = chunk_end[c],
           \A q \in Regions :
              /\ direct'[q] <=> direct[q]
              /\ cancelled[q] => cancelled'[q]
              /\ at'[Caller(q)] \in Fresh => at[Caller(q)] \in Fresh
              /\ at'[Caller(q)] \in Winding /\ ~cancelled'[q]
                    => at[Caller(q)] \in Winding \/ next_offset[q] = Total[q]
              /\ at'[Caller(q)] = "leave" /\ ~cancelled'[q]
                    => \/ at[Caller(q)] = "leave"
                       \/ \A i \in Indices(q) : visits[q][i] = 1
    PROVE  OwnInv'
<1>1. \A q \in Regions : Acquired(q)' = Acquired(q)
  BY DEF Acquired
<1>2. \A c \in Consumers : c[1] \in Regions
  BY ConsumerParts
<1>3. \A r \in Regions : Caller(r) \in Consumers
  BY CallerParts
<1>4. ChunksWithin'
  BY <1>1, <1>2 DEF OwnInv, ChunksWithin
<1>5. ChunksDisjoint'
  BY DEF OwnInv, ChunksDisjoint
<1>6. Untouched'
  BY DEF OwnInv, Untouched
<1>7. CalledInOrder'
  <2> SUFFICES ASSUME NEW c \in Consumers, at'[c] \in Working,
                      NEW i \in Indices(c[1]), chunk_begin[c] <= i, i < chunk_end[c]
               PROVE  visits[c[1]][i] = IF Visited(c, i)' THEN 1 ELSE 0
      BY DEF CalledInOrder
  <2>1. visits[c[1]][i] = IF Visited(c, i) THEN 1 ELSE 0
    BY DEF OwnInv, CalledInOrder
  <2>2. Visited(c, i)' <=> Visited(c, i)
    BY DEF Visited
  <2> QED
    BY <2>1, <2>2
<1>8. NoneSkipped'
  <2> SUFFICES ASSUME NEW r \in Regions, ~direct[r], ~cancelled'[r],
                      NEW i \in Indices(r), i < next_offset[r], visits[r][i] # 1
               PROVE  \E c \in Consumers :
                         /\ c[1] = r /\ at'[c] \in Working
                         /\ chunk_begin[c] <= i /\ i < chunk_end'[c]
      BY DEF NoneSkipped
  <2>1. ~cancelled[r]
    OBVIOUS
  <2>2. PICK c \in Consumers : /\ c[1] = r /\ at[c] \in Working
                               /\ chunk_begin[c] <= i /\ i < chunk_end[c]
    BY <2>1 DEF OwnInv, NoneSkipped
  <2>3. CASE at'[c] \in Working
    BY <2>2, <2>3
  <2>4. CASE at'[c] \notin Working
    <3>1. position[c] = chunk_end[c]
      BY <2>2, <2>4
    <3>2. visits[r][i] = 1
      BY <2>2, <3>1 DEF OwnInv, CalledInOrder, Visited
    <3> QED
      BY <3>2
  <2> QED
    BY <2>3, <2>4
<1>9. Stages'
  <2> SUFFICES ASSUME NEW r \in Regions
               PROVE  (/\ at[Caller(r)] \in Fresh =>
                            /\ next_offset[r] = 0 /\ position[Caller(r)] = 0
                            /\ chunk_begin[Caller(r)] = 0
                       /\ at[Caller(r)] \in Winding /\ ~cancelled[r]
                            => next_offset[r] = Total[r]
                       /\ at[Caller(r)] = "leave" /\ ~cancelled[r] =>
                            \A i \in Indices(r) : visits[r][i] = 1
                       /\ direct[r] /\ at[Caller(r)] \in Working =>
                            /\ chunk_begin[Caller(r)] = 0
                            /\ chunk_end[Caller(r)] = Total[r])'
      BY DEF Stages
  <2> QED
    BY <1>3 DEF OwnInv, Stages
<1> QED
  BY <1>4, <1>5, <1>6, <1>7, <1>8, <1>9 DEF OwnInv

\* A caller without helpers takes all indices.
LEMMA OwnDirect ==
    ASSUME TypeInv, LifeInv, OwnInv, NEW r \in Regions, at[Caller(r)] \in Fresh,
           at' = [at EXCEPT ![Caller(r)] = "chunk"],
           chunk_end' = [chunk_end EXCEPT ![Caller(r)] = Total[r]],
           direct'[r], \A q \in Regions \ {r} : direct'[q] <=> direct[q],
           UNCHANGED <<position, chunk_begin, next_offset, visits, cancelled>>
    PROVE  OwnInv'
<1>0. /\ at \in [Consumers -> Places] /\ chunk_end \in [Consumers -> Nat]
      /\ position \in [Consumers -> Nat] /\ chunk_begin \in [Consumers -> Nat]
      /\ Total \in [Regions -> Nat]
  BY ProgramAssumption DEF TypeInv, Types, TypeOK
<1>1. \A c \in Consumers : /\ c[1] \in Regions /\ (c \notin Jobs => c = Caller(c[1]))
                           /\ c \in Jobs => c \in JobsOf(c[1])
  BY ConsumerParts
<1>2. \A q \in Regions : Caller(q) \in Consumers /\ Caller(q)[1] = q
  BY CallerParts
<1>3. \A q \in Regions \ {r} : at'[Caller(q)] = at[Caller(q)]
  BY <1>0, <1>2, CallersDiffer
<1>4. /\ at'[Caller(r)] = "chunk" /\ chunk_end'[Caller(r)] = Total[r]
      /\ \A c \in Consumers \ {Caller(r)} :
            at'[c] = at[c] /\ chunk_end'[c] = chunk_end[c]
  BY <1>0, <1>2
<1>5. /\ next_offset[r] = 0 /\ position[Caller(r)] = 0
      /\ chunk_begin[Caller(r)] = 0 /\ ~direct[r]
  BY DEF OwnInv, Stages, LifeInv, Submission, DirectAt, Fresh
<1>6. \A i \in Indices(r) : visits[r][i] = 0
  BY <1>0, <1>5 DEF OwnInv, Untouched, Indices
<1>7. \A j \in JobsOf(r) : at[j] = "idle"
  BY NoneSubmitted DEF LifeInv, Submission, Fresh
<1>8. \A c \in Consumers : c[1] = r /\ c # Caller(r) => at[c] \notin Working
  BY <1>1, <1>7 DEF Working
<1>9. /\ Acquired(r)' = Total[r]
      /\ \A q \in Regions \ {r} : Acquired(q)' = Acquired(q)
  BY DEF Acquired
<1>10. ChunksWithin'
  <2>1. \A q \in Regions : next_offset[q] <= Total[q]
    BY DEF OwnInv, ChunksWithin
  <2>2. ASSUME NEW c \in Consumers, at'[c] \in Working
        PROVE  /\ chunk_begin[c] <= position[c] /\ position[c] <= chunk_end'[c]
               /\ chunk_end'[c] <= Acquired(c[1])'
               /\ at'[c] \in InCallback => position[c] < chunk_end'[c]
    <3>1. CASE c = Caller(r)
      BY <1>0, <1>2, <1>4, <1>5, <1>9, <3>1 DEF InCallback
    <3>2. CASE c # Caller(r)
      BY <1>1, <1>4, <1>8, <1>9, <2>2, <3>2 DEF OwnInv, ChunksWithin
    <3> QED
      BY <3>1, <3>2
  <2> QED
    BY <2>1, <2>2 DEF ChunksWithin
<1>11. ChunksDisjoint'
  BY <1>2, <1>4, <1>8 DEF OwnInv, ChunksDisjoint
<1>12. Untouched'
  BY DEF OwnInv, Untouched
<1>13. CalledInOrder'
  <2> SUFFICES ASSUME NEW c \in Consumers, at'[c] \in Working,
                      NEW i \in Indices(c[1]), chunk_begin[c] <= i, i < chunk_end'[c]
               PROVE  visits[c[1]][i] = IF Visited(c, i)' THEN 1 ELSE 0
      BY DEF CalledInOrder
  <2>1. CASE c = Caller(r)
    BY <1>0, <1>2, <1>4, <1>5, <1>6, <2>1 DEF Visited, InCallback, Indices
  <2>2. CASE c # Caller(r)
    BY <1>4, <2>2 DEF OwnInv, CalledInOrder, Visited
  <2> QED
    BY <2>1, <2>2
<1>14. NoneSkipped'
  <2> SUFFICES ASSUME NEW q \in Regions, ~direct'[q], ~cancelled[q],
                      NEW i \in Indices(q), i < next_offset[q], visits[q][i] # 1
               PROVE  \E c \in Consumers :
                         /\ c[1] = q /\ at'[c] \in Working
                         /\ chunk_begin[c] <= i /\ i < chunk_end'[c]
      BY DEF NoneSkipped
  <2>1. q # r /\ ~direct[q]
    OBVIOUS
  <2>2. PICK c \in Consumers : /\ c[1] = q /\ at[c] \in Working
                               /\ chunk_begin[c] <= i /\ i < chunk_end[c]
    BY <2>1 DEF OwnInv, NoneSkipped
  <2> QED
    BY <1>2, <1>4, <2>1, <2>2
<1>15. Stages'
  <2> SUFFICES ASSUME NEW q \in Regions
               PROVE  (/\ at[Caller(q)] \in Fresh =>
                            /\ next_offset[q] = 0 /\ position[Caller(q)] = 0
                            /\ chunk_begin[Caller(q)] = 0
                       /\ at[Caller(q)] \in Winding /\ ~cancelled[q]
                            => next_offset[q] = Total[q]
                       /\ at[Caller(q)] = "leave" /\ ~cancelled[q] =>
                            \A i \in Indices(q) : visits[q][i] = 1
                       /\ direct[q] /\ at[Caller(q)] \in Working =>
                            /\ chunk_begin[Caller(q)] = 0
                            /\ chunk_end[Caller(q)] = Total[q])'
      BY DEF Stages
  <2>1. CASE q = r
    BY <1>4, <1>5, <2>1 DEF Fresh, Winding
  <2>2. CASE q # r
    BY <1>2, <1>3, <1>4, <2>2 DEF OwnInv, Stages
  <2> QED
    BY <2>1, <2>2
<1> QED
  BY <1>10, <1>11, <1>12, <1>13, <1>14, <1>15 DEF OwnInv

\* A consumer that works on a region that is not sequential is not the caller
\* of a sequential one.
LEMMA AcquireShared ==
    ASSUME LifeInv, NEW c \in Consumers, at[c] = "acquire"
    PROVE  ~direct[c[1]]
<1>1. CASE c \in Jobs
  <2>1. c \in JobsOf(c[1]) /\ c[1] \in Regions
    BY <1>1, ConsumerParts
  <2> QED
    BY <2>1, NoneSubmitted DEF LifeInv, Submission
<1>2. CASE c \notin Jobs
  <2>1. c = Caller(c[1]) /\ c[1] \in Regions
    BY <1>2, ConsumerParts
  <2> QED
    BY <2>1 DEF LifeInv, Submission, DirectAt
<1> QED
  BY <1>1, <1>2

\* SchedulerVisibleWork::try_acquire hands out the next indices.
LEMMA OwnAcquire ==
    ASSUME TypeInv, LifeInv, OwnInv, NEW c \in Consumers, try_acquire(c)
    PROVE  OwnInv'
<1> DEFINE r == c[1]
<1> DEFINE length == Smaller(grain(r), Total[r] - next_offset[r])
<1>0. /\ at \in [Consumers -> Places] /\ chunk_end \in [Consumers -> Nat]
      /\ position \in [Consumers -> Nat] /\ chunk_begin \in [Consumers -> Nat]
      /\ next_offset \in [Regions -> Nat]
  BY DEF TypeInv, Types, TypeOK
<1>1. r \in Regions /\ Total[r] \in Nat /\ at[c] = "acquire" /\ ~direct[r]
  BY ConsumerParts, AcquireShared, ProgramAssumption DEF try_acquire
<1>2. next_offset[r] < Total[r] /\ ~cancelled[r]
  BY DEF try_acquire
<1>3. length \in Nat /\ next_offset[r] + length <= Total[r]
  BY <1>0, <1>1, <1>2, GrainType DEF Smaller
<1>4. /\ at' = [at EXCEPT ![c] = "chunk"]
      /\ position' = [position EXCEPT ![c] = next_offset[r]]
      /\ chunk_begin' = [chunk_begin EXCEPT ![c] = next_offset[r]]
      /\ chunk_end' = [chunk_end EXCEPT ![c] = next_offset[r] + length]
      /\ next_offset' = [next_offset EXCEPT ![r] = @ + length]
      /\ UNCHANGED <<cancelled, direct, visits>>
  BY DEF try_acquire, Goto
<1> HIDE DEF length
<1>5. /\ at'[c] = "chunk" /\ position'[c] = next_offset[r]
      /\ chunk_begin'[c] = next_offset[r]
      /\ chunk_end'[c] = next_offset[r] + length
  BY <1>0, <1>4
<1>6. \A d \in Consumers \ {c} :
         /\ at'[d] = at[d] /\ position'[d] = position[d]
         /\ chunk_begin'[d] = chunk_begin[d] /\ chunk_end'[d] = chunk_end[d]
  BY <1>0, <1>4
<1>7. /\ next_offset'[r] = next_offset[r] + length
      /\ \A q \in Regions \ {r} : next_offset'[q] = next_offset[q]
  BY <1>0, <1>1, <1>4
<1>8. /\ Acquired(r) = next_offset[r] /\ Acquired(r)' = next_offset[r] + length
      /\ \A q \in Regions \ {r} : Acquired(q)' = Acquired(q)
  BY <1>1, <1>4, <1>7 DEF Acquired
<1>9. \A d \in Consumers : d[1] \in Regions
  BY ConsumerParts
<1>10. \A q \in Regions : Caller(q) \in Consumers /\ Caller(q)[1] = q
  BY CallerParts
<1> HIDE DEF r
<1>r. r = c[1]
  BY DEF r
<1>11. ChunksWithin'
  <2>1. \A q \in Regions : next_offset'[q] <= Total[q]
    BY <1>3, <1>7 DEF OwnInv, ChunksWithin
  <2>2. ASSUME NEW d \in Consumers, at'[d] \in Working
        PROVE  /\ chunk_begin'[d] <= position'[d] /\ position'[d] <= chunk_end'[d]
               /\ chunk_end'[d] <= Acquired(d[1])'
               /\ at'[d] \in InCallback => position'[d] < chunk_end'[d]
    <3>1. CASE d = c
      BY <1>0, <1>1, <1>3, <1>5, <1>8, <1>r, <3>1 DEF InCallback
    <3>2. CASE d # c
      <4>1. /\ chunk_begin[d] <= position[d] /\ position[d] <= chunk_end[d]
            /\ chunk_end[d] <= Acquired(d[1])
            /\ at[d] \in InCallback => position[d] < chunk_end[d]
        BY <1>6, <2>2, <3>2 DEF OwnInv, ChunksWithin
      <4>2. CASE d[1] = r
        BY <1>0, <1>1, <1>3, <1>6, <1>8, <3>2, <4>1, <4>2
      <4>3. CASE d[1] # r
        BY <1>6, <1>8, <1>9, <3>2, <4>1, <4>3
      <4> QED
        BY <4>2, <4>3
    <3> QED
      BY <3>1, <3>2
  <2> QED
    BY <2>1, <2>2 DEF ChunksWithin
<1>12. ChunksDisjoint'
  <2>1. \A d \in Consumers \ {c} : d[1] = r /\ at[d] \in Working
           => chunk_end[d] <= next_offset[r]
    BY <1>8 DEF OwnInv, ChunksWithin
  <2>2. ASSUME NEW d \in Consumers, NEW e \in Consumers, d # e, d[1] = e[1],
               at'[d] \in Working, at'[e] \in Working
        PROVE  chunk_end'[d] <= chunk_begin'[e] \/ chunk_end'[e] <= chunk_begin'[d]
    <3>1. CASE d = c
      BY <1>5, <1>6, <1>r, <2>1, <2>2, <3>1
    <3>2. CASE e = c
      BY <1>5, <1>6, <1>r, <2>1, <2>2, <3>2
    <3>3. CASE d # c /\ e # c
      BY <1>6, <2>2, <3>3 DEF OwnInv, ChunksDisjoint
    <3> QED
      BY <3>1, <3>2, <3>3
  <2> QED
    BY <2>2 DEF ChunksDisjoint
<1>13. Untouched'
  <2> SUFFICES ASSUME NEW q \in Regions, NEW i \in Indices(q), ~direct[q],
                      next_offset'[q] <= i
               PROVE  visits[q][i] = 0
      BY <1>4 DEF Untouched
  <2>1. next_offset[q] <= i
    BY <1>0, <1>3, <1>7, ProgramAssumption DEF Indices
  <2> QED
    BY <2>1 DEF OwnInv, Untouched
<1>14. CalledInOrder'
  <2> SUFFICES ASSUME NEW d \in Consumers, at'[d] \in Working,
                      NEW i \in Indices(d[1]), chunk_begin'[d] <= i, i < chunk_end'[d]
               PROVE  visits[d[1]][i] = IF Visited(d, i)' THEN 1 ELSE 0
      BY <1>4 DEF CalledInOrder
  <2>1. CASE d = c
    <3>1. ~Visited(d, i)'
      BY <1>0, <1>1, <1>5, <1>r, <2>1 DEF Visited, InCallback, Indices
    <3>2. visits[r][i] = 0
      BY <1>1, <1>5, <1>r, <2>1 DEF OwnInv, Untouched
    <3> QED
      BY <1>r, <2>1, <3>1, <3>2
  <2>2. CASE d # c
    BY <1>6, <2>2 DEF OwnInv, CalledInOrder, Visited
  <2> QED
    BY <2>1, <2>2
<1>15. NoneSkipped'
  <2> SUFFICES ASSUME NEW q \in Regions, ~direct[q], ~cancelled[q],
                      NEW i \in Indices(q), i < next_offset'[q], visits[q][i] # 1
               PROVE  \E d \in Consumers :
                         /\ d[1] = q /\ at'[d] \in Working
                         /\ chunk_begin'[d] <= i /\ i < chunk_end'[d]
      BY <1>4 DEF NoneSkipped
  <2>1. CASE i < next_offset[q]
    <3>1. PICK d \in Consumers : /\ d[1] = q /\ at[d] \in Working
                                 /\ chunk_begin[d] <= i /\ i < chunk_end[d]
      BY <2>1 DEF OwnInv, NoneSkipped
    <3>2. d # c
      BY <1>1, <3>1 DEF Working
    <3> QED
      BY <1>6, <3>1, <3>2
  <2>2. CASE ~(i < next_offset[q])
    <3>1. q = r
      BY <1>7, <2>2
    <3>2. chunk_begin'[c] <= i /\ i < chunk_end'[c]
      BY <1>0, <1>1, <1>5, <1>7, <2>2, <3>1, ProgramAssumption DEF Indices
    <3>3. at'[c] \in Working
      BY <1>5 DEF Working
    <3> QED
      BY <1>r, <3>1, <3>2, <3>3
  <2> QED
    BY <2>1, <2>2
<1>16. Stages'
  <2> SUFFICES ASSUME NEW q \in Regions
               PROVE  (/\ at[Caller(q)] \in Fresh =>
                            /\ next_offset[q] = 0 /\ position[Caller(q)] = 0
                            /\ chunk_begin[Caller(q)] = 0
                       /\ at[Caller(q)] \in Winding /\ ~cancelled[q]
                            => next_offset[q] = Total[q]
                       /\ at[Caller(q)] = "leave" /\ ~cancelled[q] =>
                            \A i \in Indices(q) : visits[q][i] = 1
                       /\ direct[q] /\ at[Caller(q)] \in Working =>
                            /\ chunk_begin[Caller(q)] = 0
                            /\ chunk_end[Caller(q)] = Total[q])'
      BY DEF Stages
  <2>1. CASE q = r /\ c = Caller(q)
    BY <1>1, <1>4, <1>5, <2>1 DEF Fresh, Winding
  <2>2. CASE q # r
    <3>1. Caller(q) # c
      BY <1>10, <1>r, <2>2
    <3> QED
      BY <1>4, <1>6, <1>7, <1>10, <2>2, <3>1 DEF OwnInv, Stages
  <2>3. CASE q = r /\ c # Caller(q)
    \* A helper: its caller is past the first stage, and chunks are left.
    <3>1. c \in JobsOf(r)
      BY <1>r, <2>3, ConsumerParts
    <3>2. at[Caller(r)] \notin Fresh
      BY <1>1, <3>1, NoneSubmitted DEF LifeInv, Submission, Fresh
    <3>3. at[Caller(r)] \notin Winding
      BY <1>0, <1>1, <1>2 DEF OwnInv, Stages
    <3> QED
      BY <1>1, <1>4, <1>6, <1>10, <2>3, <3>2, <3>3 DEF OwnInv, Stages
  <2> QED
    BY <2>1, <2>2, <2>3
<1> QED
  BY <1>11, <1>12, <1>13, <1>14, <1>15, <1>16 DEF OwnInv

\* The callback is called for the next index of a chunk.
LEMMA OwnCall ==
    ASSUME TypeInv, LifeInv, OwnInv, NEW c \in Consumers, CallBack(c)
    PROVE  /\ OwnInv'
           /\ position[c] \in Indices(c[1]) /\ visits[c[1]][position[c]] = 0
           /\ visits' = [visits EXCEPT ![c[1]][position[c]] = 1]
<1> DEFINE r == c[1]
<1> DEFINE n == position[c]
<1>0. /\ at \in [Consumers -> Places] /\ chunk_end \in [Consumers -> Nat]
      /\ position \in [Consumers -> Nat] /\ chunk_begin \in [Consumers -> Nat]
      /\ next_offset \in [Regions -> Nat]
      /\ visits = [q \in Regions |-> visits[q]]
      /\ \A q \in Regions : visits[q] \in [Indices(q) -> Nat]
      /\ chunk_end[c] <= Total[r]
  BY DEF TypeInv, Types, TypeOK
<1>1. r \in Regions /\ Total[r] \in Nat /\ at[c] = "chunk"
  BY ConsumerParts, ProgramAssumption DEF CallBack
<1>2. n < chunk_end[c] /\ chunk_begin[c] <= n
  BY <1>1 DEF CallBack, OwnInv, ChunksWithin, Working
<1>3. n \in Indices(r) /\ n \in Nat
  BY <1>0, <1>1, <1>2 DEF Indices
<1>4. visits[r][n] = 0
  BY <1>0, <1>1, <1>2, <1>3 DEF OwnInv, CalledInOrder, Visited, Working, InCallback
<1>5. /\ at' = [at EXCEPT ![c] = "running"]
      /\ visits' = [visits EXCEPT ![r][n] = visits[r][n] + 1]
      /\ UNCHANGED <<position, chunk_begin, chunk_end, next_offset, cancelled, direct>>
  BY DEF CallBack, Goto
<1>6. visits' = [visits EXCEPT ![r][n] = 1]
  BY <1>4, <1>5
<1>7. /\ \A i \in Indices(r) : visits'[r][i] = IF i = n THEN 1 ELSE visits[r][i]
      /\ \A q \in Regions \ {r} : visits'[q] = visits[q]
  BY <1>0, <1>1, <1>3, <1>6
<1>8. /\ at'[c] = "running"
      /\ \A d \in Consumers \ {c} : at'[d] = at[d]
  BY <1>0, <1>5
<1>9. \A d \in Consumers : d[1] \in Regions /\ (at'[d] \in Working <=> at[d] \in Working)
  BY <1>1, <1>8, ConsumerParts DEF Working
<1>10. \A q \in Regions : Caller(q) \in Consumers /\ Caller(q)[1] = q
  BY CallerParts
<1>11. n < Acquired(r) /\ \A q \in Regions : Acquired(q)' = Acquired(q)
  <2>1. chunk_end[c] <= Acquired(r) /\ Acquired(r) \in Nat
    BY <1>0, <1>1 DEF OwnInv, ChunksWithin, Working, Acquired
  <2> QED
    BY <1>0, <1>2, <1>3, <1>5, <2>1 DEF Acquired
<1> HIDE DEF r, n
<1>r. r = c[1] /\ n = position[c]
  BY DEF r, n
<1>12. ChunksWithin'
  <2>1. ASSUME NEW d \in Consumers, at'[d] \in Working
        PROVE  /\ chunk_begin[d] <= position[d] /\ position[d] <= chunk_end[d]
               /\ chunk_end[d] <= Acquired(d[1])'
               /\ at'[d] \in InCallback => position[d] < chunk_end[d]
    <3>1. CASE d = c
      BY <1>2, <1>9, <1>11, <1>r, <2>1, <3>1 DEF OwnInv, ChunksWithin
    <3>2. CASE d # c
      BY <1>8, <1>9, <1>11, <2>1, <3>2 DEF OwnInv, ChunksWithin
    <3> QED
      BY <3>1, <3>2
  <2> QED
    BY <1>5, <2>1 DEF OwnInv, ChunksWithin
<1>13. ChunksDisjoint'
  BY <1>5, <1>9 DEF OwnInv, ChunksDisjoint
<1>14. Untouched'
  <2> SUFFICES ASSUME NEW q \in Regions, NEW i \in Indices(q), ~direct[q],
                      next_offset[q] <= i
               PROVE  visits'[q][i] = 0
      BY <1>5 DEF Untouched
  <2>1. visits[q][i] = 0
    BY DEF OwnInv, Untouched
  <2>2. CASE q = r
    BY <1>0, <1>3, <1>7, <1>11, <2>1, <2>2 DEF Acquired
  <2>3. CASE q # r
    BY <1>7, <2>1, <2>3
  <2> QED
    BY <2>2, <2>3
<1>15. CalledInOrder'
  <2> SUFFICES ASSUME NEW d \in Consumers, at'[d] \in Working,
                      NEW i \in Indices(d[1]), chunk_begin[d] <= i, i < chunk_end[d]
               PROVE  visits'[d[1]][i] = IF Visited(d, i)' THEN 1 ELSE 0
      BY <1>5 DEF CalledInOrder
  <2>0. visits[d[1]][i] = IF Visited(d, i) THEN 1 ELSE 0
    BY <1>9 DEF OwnInv, CalledInOrder
  <2>1. CASE d = c
    <3>1. Visited(d, i)' <=> i < n \/ i = n
      BY <1>5, <1>8, <1>r, <2>1 DEF Visited, InCallback
    <3>2. Visited(d, i) <=> i < n
      BY <1>1, <1>r, <2>1 DEF Visited, InCallback
    <3> QED
      BY <1>7, <1>r, <2>0, <2>1, <3>1, <3>2
  <2>2. CASE d # c
    <3>1. Visited(d, i)' <=> Visited(d, i)
      BY <1>5, <1>8, <2>2 DEF Visited
    <3>2. CASE d[1] = r
      <4>1. at[c] \in Working /\ at[d] \in Working
        BY <1>1, <1>9 DEF Working
      <4>2. chunk_end[c] <= chunk_begin[d] \/ chunk_end[d] <= chunk_begin[c]
        BY <1>r, <2>2, <3>2, <4>1 DEF OwnInv, ChunksDisjoint
      <4>3. i # n
        BY <1>0, <1>2, <1>3, <4>2
      <4> QED
        BY <1>7, <2>0, <3>1, <3>2, <4>3
    <3>3. CASE d[1] # r
      BY <1>7, <1>9, <2>0, <3>1, <3>3
    <3> QED
      BY <3>2, <3>3
  <2> QED
    BY <2>1, <2>2
<1>16. NoneSkipped'
  <2> SUFFICES ASSUME NEW q \in Regions, ~direct[q], ~cancelled[q],
                      NEW i \in Indices(q), i < next_offset[q], visits'[q][i] # 1
               PROVE  \E d \in Consumers :
                         /\ d[1] = q /\ at'[d] \in Working
                         /\ chunk_begin[d] <= i /\ i < chunk_end[d]
      BY <1>5 DEF NoneSkipped
  <2>1. visits[q][i] # 1
    BY <1>7
  <2>2. PICK d \in Consumers : /\ d[1] = q /\ at[d] \in Working
                               /\ chunk_begin[d] <= i /\ i < chunk_end[d]
    BY <2>1 DEF OwnInv, NoneSkipped
  <2> QED
    BY <1>9, <2>2
<1>17. Stages'
  <2> SUFFICES ASSUME NEW q \in Regions
               PROVE  (/\ at[Caller(q)] \in Fresh =>
                            /\ next_offset[q] = 0 /\ position[Caller(q)] = 0
                            /\ chunk_begin[Caller(q)] = 0
                       /\ at[Caller(q)] \in Winding /\ ~cancelled[q]
                            => next_offset[q] = Total[q]
                       /\ at[Caller(q)] = "leave" /\ ~cancelled[q] =>
                            \A i \in Indices(q) : visits[q][i] = 1
                       /\ direct[q] /\ at[Caller(q)] \in Working =>
                            /\ chunk_begin[Caller(q)] = 0
                            /\ chunk_end[Caller(q)] = Total[q])'
      BY DEF Stages
  <2>1. CASE c = Caller(q)
    BY <1>1, <1>5, <1>8, <2>1 DEF OwnInv, Stages, Fresh, Winding, Working
  <2>2. CASE c # Caller(q)
    <3>1. at'[Caller(q)] = at[Caller(q)]
      BY <1>8, <1>10, <2>2
    <3>2. ASSUME at[Caller(q)] = "leave", ~cancelled[q], NEW i \in Indices(q)
          PROVE  visits'[q][i] = 1
      BY <1>7, <3>2 DEF OwnInv, Stages
    <3> QED
      BY <1>5, <3>1, <3>2 DEF OwnInv, Stages
  <2> QED
    BY <2>1, <2>2
<1> QED
  BY <1>3, <1>4, <1>6, <1>12, <1>13, <1>14, <1>15, <1>16, <1>17, <1>r DEF OwnInv

\* The callback returns.
LEMMA OwnReturn ==
    ASSUME TypeInv, OwnInv, NEW c \in Consumers, CallBackReturns(c)
    PROVE  OwnInv'
<1>0. /\ at \in [Consumers -> Places] /\ chunk_end \in [Consumers -> Nat]
      /\ position \in [Consumers -> Nat] /\ chunk_begin \in [Consumers -> Nat]
  BY DEF TypeInv, Types, TypeOK
<1>1. at[c] = "running" /\ position[c] < chunk_end[c]
  BY DEF CallBackReturns, OwnInv, ChunksWithin, Working, InCallback
<1>2. /\ at' = [at EXCEPT ![c] = "chunk"]
      /\ position' = [position EXCEPT ![c] = position[c] + 1]
      /\ UNCHANGED <<chunk_begin, chunk_end, next_offset, cancelled, direct, visits>>
  BY DEF CallBackReturns, Goto
<1>3. /\ at'[c] = "chunk" /\ position'[c] = position[c] + 1
      /\ \A d \in Consumers \ {c} : at'[d] = at[d] /\ position'[d] = position[d]
  BY <1>0, <1>2
<1>4. \A d \in Consumers : d[1] \in Regions /\ (at'[d] \in Working <=> at[d] \in Working)
  BY <1>1, <1>3, ConsumerParts DEF Working
<1>5. \A q \in Regions : Caller(q) \in Consumers /\ Acquired(q)' = Acquired(q)
  BY <1>2, CallerParts DEF Acquired
<1>6. ChunksWithin'
  <2>1. ASSUME NEW d \in Consumers, at'[d] \in Working
        PROVE  /\ chunk_begin[d] <= position'[d] /\ position'[d] <= chunk_end[d]
               /\ chunk_end[d] <= Acquired(d[1])'
               /\ at'[d] \in InCallback => position'[d] < chunk_end[d]
    <3>0. /\ chunk_begin[d] <= position[d] /\ position[d] <= chunk_end[d]
          /\ chunk_end[d] <= Acquired(d[1])
          /\ at[d] \in InCallback => position[d] < chunk_end[d]
      BY <1>4, <2>1 DEF OwnInv, ChunksWithin
    <3>1. CASE d = c
      BY <1>0, <1>1, <1>3, <1>4, <1>5, <3>0, <3>1 DEF InCallback
    <3>2. CASE d # c
      BY <1>3, <1>4, <1>5, <3>0, <3>2
    <3> QED
      BY <3>1, <3>2
  <2> QED
    BY <1>2, <2>1 DEF OwnInv, ChunksWithin
<1>7. ChunksDisjoint'
  BY <1>2, <1>4 DEF OwnInv, ChunksDisjoint
<1>8. Untouched'
  BY <1>2 DEF OwnInv, Untouched
<1>9. CalledInOrder'
  <2> SUFFICES ASSUME NEW d \in Consumers, at'[d] \in Working,
                      NEW i \in Indices(d[1]), chunk_begin[d] <= i, i < chunk_end[d]
               PROVE  visits[d[1]][i] = IF Visited(d, i)' THEN 1 ELSE 0
      BY <1>2 DEF CalledInOrder
  <2>1. visits[d[1]][i] = IF Visited(d, i) THEN 1 ELSE 0
    BY <1>4 DEF OwnInv, CalledInOrder
  <2>2. i \in Int
    BY <1>4, ProgramAssumption DEF Indices
  <2>3. Visited(d, i)' <=> Visited(d, i)
    BY <1>0, <1>1, <1>3, <2>2 DEF Visited, InCallback
  <2> QED
    BY <2>1, <2>3
<1>10. NoneSkipped'
  <2> SUFFICES ASSUME NEW q \in Regions, ~direct[q], ~cancelled[q],
                      NEW i \in Indices(q), i < next_offset[q], visits[q][i] # 1
               PROVE  \E d \in Consumers :
                         /\ d[1] = q /\ at'[d] \in Working
                         /\ chunk_begin[d] <= i /\ i < chunk_end[d]
      BY <1>2 DEF NoneSkipped
  <2> QED
    BY <1>4 DEF OwnInv, NoneSkipped
<1>11. Stages'
  <2>1. \A q \in Regions :
          /\ at'[Caller(q)] \in Working <=> at[Caller(q)] \in Working
          /\ at'[Caller(q)] \notin Working =>
               at'[Caller(q)] = at[Caller(q)] /\ position'[Caller(q)] = position[Caller(q)]
    BY <1>3, <1>4, <1>5 DEF Working
  <2>2. \A q \in Regions : at'[Caller(q)] \in Fresh \cup Winding \cup {"leave"}
                => at'[Caller(q)] \notin Working
    BY DEF Fresh, Winding, Working
  <2> QED
    BY <1>2, <2>1, <2>2 DEF OwnInv, Stages
<1> QED
  BY <1>6, <1>7, <1>8, <1>9, <1>10, <1>11 DEF OwnInv

\* A consumer goes to a place outside chunks.
LEMMA OwnGoto ==
    ASSUME TypeInv, OwnInv, NEW c \in Consumers, NEW p,
           at' = [at EXCEPT ![c] = p], p \notin Working,
           UNCHANGED <<chunkVars, next_offset, direct, visits>>,
           \A q \in Regions : cancelled[q] => cancelled'[q],
           \/ at[c] \notin Working \/ cancelled'[c[1]]
           \/ position[c] = chunk_end[c],
           p \in Fresh => at[c] \in Fresh,
           p \in Winding => \/ at[c] \in Winding \/ cancelled'[c[1]]
                            \/ next_offset[c[1]] = Total[c[1]],
           p = "leave" => \/ cancelled'[c[1]]
                          \/ \A i \in Indices(c[1]) : visits[c[1]][i] = 1
    PROVE  OwnInv'
<1>1. at \in [Consumers -> Places]
  BY DEF TypeInv, Types, TypeOK
<1>2. at'[c] = p /\ \A d \in Consumers \ {c} : at'[d] = at[d]
  BY <1>1
<1>3. \A q \in Regions : /\ Caller(q) \in Consumers /\ Caller(q)[1] = q
                         /\ at'[Caller(q)] = IF Caller(q) = c THEN p ELSE at[Caller(q)]
  BY <1>2, CallerParts
<1>4. /\ \A d \in Consumers : at'[d] \in Working =>
            /\ at[d] \in Working /\ chunk_end'[d] = chunk_end[d]
            /\ at'[d] \in InCallback <=> at[d] \in InCallback
      /\ \A d \in Consumers : at[d] \in Working /\ at'[d] \notin Working
            => cancelled'[d[1]] \/ position[d] = chunk_end[d]
  BY <1>2
<1>5. \A q \in Regions :
         /\ at'[Caller(q)] \in Fresh => at[Caller(q)] \in Fresh
         /\ at'[Caller(q)] \in Winding /\ ~cancelled'[q]
               => at[Caller(q)] \in Winding \/ next_offset[q] = Total[q]
         /\ at'[Caller(q)] = "leave" /\ ~cancelled'[q]
               => \/ at[Caller(q)] = "leave"
                  \/ \A i \in Indices(q) : visits[q][i] = 1
  BY <1>3
<1> QED
  BY <1>4, <1>5, OwnFrame

\* Callers and helpers go to places outside chunks, and callbacks start or end
\* nested regions.
LEMMA OwnPlaces ==
    ASSUME TypeInv, OwnInv,
           UNCHANGED <<chunkVars, next_offset, cancelled, direct, visits>>,
           \A c \in Consumers : at'[c] # at[c] =>
              \/ at[c] \in InCallback /\ at'[c] \in InCallback
              \/ /\ at[c] \notin Working /\ at'[c] \notin Working
                 /\ at'[c] \in Fresh => at[c] \in Fresh
                 /\ at'[c] \in Winding => at[c] \in Winding
                 /\ at'[c] = "leave" => Total[c[1]] = 0
    PROVE  OwnInv'
<1>1. \A q \in Regions : Caller(q) \in Consumers /\ Caller(q)[1] = q
  BY CallerParts
<1>2. \A q \in Regions : Total[q] = 0 => Indices(q) = {}
  BY DEF Indices
<1>3. InCallback \subseteq Working /\ \A p \in InCallback : p \notin Fresh \cup Winding /\ p # "leave"
  BY DEF InCallback, Working, Fresh, Winding
<1>4. /\ \A d \in Consumers : at'[d] \in Working =>
            /\ at[d] \in Working /\ chunk_end'[d] = chunk_end[d]
            /\ at'[d] \in InCallback <=> at[d] \in InCallback
      /\ \A d \in Consumers : at[d] \in Working => at'[d] \in Working
  BY <1>3
<1>5. \A q \in Regions :
         /\ at'[Caller(q)] \in Fresh => at[Caller(q)] \in Fresh
         /\ at'[Caller(q)] \in Winding => at[Caller(q)] \in Winding
         /\ at'[Caller(q)] = "leave"
               => \/ at[Caller(q)] = "leave"
                  \/ \A i \in Indices(q) : visits[q][i] = 1
  BY <1>1, <1>2, <1>3
<1> QED
  BY <1>4, <1>5, OwnFrame

LEMMA OwnStep ==
    TypeInv /\ LifeInv /\ RemainingExact /\ OwnInv /\ [Next]_vars => OwnInv'
<1> SUFFICES ASSUME TypeInv, LifeInv, RemainingExact, OwnInv, [Next]_vars
             PROVE  OwnInv'
    OBVIOUS
<1> USE DEF Goto
<1>0. /\ at \in [Consumers -> Places] /\ direct \in [Regions -> BOOLEAN]
      /\ cancelled \in [Regions -> BOOLEAN]
      /\ PlacesApart /\ Submission /\ Departure
  BY DEF TypeInv, Types, TypeOK, LifeInv
<1>c. \A r \in Regions : /\ Caller(r) \in Consumers /\ Caller(r) \notin Jobs
                         /\ Caller(r)[1] = r
  BY CallerParts
<1>j. \A j \in Jobs : j \in Consumers
  BY JobsAreConsumers
<1>1. ASSUME NEW r \in Regions, NEW t, NEW places \in [Consumers -> Places],
             \A c \in Consumers : places[c] # at[c]
                 => places[c] = "calling" /\ at[c] = "running",
             EnterRegion(r, t, places)
      PROVE  OwnInv'
  <2>1. /\ at' = [places EXCEPT ![Caller(r)] =
                    IF Total[r] = 0 THEN "leave" ELSE "reserve"]
        /\ at[Caller(r)] = "idle"
        /\ UNCHANGED <<chunkVars, next_offset, cancelled, direct, visits>>
    BY <1>1 DEF EnterRegion
  <2>2. /\ at'[Caller(r)] = IF Total[r] = 0 THEN "leave" ELSE "reserve"
        /\ \A c \in Consumers \ {Caller(r)} : at'[c] = places[c]
    BY <1>c, <1>1, <2>1
  <2>3. ASSUME NEW c \in Consumers, at'[c] # at[c]
        PROVE  \/ at[c] \in InCallback /\ at'[c] \in InCallback
               \/ /\ at[c] \notin Working /\ at'[c] \notin Working
                  /\ at'[c] \in Fresh => at[c] \in Fresh
                  /\ at'[c] \in Winding => at[c] \in Winding
                  /\ at'[c] = "leave" => Total[c[1]] = 0
    <3>1. CASE c = Caller(r)
      BY <1>c, <2>1, <2>2, <3>1 DEF Working, Fresh, Winding
    <3>2. CASE c # Caller(r)
      BY <1>1, <2>2, <2>3, <3>2 DEF InCallback
    <3> QED
      BY <3>1, <3>2
  <2> QED
    BY <2>1, <2>3, OwnPlaces
<1>2. ASSUME NEW r \in Regions, ExecuteRoot(r) PROVE OwnInv'
  BY <1>0, <1>1, <1>2 DEF ExecuteRoot
<1>3. ASSUME NEW c \in Consumers, NEW r \in Regions, ExecuteNested(c, r)
      PROVE  OwnInv'
  <2> DEFINE places == [at EXCEPT ![c] = "calling"]
  <2>1. /\ places \in [Consumers -> Places]
        /\ \A d \in Consumers : places[d] # at[d]
              => places[d] = "calling" /\ at[d] = "running"
    BY <1>0, <1>3 DEF Places, Consuming, ExecuteNested
  <2>2. EnterRegion(r, thread[c], places)
    BY <1>3 DEF ExecuteNested
  <2> HIDE DEF places
  <2> QED
    BY <1>1, <2>1, <2>2
<1>4. ASSUME NEW r \in Regions, NEW limit, Dispatch(r, limit),
             at[Caller(r)] \in {"reserve", "recruit"},
             UNCHANGED <<position, chunk_begin, next_offset, visits, cancelled>>
      PROVE  OwnInv'
  <2>1. ~direct[r] /\ at[Caller(r)] \in Fresh
    BY <1>0, <1>4 DEF Submission, DirectAt, Fresh
  <2>2. CASE limit = 0
    <3>1. direct'[r] /\ \A q \in Regions \ {r} : direct'[q] <=> direct[q]
      BY <1>0, <1>4, <2>2 DEF Dispatch
    <3>2. /\ at' = [at EXCEPT ![Caller(r)] = "chunk"]
          /\ chunk_end' = [chunk_end EXCEPT ![Caller(r)] = Total[r]]
      BY <1>4, <2>2 DEF Dispatch
    <3> QED
      BY <1>4, <2>1, <3>1, <3>2, OwnDirect
  <2>3. CASE limit # 0
    <3>1. \A q \in Regions : direct'[q] <=> direct[q]
      BY <1>0, <1>4, <2>1, <2>3 DEF Dispatch
    <3>2. at' = [at EXCEPT ![Caller(r)] = "publish"]
      BY <1>4, <2>3 DEF Dispatch
    <3>3. chunk_end \in [Consumers -> Nat]
      BY DEF TypeInv, Types, TypeOK
    <3>4. \A c \in Consumers \ {Caller(r)} : chunk_end'[c] = chunk_end[c]
      BY <1>4, <3>3 DEF Dispatch
    <3>5. /\ at'[Caller(r)] = "publish"
          /\ \A c \in Consumers \ {Caller(r)} : at'[c] = at[c]
      BY <1>0, <1>c, <3>2
    <3>6. /\ \A d \in Consumers : at'[d] \in Working =>
                /\ at[d] \in Working /\ chunk_end'[d] = chunk_end[d]
                /\ at'[d] \in InCallback <=> at[d] \in InCallback
          /\ \A d \in Consumers : at[d] \in Working => at'[d] \in Working
      BY <1>4, <3>4, <3>5 DEF Working
    <3>7. \A q \in Regions :
             /\ at'[Caller(q)] \in Fresh => at[Caller(q)] \in Fresh
             /\ at'[Caller(q)] \in Winding => at[Caller(q)] \in Winding
             /\ at'[Caller(q)] = "leave" => at[Caller(q)] = "leave"
      BY <1>c, <2>1, <3>5 DEF Fresh, Winding
    <3> QED
      BY <1>4, <3>1, <3>6, <3>7, OwnFrame
  <2> QED
    BY <2>2, <2>3
<1>5. ASSUME NEW r \in Regions, ReserveNothing(r) \/ RecruitEnds(r) PROVE OwnInv'
  BY <1>4, <1>5 DEF ReserveNothing, RecruitEnds
<1>6. ASSUME NEW r \in Regions,
             \/ CallerOwned(r) \/ CallerLeased(r) \/ CallerRefused(r)
             \/ RegisterHelper(r) \/ PublishEnds(r) \/ KeepIdleHelpers(r)
      PROVE  OwnInv'
  <2>1. /\ UNCHANGED <<chunkVars, next_offset, cancelled, direct, visits>>
        /\ at[Caller(r)] \in {"reserve", "publish", "retire"}
    BY <1>6 DEF CallerOwned, CallerLeased, CallerRefused, RegisterHelper,
                PublishEnds, KeepIdleHelpers
  <2>2. \/ \E p \in {"submit", "acquire"} : at' = [at EXCEPT ![Caller(r)] = p]
        \/ at[Caller(r)] = "reserve" /\ at' = [at EXCEPT ![Caller(r)] = "recruit"]
        \/ at[Caller(r)] = "retire" /\ at' = [at EXCEPT ![Caller(r)] = "wait"]
    BY <1>6 DEF CallerOwned, CallerLeased, CallerRefused, RegisterHelper,
                PublishEnds, KeepIdleHelpers
  <2>3. at[Caller(r)] \notin Working
    BY <2>1 DEF Working
  <2>4. CASE \E p \in {"submit", "acquire"} : at' = [at EXCEPT ![Caller(r)] = p]
    <3>1. PICK p \in {"submit", "acquire"} : at' = [at EXCEPT ![Caller(r)] = p]
      BY <2>4
    <3>2. p \notin Working \cup Fresh \cup Winding /\ p # "leave"
      BY DEF Working, Fresh, Winding
    <3> QED
      BY <1>c, <2>1, <2>3, <3>1, <3>2, OwnGoto
  <2>5. CASE at[Caller(r)] = "reserve" /\ at' = [at EXCEPT ![Caller(r)] = "recruit"]
    <3>1. "recruit" \notin Working \cup Winding /\ "reserve" \in Fresh
      BY DEF Working, Fresh, Winding
    <3> QED
      BY <1>c, <2>1, <2>3, <2>5, <3>1, OwnGoto
  <2>6. CASE at[Caller(r)] = "retire" /\ at' = [at EXCEPT ![Caller(r)] = "wait"]
    <3>1. "wait" \notin Working \cup Fresh /\ "retire" \in Winding
      BY DEF Working, Fresh, Winding
    <3> QED
      BY <1>c, <2>1, <2>3, <2>6, <3>1, OwnGoto
  <2> QED
    BY <2>2, <2>4, <2>5, <2>6
<1>7. ASSUME NEW r \in Regions, SubmitFails(r) PROVE OwnInv'
  <2>1. /\ UNCHANGED <<chunkVars, next_offset, direct, visits>>
        /\ at[Caller(r)] = "submit" /\ at' = [at EXCEPT ![Caller(r)] = "acquire"]
        /\ cancelled' = [cancelled EXCEPT ![r] = TRUE]
    BY <1>7 DEF SubmitFails
  <2>2. \A q \in Regions : cancelled[q] => cancelled'[q]
    BY <1>0, <2>1
  <2>3. at[Caller(r)] \notin Working /\ "acquire" \notin Working \cup Fresh \cup Winding
    BY <2>1 DEF Working, Fresh, Winding
  <2> QED
    BY <1>c, <2>1, <2>2, <2>3, OwnGoto
<1>8. ASSUME NEW c \in Consumers, NoChunk(c) PROVE OwnInv'
  <2>1. /\ UNCHANGED <<chunkVars, next_offset, cancelled, direct, visits>>
        /\ at[c] = "acquire" /\ at' = [at EXCEPT ![c] = AfterChunks(c)]
        /\ cancelled[c[1]] \/ next_offset[c[1]] >= Total[c[1]]
    BY <1>8 DEF NoChunk
  <2>2. c[1] \in Regions /\ next_offset[c[1]] \in Nat /\ Total[c[1]] \in Nat
    BY ConsumerParts, ProgramAssumption DEF TypeInv, Types, TypeOK
  <2>3. cancelled'[c[1]] \/ next_offset[c[1]] = Total[c[1]]
    BY <2>1, <2>2 DEF OwnInv, ChunksWithin
  <2>4. /\ at[c] \notin Working /\ AfterChunks(c) \notin Working \cup Fresh
        /\ AfterChunks(c) # "leave"
    BY <2>1 DEF AfterChunks, Working, Fresh
  <2> QED
    BY <2>1, <2>3, <2>4, OwnGoto
<1>9. ASSUME NEW c \in Consumers, CallBackThrows(c) PROVE OwnInv'
  <2> DEFINE p == IF direct[c[1]] THEN "leave" ELSE AfterChunks(c)
  <2>1. /\ UNCHANGED <<chunkVars, next_offset, direct, visits>>
        /\ at' = [at EXCEPT ![c] = p]
        /\ cancelled' = [cancelled EXCEPT ![c[1]] = TRUE]
    BY <1>9 DEF CallBackThrows
  <2>2. cancelled'[c[1]] /\ \A q \in Regions : cancelled[q] => cancelled'[q]
    BY <1>0, <2>1, ConsumerParts
  <2>3. p \notin Working \cup Fresh
    BY DEF AfterChunks, Working, Fresh
  <2> HIDE DEF p
  <2> QED
    BY <2>1, <2>2, <2>3, OwnGoto
<1>10. ASSUME NEW c \in Consumers, mark_complete(c) PROVE OwnInv'
  <2>1. /\ UNCHANGED <<chunkVars, next_offset, cancelled, direct, visits>>
        /\ at' = [at EXCEPT ![c] = "acquire"]
        /\ position[c] = chunk_end[c] \/ cancelled[c[1]]
    BY <1>10 DEF mark_complete
  <2>2. "acquire" \notin Working \cup Fresh \cup Winding
    BY DEF Working, Fresh, Winding
  <2> QED
    BY <2>1, <2>2, OwnGoto
<1>11. ASSUME NEW r \in Regions, DirectEnds(r) PROVE OwnInv'
  <2>1. /\ UNCHANGED <<chunkVars, next_offset, cancelled, direct, visits>>
        /\ at[Caller(r)] = "chunk" /\ direct[r]
        /\ at' = [at EXCEPT ![Caller(r)] = "leave"]
        /\ position[Caller(r)] = chunk_end[Caller(r)]
    BY <1>11 DEF DirectEnds
  <2>2. at[Caller(r)] \in Working /\ "leave" \notin Working \cup Fresh \cup Winding
    BY <2>1 DEF Working, Fresh, Winding
  <2>3. chunk_begin[Caller(r)] = 0 /\ chunk_end[Caller(r)] = Total[r]
    BY <2>1, <2>2 DEF OwnInv, Stages
  <2>4. ASSUME NEW i \in Indices(r) PROVE visits[r][i] = 1
    <3>1. 0 <= i /\ i < Total[r]
      BY ProgramAssumption DEF Indices
    <3> QED
      BY <1>c, <2>1, <2>2, <2>3, <3>1 DEF OwnInv, CalledInOrder, Visited
  <2> QED
    BY <1>c, <2>1, <2>2, <2>4, OwnGoto
<1>12. ASSUME NEW j \in Jobs, DropLease(j) \/ FinishHelper(j) \/ FinishWorkerJob(j)
       PROVE  OwnInv'
  <2>1. /\ UNCHANGED <<chunkVars, next_offset, cancelled, direct, visits>>
        /\ at[j] \in {"drop", "finish", "retired"}
        /\ \E p \in {"finish", "retired", "done"} : at' = [at EXCEPT ![j] = p]
    BY <1>12 DEF DropLease, FinishHelper, FinishWorkerJob
  <2>2. PICK p \in {"finish", "retired", "done"} : at' = [at EXCEPT ![j] = p]
    BY <2>1
  <2>3. p \notin Working \cup Fresh \cup Winding /\ p # "leave" /\ at[j] \notin Working
    BY <2>1 DEF Working, Fresh, Winding
  <2> QED
    BY <1>j, <2>1, <2>2, <2>3, OwnGoto
<1>13. ASSUME NEW w \in Workers, NEW j \in Jobs, TakeJob(w, j) PROVE OwnInv'
  <2>1. /\ UNCHANGED <<chunkVars, next_offset, cancelled, direct, visits>>
        /\ j \in jobs /\ at' = [at EXCEPT ![j] = "acquire"]
    BY <1>13 DEF TakeJob
  <2>2. at[j] = "queued"
    BY <1>0, <2>1 DEF PlacesApart
  <2>3. at[j] \notin Working /\ "acquire" \notin Working \cup Fresh \cup Winding
    BY <2>2 DEF Working, Fresh, Winding
  <2> QED
    BY <1>j, <2>1, <2>3, OwnGoto
<1>14. ASSUME NEW r \in Regions, WaitEnds(r) PROVE OwnInv'
  <2>1. /\ UNCHANGED <<chunkVars, next_offset, cancelled, direct, visits>>
        /\ at[Caller(r)] = "wait" /\ remaining[r] = 0
        /\ at' = [at EXCEPT ![Caller(r)] = "leave"]
    BY <1>14 DEF WaitEnds
  <2>2. /\ at[Caller(r)] \notin Working /\ at[Caller(r)] \in Winding
        /\ "leave" \notin Working \cup Fresh \cup Winding
    BY <2>1 DEF Working, Fresh, Winding
  <2>3. Outstanding(r) = {}
    <3>1. Cardinality(Outstanding(r)) = 0
      BY <2>1, OutstandingFinite DEF RemainingExact
    <3> QED
      BY <3>1, OutstandingFinite, FS_EmptySet
  <2>4. \A c \in Consumers : c[1] = r => at[c] \notin Working
    <3> SUFFICES ASSUME NEW c \in Consumers, c[1] = r PROVE at[c] \notin Working
        OBVIOUS
    <3>1. CASE c \in Jobs
      <4>1. c \in JobsOf(r)
        BY <3>1, ConsumerParts
      <4> QED
        BY <2>3, <4>1 DEF Outstanding, OutstandingAt, Consuming, Working
    <3>2. CASE c \notin Jobs
      BY <2>2, <3>2, ConsumerParts
    <3> QED
      BY <3>1, <3>2
  <2>5. ~direct[r]
    BY <1>0, <2>1 DEF Submission, DirectAt
  <2>6. ASSUME ~cancelled[r], NEW i \in Indices(r) PROVE visits[r][i] = 1
    <3>1. next_offset[r] = Total[r]
      BY <2>2, <2>6 DEF OwnInv, Stages
    <3>2. i < next_offset[r]
      BY <3>1, ProgramAssumption DEF Indices
    <3> QED
      BY <2>4, <2>5, <2>6, <3>2 DEF OwnInv, NoneSkipped
  <2> QED
    BY <1>c, <2>1, <2>2, <2>6, OwnGoto
<1>15. ASSUME NEW r \in Regions, SubmitHelper(r) PROVE OwnInv'
  <2> DEFINE k == <<r, next_helper[r]>>
  <2>1. /\ UNCHANGED <<chunkVars, next_offset, cancelled, direct, visits>>
        /\ at[Caller(r)] = "submit"
        /\ at' = [at EXCEPT ![Caller(r)] = "publish", ![k] = "queued"]
    BY <1>15 DEF SubmitHelper
  <2>2. k \in JobsOf(r) /\ k \in Consumers /\ k[2] = next_helper[r]
    BY <2>1, SubmittedIsJob
  <2>3. at[k] = "idle"
    BY <1>0, <2>2 DEF Submission, TypeInv, Types, TypeOK
  <2> HIDE DEF k
  <2>4. \A c \in Consumers : at'[c] # at[c] => \/ c = k /\ at'[c] = "queued"
                                               \/ c = Caller(r) /\ at'[c] = "publish"
    BY <1>0, <1>c, <2>1, <2>2
  <2>5. \A c \in Consumers : at'[c] # at[c] =>
            at[c] \in {"idle", "submit"} /\ at'[c] \in {"queued", "publish"}
    BY <2>1, <2>3, <2>4
  <2> QED
    BY <2>1, <2>5, OwnPlaces DEF Working, Fresh, Winding
<1>16. ASSUME NEW j \in Jobs, FinishCallerJob(j) PROVE OwnInv'
  <2>1. /\ UNCHANGED <<chunkVars, next_offset, cancelled, direct, visits>>
        /\ at[j] = "retired" /\ at[Caller(j[1])] = "helping"
        /\ at' = [at EXCEPT ![j] = "done", ![Caller(j[1])] = "wait"]
    BY <1>16 DEF FinishCallerJob, RunByCaller
  <2>2. \A c \in Consumers : at'[c] # at[c] => \/ at[c] = "retired" /\ at'[c] = "done"
                                               \/ at[c] = "helping" /\ at'[c] = "wait"
    BY <1>0, <1>j, <2>1
  <2> QED
    BY <2>1, <2>2, OwnPlaces DEF Working, Fresh, Winding
<1>17. ASSUME NEW r \in Regions, CancelIdleHelpers(r) PROVE OwnInv'
  <2>1. /\ UNCHANGED <<chunkVars, next_offset, cancelled, direct, visits>>
        /\ at[Caller(r)] = "retire"
        /\ at' = [c \in Consumers |->
                    IF c \in QueuedOf(r) THEN "erased"
                    ELSE IF c = Caller(r)
                      THEN IF QueuedOf(r) = {} THEN "wait" ELSE "discount"
                    ELSE at[c]]
    BY <1>17 DEF CancelIdleHelpers
  <2>2. \A j \in QueuedOf(r) : at[j] = "queued"
    BY <1>0 DEF PlacesApart, QueuedOf, JobsOf
  <2>3. \A c \in Consumers : at'[c] # at[c] =>
            \/ at[c] = "queued" /\ at'[c] = "erased"
            \/ at[c] = "retire" /\ at'[c] \in {"wait", "discount"}
    BY <2>1, <2>2
  <2> QED
    BY <2>1, <2>3, OwnPlaces DEF Working, Fresh, Winding
<1>18. ASSUME NEW r \in Regions, DiscountErased(r) PROVE OwnInv'
  <2>1. /\ UNCHANGED <<chunkVars, next_offset, cancelled, direct, visits>>
        /\ at[Caller(r)] = "discount"
        /\ at' = [c \in Consumers |-> IF c \in Erased(r) THEN "done"
                                      ELSE IF c = Caller(r) THEN "wait" ELSE at[c]]
    BY <1>18 DEF DiscountErased
  <2>2. \A c \in Consumers : at'[c] # at[c] =>
            \/ at[c] = "erased" /\ at'[c] = "done"
            \/ at[c] = "discount" /\ at'[c] = "wait"
    BY <2>1 DEF Erased
  <2> QED
    BY <2>1, <2>2, OwnPlaces DEF Working, Fresh, Winding
<1>19. ASSUME NEW r \in Regions, NEW j \in Jobs, HelpOwnRegion(r, j) PROVE OwnInv'
  <2>1. /\ UNCHANGED <<chunkVars, next_offset, cancelled, direct, visits>>
        /\ at[Caller(r)] = "wait" /\ j \in jobs
        /\ at' = [at EXCEPT ![j] = "acquire", ![Caller(r)] = "helping"]
    BY <1>19 DEF HelpOwnRegion, QueuedOf
  <2>2. at[j] = "queued"
    BY <1>0, <2>1 DEF PlacesApart
  <2>3. \A c \in Consumers : at'[c] # at[c] =>
            \/ at[c] = "queued" /\ at'[c] = "acquire"
            \/ at[c] = "wait" /\ at'[c] = "helping"
    BY <1>0, <1>j, <2>1, <2>2
  <2> QED
    BY <2>1, <2>3, OwnPlaces DEF Working, Fresh, Winding
<1>20. ASSUME NEW r \in Regions, Leave(r) PROVE OwnInv'
  <2>1. /\ UNCHANGED <<chunkVars, next_offset, cancelled, direct, visits>>
        /\ at[Caller(r)] = "leave"
        /\ at' = [d \in Consumers |->
                    IF d = Caller(r) THEN "done"
                    ELSE IF at[d] = "calling" /\ r \in NestedAt(d) THEN "running"
                    ELSE at[d]]
    BY <1>20 DEF Leave
  <2>2. \A c \in Consumers : at'[c] # at[c] =>
            \/ at[c] = "leave" /\ at'[c] = "done"
            \/ at[c] = "calling" /\ at'[c] = "running"
    BY <2>1
  <2> QED
    BY <2>1, <2>2, OwnPlaces DEF Working, InCallback, Fresh, Winding
<1>21. ASSUME UNCHANGED <<at, chunkVars, next_offset, cancelled, direct, visits>>
       PROVE  OwnInv'
  BY <1>21, OwnPlaces
<1>22. ASSUME NEW r \in Regions, RecruitHelper(r) PROVE OwnInv'
  BY <1>21, <1>22 DEF RecruitHelper
<1>23. ASSUME NEW w \in Workers, Sleep(w) \/ Exit(w) PROVE OwnInv'
  BY <1>21, <1>23 DEF Sleep, Exit
<1>24. CASE StopPool \/ Terminated \/ UNCHANGED vars
  BY <1>21, <1>24 DEF StopPool, Terminated
<1> QED
  BY <1>2, <1>3, <1>5, <1>6, <1>7, <1>8, <1>9, <1>10, <1>11, <1>12, <1>13, <1>14,
     <1>15, <1>16, <1>17, <1>18, <1>19, <1>20, <1>22, <1>23, <1>24, OwnAcquire,
     OwnCall, OwnReturn
  DEF Next, CallerStep, ConsumerStep, HelperStep, WorkerStep

-----------------------------------------------------------------------------
(* The refinement.                                                         *)

\* The callbacks of a region that are running.
InFlight(r) == {position[c] : c \in {d \in Consumers :
                   d[1] = r /\ at[d] \in {"running", "calling"}}}

\* The whole inductive invariant.
PromiseInv == PoolInv /\ OwnInv

LEMMA PromiseInvParts ==
    ASSUME PromiseInv
    PROVE  /\ TypeInv /\ LifeInv /\ RemainingExact /\ OwnInv
           /\ PlacesApart /\ Submission /\ Departure
           /\ at \in [Consumers -> Places]
BY DEF PromiseInv, PoolInv, LifeInv, TypeInv, Types, TypeOK

\* What the program sees of a region that is being worked on.
LEMMA WorkingRegion ==
    ASSUME PromiseInv, NEW c \in Consumers, at[c] \in Working
    PROVE  /\ c[1] \in Regions /\ RegionPhase(c[1]) = "running"
           /\ at[Caller(c[1])] # "idle" /\ outcome[c[1]] = "none"
<1>1. CASE c \in Jobs
  <2>1. c \in JobsOf(c[1]) /\ c[1] \in Regions
    BY <1>1, ConsumerParts
  <2>2. at[Caller(c[1])] # "idle"
    BY <2>1, PromiseInvParts, NoneSubmitted DEF Submission, Working
  <2>3. at[c] \in OutstandingAt
    BY DEF Working, OutstandingAt, Consuming
  <2>4. outcome[c[1]] = "none"
    BY <2>1, <2>3, PromiseInvParts DEF Departure
  <2> QED
    BY <2>1, <2>2, <2>4 DEF RegionPhase
<1>2. CASE c \notin Jobs
  <2>1. c = Caller(c[1]) /\ c[1] \in Regions
    BY <1>2, ConsumerParts
  <2>2. outcome[c[1]] = "none"
    BY <2>1, PromiseInvParts DEF Departure, Working
  <2> QED
    BY <2>1, <2>2 DEF RegionPhase, Working
<1> QED
  BY <1>1, <1>2

\* Two running callbacks of a region are for different indices.
LEMMA InFlightOnce ==
    ASSUME PromiseInv, NEW c \in Consumers, NEW d \in Consumers, c # d, c[1] = d[1],
           at[c] \in InCallback, at[d] \in InCallback
    PROVE  position[c] # position[d]
<1>1. /\ position[c] \in Nat /\ position[d] \in Nat
      /\ chunk_begin[c] \in Nat /\ chunk_begin[d] \in Nat
      /\ chunk_end[c] \in Nat /\ chunk_end[d] \in Nat
  BY PromiseInvParts DEF TypeInv, Types, TypeOK
<1>2. at[c] \in Working /\ at[d] \in Working
  BY DEF Working, InCallback
<1>3. /\ chunk_begin[c] <= position[c] /\ position[c] < chunk_end[c]
      /\ chunk_begin[d] <= position[d] /\ position[d] < chunk_end[d]
  BY <1>2, PromiseInvParts DEF OwnInv, ChunksWithin
<1>4. chunk_end[c] <= chunk_begin[d] \/ chunk_end[d] <= chunk_begin[c]
  BY <1>2, PromiseInvParts DEF OwnInv, ChunksDisjoint
<1> QED
  BY <1>1, <1>3, <1>4

LEMMA PromiseInit == Init => Promise!Init
<1> SUFFICES ASSUME Init PROVE Promise!Init
    OBVIOUS
<1>1. \A c \in Consumers : at[c] = "idle"
  BY DEF Init
<1>2. \A r \in Regions : RegionPhase(r) = "idle"
  BY <1>1, CallerParts DEF RegionPhase, Init
<1>3. \A r \in Regions : InFlight(r) = {}
  BY <1>1 DEF InFlight
<1>4. visits = [r \in Regions |-> [i \in Promise!Indices(r) |-> 0]]
  BY DEF Init, Indices, Promise!Indices
<1>5. [r \in Regions |-> RegionPhase(r)] = [r \in Regions |-> "idle"]
  BY <1>2
<1>6. [r \in Regions |-> InFlight(r)] = [r \in Regions |-> {}]
  BY <1>3
<1> QED
  BY <1>4, <1>5, <1>6 DEF Promise!Init, InFlight

\* The program sees nothing of the step.
LEMMA PromiseFrame ==
    ASSUME UNCHANGED visits,
           \A q \in Regions : RegionPhase(q)' = RegionPhase(q),
           \A q \in Regions : InFlight(q)' = InFlight(q)
    PROVE  UNCHANGED Promise!vars
<1>1. [q \in Regions |-> RegionPhase(q)]' = [q \in Regions |-> RegionPhase(q)]
  OBVIOUS
<1>2. [q \in Regions |-> InFlight(q)]' = [q \in Regions |-> InFlight(q)]
  OBVIOUS
<1> QED
  BY <1>1, <1>2 DEF Promise!vars, InFlight

LEMMA FlightFrame ==
    ASSUME NEW q,
           \A c \in Consumers : c[1] = q => (at'[c] \in InCallback <=> at[c] \in InCallback),
           \A c \in Consumers : c[1] = q /\ at[c] \in InCallback => position'[c] = position[c]
    PROVE  InFlight(q)' = InFlight(q)
BY DEF InFlight, InCallback

\* Callbacks neither start nor end, and neither do regions.
LEMMA PromiseQuiet ==
    ASSUME UNCHANGED <<visits, outcome>>,
           \A c \in Consumers : at'[c] \in InCallback <=> at[c] \in InCallback,
           \A c \in Consumers : at[c] \in InCallback => position'[c] = position[c],
           \A q \in Regions : at'[Caller(q)] = "idle" <=> at[Caller(q)] = "idle"
    PROVE  UNCHANGED Promise!vars
<1>1. \A q \in Regions : InFlight(q)' = InFlight(q)
  BY FlightFrame
<1>2. \A q \in Regions : RegionPhase(q)' = RegionPhase(q)
  BY DEF RegionPhase
<1> QED
  BY <1>1, <1>2, PromiseFrame

\* ThreadPoolEngine::execute is entered.
LEMMA PromiseStart ==
    ASSUME PromiseInv, NEW r \in Regions, NEW t, NEW places \in [Consumers -> Places],
           \A c \in Consumers : places[c] # at[c]
               => places[c] = "calling" /\ at[c] = "running",
           EnterRegion(r, t, places)
    PROVE  Promise!Start(r)
<1>1. /\ at' = [places EXCEPT ![Caller(r)] =
                  IF Total[r] = 0 THEN "leave" ELSE "reserve"]
      /\ at[Caller(r)] = "idle" /\ outcome[r] = "none"
      /\ UNCHANGED <<position, outcome, visits>>
  BY DEF EnterRegion
<1>2. \A q \in Regions : Caller(q) \in Consumers
  BY CallerParts
<1>3. /\ at'[Caller(r)] \in {"leave", "reserve"}
      /\ \A c \in Consumers \ {Caller(r)} : at'[c] = places[c]
  BY <1>1, <1>2
<1>4. \A c \in Consumers : at'[c] \in InCallback <=> at[c] \in InCallback
  BY <1>1, <1>3 DEF InCallback
<1>5. \A q \in Regions : InFlight(q)' = InFlight(q)
  BY <1>1, <1>4, FlightFrame
<1>6. \A q \in Regions \ {r} : at'[Caller(q)] = "idle" <=> at[Caller(q)] = "idle"
  BY <1>2, <1>3, CallersDiffer
<1>7. /\ RegionPhase(r) = "idle" /\ RegionPhase(r)' = "running"
      /\ \A q \in Regions \ {r} : RegionPhase(q)' = RegionPhase(q)
  BY <1>1, <1>3, <1>6 DEF RegionPhase
<1>8. [q \in Regions |-> RegionPhase(q)]'
         = [[q \in Regions |-> RegionPhase(q)] EXCEPT ![r] = "running"]
  BY <1>7
<1>9. [q \in Regions |-> InFlight(q)]' = [q \in Regions |-> InFlight(q)]
  BY <1>5
<1> QED
  BY <1>1, <1>7, <1>8, <1>9 DEF Promise!Start, InFlight

\* The callback is called.
LEMMA PromiseBegin ==
    ASSUME PromiseInv, NEW c \in Consumers, CallBack(c),
           NEW r, r = c[1], NEW n, n = position[c]
    PROVE  r \in Regions /\ n \in Indices(r) /\ Promise!Begin(r, n)
<1>0. TypeInv /\ LifeInv /\ OwnInv /\ at \in [Consumers -> Places]
  BY PromiseInvParts
<1>1. n \in Indices(r) /\ visits[r][n] = 0 /\ visits' = [visits EXCEPT ![r][n] = 1]
  BY <1>0, OwnCall
<1>2. /\ at[c] = "chunk" /\ at' = [at EXCEPT ![c] = "running"]
      /\ UNCHANGED <<position, outcome>>
  BY DEF CallBack, Goto
<1>3. r \in Regions /\ RegionPhase(r) = "running"
  BY <1>2, WorkingRegion DEF Working
<1>4. at'[c] = "running" /\ \A d \in Consumers \ {c} : at'[d] = at[d]
  BY <1>0, <1>2
<1>5. InFlight(r)' = InFlight(r) \cup {n}
  BY <1>2, <1>4 DEF InFlight
<1>6. \A q \in Regions \ {r} : InFlight(q)' = InFlight(q)
  BY <1>2, <1>4, FlightFrame
<1>7. \A q \in Regions : RegionPhase(q)' = RegionPhase(q)
  BY <1>2, <1>4, CallerParts DEF RegionPhase
<1>8. [q \in Regions |-> InFlight(q)]'
         = [[q \in Regions |-> InFlight(q)] EXCEPT ![r] = InFlight(r) \cup {n}]
  BY <1>5, <1>6
<1>9. [q \in Regions |-> RegionPhase(q)]' = [q \in Regions |-> RegionPhase(q)]
  BY <1>7
<1>10. Promise!Begin(r, n)
  <2>1. [q \in Regions |-> InFlight(q)][r] = InFlight(r)
    BY <1>3
  <2>2. [q \in Regions |-> RegionPhase(q)][r] = "running"
    BY <1>3
  <2> QED
    BY <1>1, <1>8, <1>9, <2>1, <2>2 DEF Promise!Begin, InFlight
<1> QED
  BY <1>1, <1>3, <1>10

\* The callback returns or throws.
LEMMA PromiseEnd ==
    ASSUME PromiseInv, NEW c \in Consumers, CallBackReturns(c) \/ CallBackThrows(c),
           NEW r, r = c[1], NEW n, n = position[c]
    PROVE  r \in Regions /\ n \in Indices(r) /\ Promise!End(r, n)
<1>0. TypeInv /\ OwnInv /\ at \in [Consumers -> Places]
  BY PromiseInvParts
<1>1. /\ at[c] = "running" /\ UNCHANGED <<outcome, visits>>
      /\ \E p \in {"chunk", "leave", "retire", "drop"} : at' = [at EXCEPT ![c] = p]
  BY DEF CallBackReturns, CallBackThrows, AfterChunks, Goto
<1>2. at[c] \in Working /\ at[c] \in InCallback
  BY <1>1 DEF Working, InCallback
<1>3. r \in Regions /\ outcome[r] = "none" /\ at[Caller(r)] # "idle"
  BY <1>2, WorkingRegion
<1>4. n \in Indices(r)
  <2>1. /\ n \in Nat /\ chunk_end[c] \in Nat /\ chunk_end[c] <= Total[r]
        /\ Total[r] \in Nat
    BY <1>0, <1>3, ProgramAssumption DEF TypeInv, Types, TypeOK
  <2>2. n < chunk_end[c]
    BY <1>0, <1>2 DEF OwnInv, ChunksWithin
  <2> QED
    BY <2>1, <2>2 DEF Indices
<1>5. /\ at'[c] \notin InCallback /\ at'[c] # "idle"
      /\ \A d \in Consumers \ {c} : at'[d] = at[d]
  BY <1>0, <1>1 DEF InCallback
<1>6. position \in [Consumers -> Nat] /\ \A d \in Consumers \ {c} : position'[d] = position[d]
  BY <1>0 DEF CallBackReturns, CallBackThrows, TypeInv, Types, TypeOK
<1>7. \A d \in Consumers \ {c} : d[1] = r /\ at[d] \in InCallback => position[d] # n
  BY <1>2, InFlightOnce
<1>8. InFlight(r)' = InFlight(r) \ {n}
  BY <1>2, <1>5, <1>6, <1>7 DEF InFlight, InCallback
<1>9. n \in InFlight(r)
  BY <1>1 DEF InFlight
<1>10. \A q \in Regions \ {r} : InFlight(q)' = InFlight(q)
  BY <1>5, <1>6, FlightFrame
<1>11. \A q \in Regions : RegionPhase(q)' = RegionPhase(q)
  BY <1>1, <1>5, CallerParts DEF RegionPhase
<1>12. [q \in Regions |-> InFlight(q)]'
          = [[q \in Regions |-> InFlight(q)] EXCEPT ![r] = InFlight(r) \ {n}]
  BY <1>8, <1>10
<1>13. [q \in Regions |-> RegionPhase(q)]' = [q \in Regions |-> RegionPhase(q)]
  BY <1>11
<1>14. Promise!End(r, n)
  <2>1. [q \in Regions |-> InFlight(q)][r] = InFlight(r)
    BY <1>3
  <2> QED
    BY <1>1, <1>9, <1>12, <1>13, <2>1 DEF Promise!End, InFlight
<1> QED
  BY <1>3, <1>4, <1>14

\* execute returns or throws.
LEMMA PromiseLeave ==
    ASSUME PromiseInv, NEW r \in Regions, Leave(r)
    PROVE  Promise!Return(r) \/ Promise!Throw(r)
<1>0. /\ TypeInv /\ OwnInv /\ Departure /\ PlacesApart /\ at \in [Consumers -> Places]
      /\ outcome \in [Regions -> {"none", "returned", "threw"}]
  BY PromiseInvParts DEF TypeInv, Types, TypeOK
<1>1. /\ at[Caller(r)] = "leave"
      /\ at' = [d \in Consumers |->
                  IF d = Caller(r) THEN "done"
                  ELSE IF at[d] = "calling" /\ r \in NestedAt(d) THEN "running"
                  ELSE at[d]]
      /\ outcome' = [outcome EXCEPT ![r] = IF cancelled[r] THEN "threw" ELSE "returned"]
      /\ UNCHANGED <<position, visits>>
  BY DEF Leave
<1>2. \A q \in Regions : Caller(q) \in Consumers
  BY CallerParts
<1>3. outcome[r] = "none" /\ RegionPhase(r) = "running"
  BY <1>0, <1>1 DEF Departure, RegionPhase
<1>4. InFlight(r) = {}
  <2>1. \A c \in Consumers : c[1] = r => at[c] \notin InCallback
    <3> SUFFICES ASSUME NEW c \in Consumers, c[1] = r PROVE at[c] \notin InCallback
        OBVIOUS
    <3>1. CASE c \in Jobs
      <4>1. c \in JobsOf(r)
        BY <3>1, ConsumerParts
      <4> QED
        BY <1>0, <1>1, <4>1 DEF Departure, OutstandingAt, Consuming, InCallback
    <3>2. CASE c \notin Jobs
      BY <1>1, <3>2, ConsumerParts DEF InCallback
    <3> QED
      BY <3>1, <3>2
  <2> QED
    BY <2>1 DEF InFlight, InCallback
<1>5. \A c \in Consumers : at'[c] \in InCallback <=> at[c] \in InCallback
  BY <1>1 DEF InCallback
<1>6. \A q \in Regions : InFlight(q)' = InFlight(q)
  BY <1>1, <1>5, FlightFrame
<1>7. \A q \in Regions \ {r} : /\ outcome'[q] = outcome[q]
                               /\ at'[Caller(q)] = "idle" <=> at[Caller(q)] = "idle"
  BY <1>0, <1>1, <1>2, CallersDiffer
<1>8. \A q \in Regions \ {r} : RegionPhase(q)' = RegionPhase(q)
  BY <1>7 DEF RegionPhase
<1>9. RegionPhase(r)' = IF cancelled[r] THEN "threw" ELSE "returned"
  BY <1>0, <1>1 DEF RegionPhase
<1>10. [q \in Regions |-> InFlight(q)]' = [q \in Regions |-> InFlight(q)]
  BY <1>6
<1>11. /\ [q \in Regions |-> InFlight(q)][r] = {}
       /\ [q \in Regions |-> RegionPhase(q)][r] = "running"
  BY <1>3, <1>4
<1>12. CASE cancelled[r]
  <2>1. [q \in Regions |-> RegionPhase(q)]'
           = [[q \in Regions |-> RegionPhase(q)] EXCEPT ![r] = "threw"]
    BY <1>8, <1>9, <1>12
  <2> QED
    BY <1>1, <1>10, <1>11, <2>1 DEF Promise!Throw, InFlight
<1>13. CASE ~cancelled[r]
  <2>1. [q \in Regions |-> RegionPhase(q)]'
           = [[q \in Regions |-> RegionPhase(q)] EXCEPT ![r] = "returned"]
    BY <1>8, <1>9, <1>13
  <2>2. \A i \in Promise!Indices(r) : visits[r][i] = 1
    BY <1>0, <1>1, <1>13 DEF OwnInv, Stages, Indices, Promise!Indices
  <2> QED
    BY <1>1, <1>10, <1>11, <2>1, <2>2 DEF Promise!Return, InFlight
<1> QED
  BY <1>12, <1>13

\* One consumer moves, not from or into a callback.
LEMMA PromiseMove ==
    ASSUME PromiseInv, NEW c \in Consumers, NEW p, at' = [at EXCEPT ![c] = p],
           UNCHANGED <<visits, outcome>>,
           at[c] \notin InCallback \cup {"idle"}, p \notin InCallback \cup {"idle"},
           \A d \in Consumers \ {c} : position'[d] = position[d]
    PROVE  UNCHANGED Promise!vars
<1>1. at \in [Consumers -> Places]
  BY PromiseInvParts
<1>2. at'[c] = p /\ \A d \in Consumers \ {c} : at'[d] = at[d]
  BY <1>1
<1>3. /\ \A d \in Consumers : at'[d] \in InCallback <=> at[d] \in InCallback
      /\ \A d \in Consumers : at[d] \in InCallback => position'[d] = position[d]
      /\ \A q \in Regions : at'[Caller(q)] = "idle" <=> at[Caller(q)] = "idle"
  BY <1>2, CallerParts
<1> QED
  BY <1>3, PromiseQuiet

\* Several consumers do.
LEMMA PromiseMoves ==
    ASSUME PromiseInv, UNCHANGED <<visits, outcome, position>>,
           \A c \in Consumers : at'[c] # at[c] =>
              at[c] \notin InCallback /\ at'[c] \notin InCallback,
           \A q \in Regions : at'[Caller(q)] # at[Caller(q)] =>
              at[Caller(q)] # "idle" /\ at'[Caller(q)] # "idle"
    PROVE  UNCHANGED Promise!vars
<1>1. \A d \in Consumers : at'[d] \in InCallback <=> at[d] \in InCallback
  OBVIOUS
<1>2. \A q \in Regions : at'[Caller(q)] = "idle" <=> at[Caller(q)] = "idle"
  OBVIOUS
<1> QED
  BY <1>1, <1>2, PromiseQuiet

\* Every step of the pool is a step of the promise, or none.
LEMMA PromiseStep ==
    PromiseInv /\ [Next]_vars => [Promise!Next]_(Promise!vars)
<1> SUFFICES ASSUME PromiseInv, [Next]_vars
             PROVE  Promise!Next \/ UNCHANGED Promise!vars
    OBVIOUS
<1> USE DEF Goto
<1>0. /\ at \in [Consumers -> Places] /\ PlacesApart /\ Submission /\ TypeInv
      /\ position \in [Consumers -> Nat]
  BY PromiseInvParts DEF TypeInv, Types, TypeOK
<1>c. \A r \in Regions : Caller(r) \in Consumers /\ Caller(r) \notin Jobs
  BY CallerParts
<1>j. \A j \in Jobs : j \in Consumers
  BY JobsAreConsumers
<1>i. \A r \in Regions : Indices(r) = Promise!Indices(r)
  BY DEF Indices, Promise!Indices
<1>1. ASSUME NEW r \in Regions, ExecuteRoot(r) PROVE Promise!Next
  <2>1. Promise!Start(r)
    BY <1>0, <1>1, PromiseStart DEF ExecuteRoot
  <2> QED
    BY <2>1, Zenon DEF Promise!Next
<1>2. ASSUME NEW c \in Consumers, NEW r \in Regions, ExecuteNested(c, r)
      PROVE  Promise!Next
  <2> DEFINE places == [at EXCEPT ![c] = "calling"]
  <2>1. /\ places \in [Consumers -> Places]
        /\ \A d \in Consumers : places[d] # at[d]
              => places[d] = "calling" /\ at[d] = "running"
    BY <1>0, <1>2 DEF Places, Consuming, ExecuteNested
  <2>2. EnterRegion(r, thread[c], places)
    BY <1>2 DEF ExecuteNested
  <2> HIDE DEF places
  <2>3. Promise!Start(r)
    BY <2>1, <2>2, PromiseStart
  <2> QED
    BY <2>3, Zenon DEF Promise!Next
<1>3. ASSUME NEW c \in Consumers, CallBack(c) PROVE Promise!Next
  <2>1. PICK r, n : r = c[1] /\ n = position[c]
    OBVIOUS
  <2>2. r \in Regions /\ n \in Promise!Indices(r) /\ Promise!Begin(r, n)
    BY <1>3, <1>i, <2>1, PromiseBegin
  <2> QED
    BY <2>2, Zenon DEF Promise!Next
<1>4. ASSUME NEW c \in Consumers, CallBackReturns(c) \/ CallBackThrows(c)
      PROVE  Promise!Next
  <2>1. PICK r, n : r = c[1] /\ n = position[c]
    OBVIOUS
  <2>2. r \in Regions /\ n \in Promise!Indices(r) /\ Promise!End(r, n)
    BY <1>4, <1>i, <2>1, PromiseEnd
  <2> QED
    BY <2>2, Zenon DEF Promise!Next
<1>5. ASSUME NEW r \in Regions, Leave(r) PROVE Promise!Next
  <2>1. Promise!Return(r) \/ Promise!Throw(r)
    BY <1>5, PromiseLeave
  <2> QED
    BY <2>1, Zenon DEF Promise!Next
<1>6. ASSUME NEW r \in Regions,
             \/ ReserveNothing(r) \/ CallerOwned(r) \/ CallerLeased(r)
             \/ CallerRefused(r) \/ RecruitEnds(r) \/ RegisterHelper(r)
             \/ SubmitFails(r) \/ PublishEnds(r) \/ DirectEnds(r)
             \/ KeepIdleHelpers(r) \/ WaitEnds(r)
      PROVE  UNCHANGED Promise!vars
  <2>1. /\ UNCHANGED <<visits, outcome, position>>
        /\ at[Caller(r)] \in {"reserve", "recruit", "publish", "submit", "chunk",
                              "retire", "wait"}
    BY <1>6 DEF ReserveNothing, CallerOwned, CallerLeased, CallerRefused,
       RecruitEnds, RegisterHelper, SubmitFails, PublishEnds, DirectEnds,
       KeepIdleHelpers, WaitEnds
  <2>2. \E p \in {"chunk", "publish", "recruit", "submit", "acquire", "leave", "wait"} :
           at' = [at EXCEPT ![Caller(r)] = p]
    BY <1>6 DEF ReserveNothing, CallerOwned, CallerLeased, CallerRefused, Dispatch,
       RecruitEnds, RegisterHelper, SubmitFails, PublishEnds, DirectEnds,
       KeepIdleHelpers, WaitEnds
  <2> QED
    BY <1>c, <2>1, <2>2, PromiseMove DEF InCallback
<1>7. ASSUME NEW c \in Consumers, try_acquire(c) \/ NoChunk(c) \/ mark_complete(c)
      PROVE  UNCHANGED Promise!vars
  <2>1. UNCHANGED <<visits, outcome>> /\ at[c] \in {"acquire", "chunk"}
    BY <1>7 DEF try_acquire, NoChunk, mark_complete
  <2>2. \E p \in {"chunk", "retire", "drop", "acquire"} : at' = [at EXCEPT ![c] = p]
    BY <1>7 DEF try_acquire, NoChunk, mark_complete, AfterChunks
  <2>3. \A d \in Consumers \ {c} : position'[d] = position[d]
    BY <1>0, <1>7 DEF try_acquire, NoChunk, mark_complete
  <2> QED
    BY <2>1, <2>2, <2>3, PromiseMove DEF InCallback
<1>8. ASSUME NEW j \in Jobs, DropLease(j) \/ FinishHelper(j) \/ FinishWorkerJob(j)
      PROVE  UNCHANGED Promise!vars
  <2>1. /\ UNCHANGED <<visits, outcome, position>>
        /\ at[j] \in {"drop", "finish", "retired"}
        /\ \E p \in {"finish", "retired", "done"} : at' = [at EXCEPT ![j] = p]
    BY <1>8 DEF DropLease, FinishHelper, FinishWorkerJob
  <2> QED
    BY <1>j, <2>1, PromiseMove DEF InCallback
<1>9. ASSUME NEW w \in Workers, NEW j \in Jobs, TakeJob(w, j)
      PROVE  UNCHANGED Promise!vars
  <2>1. /\ UNCHANGED <<visits, outcome, position>>
        /\ j \in jobs /\ at' = [at EXCEPT ![j] = "acquire"]
    BY <1>9 DEF TakeJob
  <2>2. at[j] = "queued"
    BY <1>0, <2>1 DEF PlacesApart
  <2> QED
    BY <1>j, <2>1, <2>2, PromiseMove DEF InCallback
<1>10. ASSUME NEW r \in Regions, SubmitHelper(r) PROVE UNCHANGED Promise!vars
  <2> DEFINE k == <<r, next_helper[r]>>
  <2>1. /\ UNCHANGED <<visits, outcome, position>> /\ at[Caller(r)] = "submit"
        /\ at' = [at EXCEPT ![Caller(r)] = "publish", ![k] = "queued"]
    BY <1>10 DEF SubmitHelper
  <2>2. k \in JobsOf(r) /\ k \in Jobs /\ k \in Consumers /\ k[2] = next_helper[r]
    BY <1>0, <2>1, SubmittedIsJob
  <2>3. at[k] = "idle"
    BY <1>0, <2>2 DEF Submission, TypeInv, Types, TypeOK
  <2> HIDE DEF k
  <2>4. /\ at'[k] = "queued" /\ at'[Caller(r)] = "publish"
        /\ \A c \in Consumers \ {k, Caller(r)} : at'[c] = at[c]
    BY <1>0, <1>c, <2>1, <2>2
  <2>5. \A q \in Regions : Caller(q) # k
    BY <1>c, <2>2
  <2>6. \A c \in Consumers : at'[c] # at[c] =>
           at[c] \in {"idle", "submit"} /\ at'[c] \in {"queued", "publish"}
    BY <2>1, <2>3, <2>4
  <2>7. \A q \in Regions : at'[Caller(q)] # at[Caller(q)] =>
           at[Caller(q)] = "submit" /\ at'[Caller(q)] = "publish"
    BY <1>c, <2>1, <2>4, <2>5
  <2> QED
    BY <2>1, <2>6, <2>7, PromiseMoves DEF InCallback
<1>11. ASSUME NEW j \in Jobs, FinishCallerJob(j) PROVE UNCHANGED Promise!vars
  <2>1. /\ UNCHANGED <<visits, outcome, position>>
        /\ at[j] = "retired" /\ at[Caller(j[1])] = "helping"
        /\ at' = [at EXCEPT ![j] = "done", ![Caller(j[1])] = "wait"]
    BY <1>11 DEF FinishCallerJob, RunByCaller
  <2>2. \A c \in Consumers : at'[c] # at[c] => \/ at[c] = "retired" /\ at'[c] = "done"
                                               \/ at[c] = "helping" /\ at'[c] = "wait"
    BY <1>0, <1>j, <2>1
  <2> QED
    BY <1>c, <2>1, <2>2, PromiseMoves DEF InCallback
<1>12. ASSUME NEW r \in Regions, CancelIdleHelpers(r) PROVE UNCHANGED Promise!vars
  <2>1. /\ UNCHANGED <<visits, outcome, position>> /\ at[Caller(r)] = "retire"
        /\ at' = [c \in Consumers |->
                    IF c \in QueuedOf(r) THEN "erased"
                    ELSE IF c = Caller(r)
                      THEN IF QueuedOf(r) = {} THEN "wait" ELSE "discount"
                    ELSE at[c]]
    BY <1>12 DEF CancelIdleHelpers
  <2>2. \A j \in QueuedOf(r) : at[j] = "queued"
    BY <1>0 DEF PlacesApart, QueuedOf, JobsOf
  <2>3. \A c \in Consumers : at'[c] # at[c] =>
            \/ at[c] = "queued" /\ at'[c] = "erased"
            \/ at[c] = "retire" /\ at'[c] \in {"wait", "discount"}
    BY <2>1, <2>2
  <2> QED
    BY <1>c, <2>1, <2>3, PromiseMoves DEF InCallback
<1>13. ASSUME NEW r \in Regions, DiscountErased(r) PROVE UNCHANGED Promise!vars
  <2>1. /\ UNCHANGED <<visits, outcome, position>> /\ at[Caller(r)] = "discount"
        /\ at' = [c \in Consumers |-> IF c \in Erased(r) THEN "done"
                                      ELSE IF c = Caller(r) THEN "wait" ELSE at[c]]
    BY <1>13 DEF DiscountErased
  <2>2. \A c \in Consumers : at'[c] # at[c] =>
            \/ at[c] = "erased" /\ at'[c] = "done"
            \/ at[c] = "discount" /\ at'[c] = "wait"
    BY <2>1 DEF Erased
  <2> QED
    BY <1>c, <2>1, <2>2, PromiseMoves DEF InCallback
<1>14. ASSUME NEW r \in Regions, NEW j \in Jobs, HelpOwnRegion(r, j)
       PROVE  UNCHANGED Promise!vars
  <2>1. /\ UNCHANGED <<visits, outcome, position>>
        /\ at[Caller(r)] = "wait" /\ j \in jobs
        /\ at' = [at EXCEPT ![j] = "acquire", ![Caller(r)] = "helping"]
    BY <1>14 DEF HelpOwnRegion, QueuedOf
  <2>2. at[j] = "queued"
    BY <1>0, <2>1 DEF PlacesApart
  <2>3. \A c \in Consumers : at'[c] # at[c] =>
            \/ at[c] = "queued" /\ at'[c] = "acquire"
            \/ at[c] = "wait" /\ at'[c] = "helping"
    BY <1>0, <1>j, <2>1, <2>2
  <2> QED
    BY <1>c, <2>1, <2>3, PromiseMoves DEF InCallback
<1>15. ASSUME UNCHANGED <<at, visits, outcome, position>>
       PROVE  UNCHANGED Promise!vars
  BY <1>15, PromiseMoves
<1>16. ASSUME NEW r \in Regions, RecruitHelper(r) PROVE UNCHANGED Promise!vars
  BY <1>15, <1>16 DEF RecruitHelper
<1>17. ASSUME NEW w \in Workers, Sleep(w) \/ Exit(w) PROVE UNCHANGED Promise!vars
  BY <1>15, <1>17 DEF Sleep, Exit
<1>18. CASE StopPool \/ Terminated \/ UNCHANGED vars
  BY <1>15, <1>18 DEF StopPool, Terminated
<1> QED
  BY <1>1, <1>2, <1>3, <1>4, <1>5, <1>6, <1>7, <1>8, <1>9, <1>10, <1>11, <1>12,
     <1>13, <1>14, <1>16, <1>17, <1>18
  DEF Next, CallerStep, ConsumerStep, HelperStep, WorkerStep

\* The inductive invariant holds in every reachable state: the chunks that
\* SchedulerVisibleWork hands out never overlap, and no index is lost unless the
\* region is cancelled.
THEOREM OwnershipProved == Spec => []PromiseInv
<1>1. Init => PromiseInv
  BY OwnInit, TypeInit, LifeInit, RemainingInit, LeaseInit, CountInit
  DEF PromiseInv, PoolInv
<1>2. PromiseInv /\ [Next]_vars => PromiseInv'
  BY OwnStep, TypeStep, LifeStep, RemainingStep, LeaseStep, CountStep
  DEF PromiseInv, PoolInv
<1> QED
  BY <1>1, <1>2, PTL DEF Spec

\* Execution on the pool refines ParallelRegions: the callback is called at most
\* once per index, exactly once per index when execute returns, and never after
\* execute has returned or thrown, however chunks, nested regions, cancelled
\* helpers, exceptions, failed submissions and shutdown interleave.
THEOREM PromiseProved == Spec => KeepsPromise
<1>1. Spec => [][Promise!Next]_(Promise!vars)
  BY OwnershipProved, PromiseStep, PTL DEF Spec
<1> QED
  BY <1>1, PromiseInit, PTL DEF Spec, KeepsPromise, Promise!Spec
=============================================================================
