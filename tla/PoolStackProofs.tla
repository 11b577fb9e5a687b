--------------------------- MODULE PoolStackProofs ---------------------------
(***************************************************************************)
(* The threads of ThreadPool.  A thread may be inside several consumers at *)
(* once, because callbacks execute nested regions and waiting callers run  *)
(* their own helper jobs; these consumers form a stack.  From this follow  *)
(* the pool's counters and that the threads inside the callbacks of a      *)
(* session are covered by its leases.                                      *)
(***************************************************************************)
EXTENDS ThreadPoolProofs, WellFoundedInduction

\* The groups of unchanged variables.
USE DEF vars, poolVars, workVars, regionVars, chunkVars, sessionVars

-----------------------------------------------------------------------------
(* The stack discipline.                                                   *)

\* How deep a region is nested, and where a consumer can be in a stack: nested
\* regions above their parents, the jobs a caller runs above the caller.
Depth ==
    CHOOSE depth \in [Regions -> 0 .. Cardinality(Regions)] :
        \A r \in Regions : Parent[r] # NoRegion => depth[Parent[r]] < depth[r]
Level(c) == 2 * Depth[c[1]] + (IF c[2] = 0 THEN 0 ELSE 1)

\* Two consumers of one thread.
Beside(c, d) == thread[c] = thread[d] /\ thread[c] # NoThread

\* Consumers below another one, and consumers that no thread is inside of.
Suspended == {"calling", "helping"}
Off == {"idle", "queued", "erased", "done"}

\* A consumer has a thread while it runs.
Threaded == \A c \in Consumers : thread[c] = NoThread <=> at[c] \in Off

\* The consumers of a thread are at different levels, and only the uppermost of
\* them can take a step.
Stacked ==
    \A c, d \in Consumers : c # d /\ Beside(c, d) =>
        /\ Level(c) # Level(d)
        /\ Level(c) < Level(d) => at[c] \in Suspended

\* A nested region in progress is right above the callback that executes it,
CallsNested ==
    \A r \in Regions, c \in Consumers :
        at[c] \in InCallback /\ r \in NestedAt(c) /\ thread[Caller(r)] # NoThread =>
            /\ at[c] = "calling" /\ Beside(c, Caller(r))
            /\ \A d \in Consumers : Beside(c, d) =>
                 Level(d) <= Level(c) \/ Level(Caller(r)) <= Level(d)

\* ... there is such a callback,
Invoked ==
    \A r \in Regions : thread[Caller(r)] # NoThread /\ Parent[r] # NoRegion =>
        \E c \in Consumers :
            at[c] = "calling" /\ r \in NestedAt(c) /\ Beside(c, Caller(r))

\* ... and no nested region has started before its callback was called.
CalledFirst ==
    \A r \in Regions : Parent[r] # NoRegion /\ at[Caller(r)] # "idle" =>
        /\ CallIndex[r] \in Indices(Parent[r])
        /\ visits[Parent[r]][CallIndex[r]] # 0

\* A job on its caller's thread is run by its caller; every other job is the
\* lowest consumer of a worker.
HelpsOne ==
    \A j \in Jobs : Beside(j, Caller(j[1])) => at[Caller(j[1])] = "helping"
Lowest(j) ==
    thread[j] \in Workers /\ \A c \in Consumers : Beside(c, j) => Level(j) <= Level(c)
Bases ==
    \A j \in Jobs : thread[j] # NoThread => Beside(j, Caller(j[1])) \/ Lowest(j)

\* A worker inside a consumer is busy.
Busy == \A c \in Consumers : thread[c] \in Workers => worker[thread[c]] = "busy"

StackInv ==
    /\ Threaded /\ Stacked /\ CallsNested /\ Invoked /\ CalledFirst
    /\ HelpsOne /\ Bases /\ Busy

LEMMA DepthType ==
    /\ Depth \in [Regions -> Nat]
    /\ \A r \in Regions : Parent[r] # NoRegion => Depth[Parent[r]] < Depth[r]
<1>1. Cardinality(Regions) \in Nat
  BY RegionsAssumption, FS_CardinalityType
<1>2. /\ Depth \in [Regions -> 0 .. Cardinality(Regions)]
      /\ \A r \in Regions : Parent[r] # NoRegion => Depth[Parent[r]] < Depth[r]
  BY NestingAssumption, Zenon DEF Depth
<1> QED
  BY <1>1, <1>2

LEMMA LevelType ==
    /\ \A c \in Consumers : Level(c) \in Nat
    /\ \A j \in Jobs : Level(j) = Level(Caller(j[1])) + 1
<1>1. \A c \in Consumers : Depth[c[1]] \in Nat
  BY DepthType, ConsumerParts
<1>2. ASSUME NEW j \in Jobs PROVE Level(j) = Level(Caller(j[1])) + 1
  <2>1. j \in Consumers /\ j[2] # 0 /\ j[1] \in Regions
    BY JobsAreConsumers, ConsumerParts
  <2>2. Caller(j[1])[1] = j[1] /\ Caller(j[1])[2] = 0
    BY <2>1, CallerParts
  <2>3. Level(j) = 2 * Depth[j[1]] + 1 /\ Level(Caller(j[1])) = 2 * Depth[j[1]] + 0
    BY <2>1, <2>2 DEF Level
  <2> QED
    BY <1>1, <2>1, <2>3
<1> QED
  BY <1>1, <1>2 DEF Level

LEMMA NestedLevel ==
    ASSUME NEW c \in Consumers, NEW r \in Regions, r \in NestedAt(c)
    PROVE  Level(c) < Level(Caller(r)) /\ Parent[r] = c[1] /\ Parent[r] # NoRegion
<1>1. Parent[r] = c[1] /\ c[1] \in Regions
  BY ConsumerParts DEF NestedAt
<1>2. Depth[c[1]] < Depth[r] /\ Depth[c[1]] \in Nat /\ Depth[r] \in Nat
  BY <1>1, DepthType, RegionsAssumption
<1>3. Level(Caller(r)) = 2 * Depth[r] + 0
  BY CallerParts DEF Level
<1>4. Level(c) \in {2 * Depth[c[1]] + 0, 2 * Depth[c[1]] + 1}
  BY DEF Level
<1> QED
  BY <1>1, <1>2, <1>3, <1>4, RegionsAssumption

\* The consumer that can take a step is above all others of its thread.
LEMMA Uppermost ==
    ASSUME Stacked, NEW c \in Consumers, at[c] \notin Suspended
    PROVE  \A d \in Consumers : d # c /\ Beside(c, d) => Level(d) < Level(c)
BY LevelType DEF Stacked, Beside

LEMMA StackInit == Init => StackInv
<1> SUFFICES ASSUME Init PROVE StackInv
    OBVIOUS
<1>1. \A c \in Consumers : at[c] = "idle" /\ thread[c] = NoThread
  BY DEF Init
<1>2. \A r \in Regions : Caller(r) \in Consumers
  BY CallerParts
<1>3. \A c \in Consumers : thread[c] \notin Workers
  BY <1>1, ThreadsAssumption DEF Threads
<1>4. Jobs \subseteq Consumers
  BY JobsAreConsumers
<1> QED
  BY <1>1, <1>2, <1>3, <1>4
  DEF StackInv, Threaded, Off, Stacked, Beside, CallsNested, Invoked, CalledFirst,
      HelpsOne, Bases, Busy

\* A thread starts a consumer, above the one that it is suspended in.
LEMMA StackPush ==
    ASSUME Stacked, NEW c \in Consumers, NEW n \in Consumers, c # n,
           thread[n] = NoThread, thread[c] # NoThread,
           at[c] \notin Suspended, at'[c] \in Suspended, Level(c) < Level(n),
           \A d \in Consumers : thread'[d] = IF d = n THEN thread[c] ELSE thread[d],
           \A d \in Consumers \ {c, n} : at'[d] = at[d]
    PROVE  Stacked'
<1> SUFFICES ASSUME NEW d \in Consumers, NEW e \in Consumers, d # e, Beside(d, e)'
             PROVE  /\ Level(d) # Level(e)
                    /\ Level(d) < Level(e) => at'[d] \in Suspended
    BY DEF Stacked
<1>0. Level(c) \in Nat /\ Level(d) \in Nat /\ Level(e) \in Nat /\ Level(n) \in Nat
  BY LevelType
<1>1. CASE d # n /\ e # n
  BY <1>1 DEF Stacked, Beside
<1>2. CASE d = n
  <2>1. e = c \/ Level(e) < Level(c)
    BY <1>2, Uppermost DEF Beside
  <2> QED
    BY <1>0, <1>2, <2>1
<1>3. CASE e = n
  <2>1. d = c \/ (Beside(c, d) /\ Level(d) < Level(c))
    BY <1>3, Uppermost DEF Beside
  <2>2. at'[d] \in Suspended
    BY <1>3, <2>1 DEF Stacked, Beside
  <2> QED
    BY <1>0, <1>3, <2>1, <2>2
<1> QED
  BY <1>1, <1>2, <1>3

\* It leaves the uppermost one; what it continues with is the next below.
LEMMA StackPop ==
    ASSUME Stacked, NEW n \in Consumers, at[n] \notin Suspended,
           \A d \in Consumers : thread'[d] = IF d = n THEN NoThread ELSE thread[d],
           \A d \in Consumers \ {n} :
              \/ at'[d] = at[d]
              \/ \A e \in Consumers \ {n} : Beside(d, e) => Level(e) <= Level(d)
    PROVE  Stacked'
<1> SUFFICES ASSUME NEW d \in Consumers, NEW e \in Consumers, d # e, Beside(d, e)'
             PROVE  /\ Level(d) # Level(e)
                    /\ Level(d) < Level(e) => at'[d] \in Suspended
    BY DEF Stacked
<1>0. Level(d) \in Nat /\ Level(e) \in Nat
  BY LevelType
<1>1. d # n /\ e # n /\ Beside(d, e)
  BY DEF Beside
<1> QED
  BY <1>0, <1>1 DEF Stacked

\* A thread outside all consumers starts one.
LEMMA StackFirst ==
    ASSUME Stacked, NEW n \in Consumers, NEW t,
           \A c \in Consumers : thread[c] # t,
           \A d \in Consumers : thread'[d] = IF d = n THEN t ELSE thread[d],
           \A d \in Consumers \ {n} : at'[d] = at[d]
    PROVE  Stacked'
<1> SUFFICES ASSUME NEW d \in Consumers, NEW e \in Consumers, d # e, Beside(d, e)'
             PROVE  /\ Level(d) # Level(e)
                    /\ Level(d) < Level(e) => at'[d] \in Suspended
    BY DEF Stacked
<1>1. d # n /\ e # n /\ Beside(d, e)
  BY DEF Beside
<1> QED
  BY <1>1 DEF Stacked

\* Threads stay inside the consumers they are inside of, and callbacks do not
\* begin.
LEMMA StackFrame ==
    ASSUME StackInv, UNCHANGED thread,
           \A c \in Consumers : at'[c] \in Off <=> at[c] \in Off,
           \A c \in Consumers : at[c] \in Suspended => at'[c] = at[c],
           \A c \in Consumers : at'[c] \in InCallback \/ at[c] = "calling"
              => at'[c] = at[c] /\ position'[c] = position[c],
           \A r \in Regions : at[Caller(r)] = "idle" => at'[Caller(r)] = "idle",
           \A r \in Regions : \A i \in Indices(r) :
              visits[r][i] # 0 => visits'[r][i] # 0,
           \A w \in Workers : worker[w] = "busy" => worker'[w] = "busy"
    PROVE  StackInv'
<1>0. \A c, d \in Consumers : Beside(c, d)' <=> Beside(c, d)
  BY DEF Beside
<1>1. /\ \A r \in Regions : Caller(r) \in Consumers
      /\ \A j \in Jobs : j \in Consumers /\ j[1] \in Regions
  BY CallerParts, JobsAreConsumers, ConsumerParts
<1>2. Threaded'
  BY DEF StackInv, Threaded
<1>3. Stacked'
  BY <1>0 DEF StackInv, Stacked
<1>4. \A c \in Consumers : at'[c] \in InCallback \/ at[c] = "calling"
         => NestedAt(c)' = NestedAt(c)
  BY DEF NestedAt
<1>5. CallsNested'
  BY <1>0, <1>1, <1>4 DEF StackInv, CallsNested
<1>6. Invoked'
  <2> SUFFICES ASSUME NEW r \in Regions, thread[Caller(r)] # NoThread,
                      Parent[r] # NoRegion
               PROVE  (\E c \in Consumers : /\ at[c] = "calling" /\ r \in NestedAt(c)
                                            /\ Beside(c, Caller(r)))'
      BY DEF Invoked
  <2>1. PICK c \in Consumers : /\ at[c] = "calling" /\ r \in NestedAt(c)
                               /\ Beside(c, Caller(r))
    BY DEF StackInv, Invoked
  <2> QED
    BY <1>0, <1>1, <1>4, <2>1
<1>7. CalledFirst'
  <2>1. Parent \in [Regions -> Regions \cup {NoRegion}]
    BY ProgramAssumption
  <2> QED
    BY <2>1 DEF StackInv, CalledFirst
<1>8. HelpsOne'
  BY <1>0, <1>1 DEF StackInv, HelpsOne, Suspended
<1>9. Bases'
  <2>1. \A j \in Jobs : Lowest(j) => Lowest(j)'
    BY <1>0, <1>1 DEF Lowest
  <2> QED
    BY <1>0, <1>1, <2>1 DEF StackInv, Bases
<1>10. Busy'
  BY DEF StackInv, Busy
<1> QED
  BY <1>2, <1>3, <1>5, <1>6, <1>7, <1>8, <1>9, <1>10 DEF StackInv

\* A region is entered: the callback that consumer c runs executes it.
LEMMA StackNested ==
    ASSUME PromiseInv, StackInv, NEW c \in Consumers, NEW r \in Regions,
           ExecuteNested(c, r)
    PROVE  StackInv'
<1>0. /\ TypeInv /\ OwnInv /\ Submission /\ at \in [Consumers -> Places]
      /\ thread \in [Consumers -> Threads \cup {NoThread}]
  BY PromiseInvParts DEF TypeInv, Types, TypeOK
<1>p. PICK n : n = Caller(r)
  OBVIOUS
<1>1. /\ at[c] = "running" /\ r \in NestedAt(c) /\ at[n] = "idle"
      /\ at' = [[at EXCEPT ![c] = "calling"] EXCEPT
                   ![n] = IF Total[r] = 0 THEN "leave" ELSE "reserve"]
      /\ thread' = [thread EXCEPT ![n] = thread[c]]
      /\ UNCHANGED <<worker, position, visits>>
  <2>1. /\ at[c] = "running" /\ r \in NestedAt(c) /\ at[Caller(r)] = "idle"
        /\ at' = [[at EXCEPT ![c] = "calling"] EXCEPT
                     ![Caller(r)] = IF Total[r] = 0 THEN "leave" ELSE "reserve"]
        /\ thread' = [thread EXCEPT ![Caller(r)] = thread[c]]
        /\ UNCHANGED <<worker, position, visits>>
    BY Zenon DEF ExecuteNested, EnterRegion
  <2> QED
    BY <1>p, <2>1
<1>2. /\ n \in Consumers /\ n # c /\ n \notin Jobs /\ n[1] = r
      /\ \A q \in Regions : /\ Caller(q) \in Consumers /\ Caller(q) \notin Jobs
                            /\ Caller(q) = n <=> q = r
      /\ \A j \in Jobs : j \in Consumers /\ j[1] \in Regions
  BY <1>1, <1>p, CallerParts, CallersDiffer, JobsAreConsumers, ConsumerParts
<1>3. /\ at'[c] = "calling" /\ at'[n] \in {"leave", "reserve"}
      /\ \A d \in Consumers \ {c, n} : at'[d] = at[d]
      /\ \A d \in Consumers : thread'[d] = IF d = n THEN thread[c] ELSE thread[d]
  BY <1>0, <1>1, <1>2
<1>4. thread[n] = NoThread /\ thread[c] # NoThread
  BY <1>1, <1>2 DEF StackInv, Threaded, Off
<1>5. Level(c) < Level(n) /\ Parent[r] = c[1] /\ CallIndex[r] = position[c]
  BY <1>1, <1>p, NestedLevel DEF NestedAt
<1>6. at[c] \notin Suspended /\ at'[c] \in Suspended
  BY <1>1, <1>3 DEF Suspended
<1>7. \A d \in Consumers : Level(d) \in Nat
  BY LevelType
<1>8. \A d \in Consumers : d # c /\ Beside(c, d) => Level(d) < Level(c)
  BY <1>6, Uppermost DEF StackInv
<1>9. \A d, e \in Consumers : d # n /\ e # n => (Beside(d, e)' <=> Beside(d, e))
  BY <1>3 DEF Beside
<1>10. \A d \in Consumers : d # n => (Beside(d, n)' <=> d = c \/ Beside(c, d))
  BY <1>2, <1>3, <1>4 DEF Beside
<1>11. Beside(n, n)'
  BY <1>3, <1>4, <1>2 DEF Beside
<1>12. Threaded'
  BY <1>1, <1>3, <1>4 DEF StackInv, Threaded, Off
<1>13. Stacked'
  BY <1>2, <1>3, <1>4, <1>5, <1>6, StackPush DEF StackInv
<1>14. \A d \in Consumers : NestedAt(d)' = NestedAt(d)
  BY <1>1 DEF NestedAt
<1>15. CallsNested'
  <2> SUFFICES ASSUME NEW q \in Regions, NEW d \in Consumers, at'[d] \in InCallback,
                      q \in NestedAt(d), thread'[Caller(q)] # NoThread
               PROVE  /\ at'[d] = "calling" /\ Beside(d, Caller(q))'
                      /\ \A e \in Consumers : Beside(d, e)' =>
                           Level(e) <= Level(d) \/ Level(Caller(q)) <= Level(e)
      BY <1>14 DEF CallsNested
  <2>1. d # n /\ at[d] \in InCallback
    BY <1>1, <1>3 DEF InCallback
  <2>2. CASE q = r
    <3>1. d[1] = c[1] /\ position[d] = position[c]
      BY <1>5, <2>2, NestedLevel DEF NestedAt
    <3>2. d = c
      BY <1>1, <2>1, <3>1, InFlightOnce DEF InCallback
    <3>3. \A e \in Consumers : Beside(c, e)' => e = n \/ e = c \/ Beside(c, e)
      BY <1>2, <1>9
    <3> QED
      BY <1>2, <1>3, <1>7, <1>8, <1>10, <1>p, <2>2, <3>2, <3>3
  <2>3. CASE q # r
    <3>1. Caller(q) # n /\ thread[Caller(q)] # NoThread /\ Caller(q) \in Consumers
      BY <1>2, <1>3, <2>3
    <3>2. /\ at[d] = "calling" /\ Beside(d, Caller(q))
          /\ \A e \in Consumers : Beside(d, e) =>
               Level(e) <= Level(d) \/ Level(Caller(q)) <= Level(e)
      BY <2>1, <3>1 DEF StackInv, CallsNested
    <3>3. at'[d] = "calling"
      BY <1>1, <1>3, <2>1, <3>2
    <3>4. ASSUME NEW e \in Consumers, Beside(d, e)'
          PROVE  Level(e) <= Level(d) \/ Level(Caller(q)) <= Level(e)
      <4>1. CASE e = n
        <5>1. d = c \/ Beside(c, d)
          BY <1>10, <2>1, <3>4, <4>1
        <5>2. Caller(q) = c \/ Beside(c, Caller(q))
          BY <3>2, <5>1 DEF Beside
        <5> QED
          BY <1>2, <1>5, <1>7, <1>8, <3>1, <4>1, <5>2
      <4>2. CASE e # n
        BY <1>9, <2>1, <3>2, <3>4, <4>2
      <4> QED
        BY <4>1, <4>2
    <3> QED
      BY <1>9, <2>1, <3>1, <3>2, <3>3, <3>4
  <2> QED
    BY <2>2, <2>3
<1>16. Invoked'
  <2> SUFFICES ASSUME NEW q \in Regions, thread'[Caller(q)] # NoThread,
                      Parent[q] # NoRegion
               PROVE  \E d \in Consumers : /\ at'[d] = "calling" /\ q \in NestedAt(d)
                                           /\ Beside(d, Caller(q))'
      BY <1>14 DEF Invoked
  <2>1. CASE q = r
    BY <1>1, <1>2, <1>3, <1>10, <1>p, <2>1
  <2>2. CASE q # r
    <3>1. Caller(q) # n /\ thread[Caller(q)] # NoThread /\ Caller(q) \in Consumers
      BY <1>2, <1>3, <2>2
    <3>2. PICK d \in Consumers : /\ at[d] = "calling" /\ q \in NestedAt(d)
                                 /\ Beside(d, Caller(q))
      BY <3>1 DEF StackInv, Invoked
    <3>3. d # n /\ at'[d] = "calling"
      BY <1>1, <1>3, <3>2
    <3> QED
      BY <1>9, <3>1, <3>2, <3>3
  <2> QED
    BY <2>1, <2>2
<1>17. CalledFirst'
  <2>1. /\ position[c] \in Nat /\ chunk_end[c] \in Nat /\ chunk_begin[c] \in Nat
        /\ chunk_end[c] <= Total[c[1]] /\ Total[c[1]] \in Nat
    BY <1>0, ProgramAssumption, ConsumerParts DEF TypeInv, Types, TypeOK
  <2>2. at[c] \in Working /\ at[c] \in InCallback
    BY <1>1 DEF Working, InCallback
  <2>3. chunk_begin[c] <= position[c] /\ position[c] < chunk_end[c]
    BY <1>0, <2>2 DEF OwnInv, ChunksWithin
  <2>4. position[c] \in Indices(c[1])
    BY <2>1, <2>3 DEF Indices
  <2>5. visits[c[1]][position[c]] = 1
    BY <1>0, <2>2, <2>3, <2>4 DEF OwnInv, CalledInOrder, Visited
  <2>6. \A q \in Regions \ {r} : at'[Caller(q)] # "idle" => at[Caller(q)] # "idle"
    BY <1>1, <1>2, <1>3
  <2> QED
    BY <1>1, <1>5, <2>4, <2>5, <2>6 DEF StackInv, CalledFirst
<1>18. \A j \in Jobs : j[1] = r => thread[j] = NoThread
  <2>1. next_helper[r] = 1
    BY <1>0, <1>1, <1>p DEF Submission
  <2>2. \A j \in JobsOf(r) : at[j] = "idle"
    BY <1>0, <2>1, NoneSubmitted
  <2> QED
    BY <1>2, <2>2 DEF StackInv, Threaded, Off, JobsOf
<1>19. ASSUME NEW j \in Jobs, thread'[j] # NoThread
       PROVE  /\ thread[j] # NoThread /\ Caller(j[1]) # n
              /\ Beside(j, Caller(j[1]))' <=> Beside(j, Caller(j[1]))
  <2>1. j # n /\ thread[j] # NoThread
    BY <1>2, <1>3, <1>19
  <2> QED
    BY <1>2, <1>9, <1>18, <2>1
<1>20. HelpsOne'
  <2> SUFFICES ASSUME NEW j \in Jobs, Beside(j, Caller(j[1]))'
               PROVE  at'[Caller(j[1])] = "helping"
      BY DEF HelpsOne
  <2>1. Beside(j, Caller(j[1])) /\ Caller(j[1]) # n
    BY <1>19 DEF Beside
  <2>2. at[Caller(j[1])] = "helping"
    BY <2>1 DEF StackInv, HelpsOne
  <2> QED
    BY <1>1, <1>2, <1>3, <2>1, <2>2
<1>21. Bases'
  <2> SUFFICES ASSUME NEW j \in Jobs, thread'[j] # NoThread,
                      ~Beside(j, Caller(j[1]))'
               PROVE  Lowest(j)'
      BY DEF Bases
  <2>1. Lowest(j) /\ j # n /\ thread[j] # NoThread /\ thread'[j] = thread[j]
    BY <1>2, <1>3, <1>19 DEF StackInv, Bases
  <2>2. ASSUME NEW e \in Consumers, Beside(e, j)' PROVE Level(j) <= Level(e)
    <3>1. CASE e = n
      <4>1. j = c \/ Beside(c, j)
        BY <1>2, <1>10, <2>1, <2>2, <3>1 DEF Beside
      <4>2. Level(j) <= Level(c)
        BY <1>2, <1>7, <2>1, <4>1 DEF Lowest
      <4> QED
        BY <1>2, <1>5, <1>7, <3>1, <4>2
    <3>2. CASE e # n
      BY <1>2, <1>9, <2>1, <2>2, <3>2 DEF Lowest
    <3> QED
      BY <3>1, <3>2
  <2> QED
    BY <2>1, <2>2 DEF Lowest
<1>22. Busy'
  BY <1>1, <1>3 DEF StackInv, Busy
<1> QED
  BY <1>12, <1>13, <1>15, <1>16, <1>17, <1>20, <1>21, <1>22 DEF StackInv

\* A thread outside the pool executes a region.
LEMMA StackRoot ==
    ASSUME PromiseInv, StackInv, NEW r \in Regions, ExecuteRoot(r)
    PROVE  StackInv'
<1>0. /\ Submission /\ at \in [Consumers -> Places]
      /\ thread \in [Consumers -> Threads \cup {NoThread}]
      /\ Owner[r] \in Roots /\ Owner[r] # NoThread /\ Owner[r] \notin Workers
  BY PromiseInvParts, ProgramAssumption, ThreadsAssumption
  DEF TypeInv, Types, TypeOK, Threads
<1>p. PICK n : n = Caller(r)
  OBVIOUS
<1>1. /\ Parent[r] = NoRegion /\ at[n] = "idle"
      /\ at' = [at EXCEPT ![n] = IF Total[r] = 0 THEN "leave" ELSE "reserve"]
      /\ thread' = [thread EXCEPT ![n] = Owner[r]]
      /\ \A d \in Consumers : thread[d] # Owner[r]
      /\ UNCHANGED <<worker, position, visits>>
  BY <1>p DEF ExecuteRoot, EnterRegion
<1>2. /\ n \in Consumers /\ n \notin Jobs
      /\ \A q \in Regions : /\ Caller(q) \in Consumers
                            /\ Caller(q) = n <=> q = r
      /\ \A j \in Jobs : j \in Consumers /\ j[1] \in Regions
  BY <1>p, CallerParts, CallersDiffer, JobsAreConsumers, ConsumerParts
<1>3. /\ at'[n] \in {"leave", "reserve"}
      /\ \A d \in Consumers \ {n} : at'[d] = at[d]
      /\ \A d \in Consumers : thread'[d] = IF d = n THEN Owner[r] ELSE thread[d]
  BY <1>0, <1>1, <1>2
<1>4. /\ \A d, e \in Consumers : d # n /\ e # n => (Beside(d, e)' <=> Beside(d, e))
      /\ \A d \in Consumers \ {n} : ~Beside(d, n)' /\ ~Beside(n, d)'
  BY <1>0, <1>1, <1>2, <1>3 DEF Beside
<1>5. \A d \in Consumers : NestedAt(d)' = NestedAt(d) /\ r \notin NestedAt(d)
  BY <1>1, NestedLevel DEF NestedAt
<1>6. Threaded'
  BY <1>0, <1>3 DEF StackInv, Threaded, Off
<1>7. Stacked'
  BY <1>1, <1>2, <1>3, StackFirst DEF StackInv
<1>8. CallsNested'
  <2> SUFFICES ASSUME NEW q \in Regions, NEW d \in Consumers, at'[d] \in InCallback,
                      q \in NestedAt(d), thread'[Caller(q)] # NoThread
               PROVE  /\ at'[d] = "calling" /\ Beside(d, Caller(q))'
                      /\ \A e \in Consumers : Beside(d, e)' =>
                           Level(e) <= Level(d) \/ Level(Caller(q)) <= Level(e)
      BY <1>5 DEF CallsNested
  <2>1. d # n /\ q # r /\ Caller(q) # n
    BY <1>2, <1>3, <1>5 DEF InCallback
  <2>2. /\ at[d] = "calling" /\ Beside(d, Caller(q))
        /\ \A e \in Consumers : Beside(d, e) =>
             Level(e) <= Level(d) \/ Level(Caller(q)) <= Level(e)
    BY <1>2, <1>3, <2>1 DEF StackInv, CallsNested
  <2> QED
    BY <1>2, <1>3, <1>4, <2>1, <2>2
<1>9. Invoked'
  <2> SUFFICES ASSUME NEW q \in Regions, thread'[Caller(q)] # NoThread,
                      Parent[q] # NoRegion
               PROVE  \E d \in Consumers : /\ at'[d] = "calling" /\ q \in NestedAt(d)
                                           /\ Beside(d, Caller(q))'
      BY <1>5 DEF Invoked
  <2>1. Caller(q) # n /\ thread[Caller(q)] # NoThread
    BY <1>1, <1>2, <1>3
  <2>2. PICK d \in Consumers : /\ at[d] = "calling" /\ q \in NestedAt(d)
                               /\ Beside(d, Caller(q))
    BY <2>1 DEF StackInv, Invoked
  <2>3. d # n
    BY <1>1, <2>2
  <2> QED
    BY <1>2, <1>3, <1>4, <2>1, <2>2, <2>3
<1>10. CalledFirst'
  BY <1>1, <1>2, <1>3 DEF StackInv, CalledFirst
<1>11. \A j \in Jobs : /\ j # n /\ thread'[j] = thread[j]
                       /\ Beside(j, Caller(j[1]))' => Caller(j[1]) # n
  BY <1>2, <1>3, <1>4
<1>12. HelpsOne'
  BY <1>2, <1>3, <1>4, <1>11 DEF StackInv, HelpsOne
<1>13. Bases'
  <2>1. \A j \in Jobs : Lowest(j) => Lowest(j)'
    BY <1>2, <1>4, <1>11 DEF Lowest
  <2>2. \A j \in Jobs : Beside(j, Caller(j[1])) => Beside(j, Caller(j[1]))'
    <3>1. thread[n] = NoThread
      BY <1>1, <1>2 DEF StackInv, Threaded, Off
    <3> QED
      BY <1>2, <1>3, <3>1 DEF Beside
  <2> QED
    BY <1>11, <2>1, <2>2 DEF StackInv, Bases
<1>14. Busy'
  BY <1>0, <1>1, <1>3 DEF StackInv, Busy
<1> QED
  BY <1>6, <1>7, <1>8, <1>9, <1>10, <1>12, <1>13, <1>14 DEF StackInv

\* The callback for an index begins: nothing was executed inside it before.
LEMMA StackCall ==
    ASSUME PromiseInv, StackInv, NEW c \in Consumers, CallBack(c)
    PROVE  StackInv'
<1>0. /\ TypeInv /\ LifeInv /\ OwnInv /\ at \in [Consumers -> Places]
      /\ visits = [r \in Regions |-> visits[r]]
      /\ \A r \in Regions : visits[r] \in [Indices(r) -> Nat]
  BY PromiseInvParts DEF TypeInv, Types, TypeOK
<1>1. /\ at[c] = "chunk" /\ at' = [at EXCEPT ![c] = "running"]
      /\ UNCHANGED <<thread, position, worker>>
  BY DEF CallBack, Goto
<1>2. at'[c] = "running" /\ \A d \in Consumers \ {c} : at'[d] = at[d]
  BY <1>0, <1>1
<1>3. /\ position[c] \in Indices(c[1]) /\ visits[c[1]][position[c]] = 0
      /\ visits' = [visits EXCEPT ![c[1]][position[c]] = 1]
  BY <1>0, OwnCall
<1>4. \A r \in Regions : \A i \in Indices(r) : visits[r][i] # 0 => visits'[r][i] # 0
  BY <1>0, <1>3, ConsumerParts
<1>5. /\ \A r \in Regions : Caller(r) \in Consumers
      /\ \A j \in Jobs : j \in Consumers /\ j[1] \in Regions
  BY CallerParts, JobsAreConsumers, ConsumerParts
<1>6. /\ \A d, e \in Consumers : Beside(d, e)' <=> Beside(d, e)
      /\ \A d \in Consumers : NestedAt(d)' = NestedAt(d)
  BY <1>1 DEF Beside, NestedAt
<1>7. \A r \in NestedAt(c) : thread[Caller(r)] = NoThread
  <2> SUFFICES ASSUME NEW r \in Regions, Parent[r] = c[1], CallIndex[r] = position[c],
                      thread[Caller(r)] # NoThread
               PROVE  FALSE
      BY DEF NestedAt
  <2>1. at[Caller(r)] # "idle"
    BY <1>5 DEF StackInv, Threaded, Off
  <2>2. Parent[r] # NoRegion
    BY ConsumerParts, RegionsAssumption
  <2> QED
    BY <1>3, <2>1, <2>2 DEF StackInv, CalledFirst
<1>8. Threaded'
  BY <1>1, <1>2 DEF StackInv, Threaded, Off
<1>9. Stacked'
  BY <1>1, <1>2, <1>6 DEF StackInv, Stacked, Suspended
<1>10. CallsNested'
  BY <1>1, <1>2, <1>5, <1>6, <1>7 DEF StackInv, CallsNested
<1>11. Invoked'
  <2> SUFFICES ASSUME NEW r \in Regions, thread[Caller(r)] # NoThread,
                      Parent[r] # NoRegion
               PROVE  \E d \in Consumers : /\ at'[d] = "calling" /\ r \in NestedAt(d)
                                           /\ Beside(d, Caller(r))'
      BY <1>1, <1>6 DEF Invoked
  <2>1. PICK d \in Consumers : /\ at[d] = "calling" /\ r \in NestedAt(d)
                               /\ Beside(d, Caller(r))
    BY DEF StackInv, Invoked
  <2> QED
    BY <1>1, <1>2, <1>5, <1>6, <2>1
<1>12. CalledFirst'
  <2>1. Parent \in [Regions -> Regions \cup {NoRegion}]
    BY ProgramAssumption
  <2>2. \A r \in Regions : at'[Caller(r)] # "idle" => at[Caller(r)] # "idle"
    BY <1>1, <1>2, <1>5
  <2> QED
    BY <1>4, <2>1, <2>2 DEF StackInv, CalledFirst
<1>13. HelpsOne'
  BY <1>1, <1>2, <1>5, <1>6 DEF StackInv, HelpsOne
<1>14. Bases' /\ Busy'
  <2>1. \A j \in Jobs : Lowest(j) => Lowest(j)'
    BY <1>1, <1>5, <1>6 DEF Lowest
  <2> QED
    BY <1>1, <1>5, <1>6, <2>1 DEF StackInv, Bases, Busy
<1> QED
  BY <1>8, <1>9, <1>10, <1>11, <1>12, <1>13, <1>14 DEF StackInv

\* A step that neither begins nor ends a callback keeps the nesting of regions:
\* consumers in a callback stay where they are, and beside them only consumers
\* appear that are above all of them.
LEMMA StackNesting ==
    ASSUME CallsNested, Invoked, CalledFirst, UNCHANGED <<position, visits>>,
           \A c \in Consumers : at'[c] \in InCallback \/ at[c] \in InCallback
              => at'[c] = at[c] /\ thread'[c] = thread[c],
           \A r \in Regions : thread'[Caller(r)] = thread[Caller(r)],
           \A r \in Regions : at[Caller(r)] = "idle" => at'[Caller(r)] = "idle",
           \A c, d \in Consumers : at[c] \in InCallback /\ Beside(c, d)' =>
              \/ Beside(c, d)
              \/ \A e \in Consumers : Beside(c, e) => Level(e) <= Level(d)
    PROVE  CallsNested' /\ Invoked' /\ CalledFirst'
<1>1. \A c \in Consumers : NestedAt(c)' = NestedAt(c)
  BY DEF NestedAt
<1>2. \A r \in Regions : Caller(r) \in Consumers
  BY CallerParts
<1>3. \A c \in Consumers, r \in Regions : at[c] \in InCallback
         => (Beside(c, Caller(r))' <=> Beside(c, Caller(r)))
  BY <1>2 DEF Beside
<1>4. CallsNested'
  <2> SUFFICES ASSUME NEW q \in Regions, NEW d \in Consumers, at'[d] \in InCallback,
                      q \in NestedAt(d), thread'[Caller(q)] # NoThread
               PROVE  /\ at'[d] = "calling" /\ Beside(d, Caller(q))'
                      /\ \A e \in Consumers : Beside(d, e)' =>
                           Level(e) <= Level(d) \/ Level(Caller(q)) <= Level(e)
      BY <1>1 DEF CallsNested
  <2>1. at[d] \in InCallback
    OBVIOUS
  <2>2. /\ at[d] = "calling" /\ Beside(d, Caller(q))
        /\ \A e \in Consumers : Beside(d, e) =>
             Level(e) <= Level(d) \/ Level(Caller(q)) <= Level(e)
    BY <2>1 DEF CallsNested
  <2>3. at'[d] = "calling" /\ Beside(d, Caller(q))'
    BY <1>3, <2>1, <2>2
  <2>4. ASSUME NEW e \in Consumers, Beside(d, e)'
        PROVE  Level(e) <= Level(d) \/ Level(Caller(q)) <= Level(e)
    BY <1>2, <2>1, <2>2, <2>4
  <2> QED
    BY <2>3, <2>4
<1>5. Invoked'
  <2> SUFFICES ASSUME NEW r \in Regions, thread[Caller(r)] # NoThread,
                      Parent[r] # NoRegion
               PROVE  \E d \in Consumers : /\ at'[d] = "calling" /\ r \in NestedAt(d)
                                           /\ Beside(d, Caller(r))'
      BY <1>1 DEF Invoked
  <2>1. PICK d \in Consumers : /\ at[d] = "calling" /\ r \in NestedAt(d)
                               /\ Beside(d, Caller(r))
    BY DEF Invoked
  <2>2. at[d] \in InCallback
    BY <2>1 DEF InCallback
  <2> QED
    BY <1>3, <2>1, <2>2
<1>6. CalledFirst'
  BY DEF CalledFirst
<1> QED
  BY <1>4, <1>5, <1>6

\* A worker takes a job: there is nobody else on its thread.
LEMMA StackTake ==
    ASSUME PromiseInv, StackInv, NEW w \in Workers, NEW j \in Jobs, TakeJob(w, j)
    PROVE  StackInv'
<1>0. /\ PlacesApart /\ at \in [Consumers -> Places]
      /\ thread \in [Consumers -> Threads \cup {NoThread}]
      /\ worker \in [Workers -> {"asleep", "ready", "busy", "exited"}]
      /\ w # NoThread
  BY PromiseInvParts, ThreadsAssumption DEF TypeInv, Types, TypeOK, Threads
<1>1. /\ j \in jobs /\ worker[w] = "ready"
      /\ at' = [at EXCEPT ![j] = "acquire"] /\ thread' = [thread EXCEPT ![j] = w]
      /\ worker' = [worker EXCEPT ![w] = "busy"]
      /\ UNCHANGED <<position, visits>>
  BY DEF TakeJob, Goto
<1>2. /\ \A r \in Regions : Caller(r) \in Consumers /\ Caller(r) # j
      /\ \A i \in Jobs : i \in Consumers /\ i[1] \in Regions
      /\ j \in Consumers
  BY CallerParts, JobsAreConsumers, ConsumerParts
<1>3. /\ at'[j] = "acquire" /\ \A d \in Consumers \ {j} : at'[d] = at[d]
      /\ \A d \in Consumers : thread'[d] = IF d = j THEN w ELSE thread[d]
      /\ worker'[w] = "busy" /\ \A v \in Workers \ {w} : worker'[v] = worker[v]
  BY <1>0, <1>1, <1>2
<1>4. at[j] = "queued"
  BY <1>0, <1>1 DEF PlacesApart
<1>5. \A d \in Consumers : thread[d] # w
  BY <1>1 DEF StackInv, Busy
<1>6. /\ \A d, e \in Consumers : d # j /\ e # j => (Beside(d, e)' <=> Beside(d, e))
      /\ \A d \in Consumers \ {j} : ~Beside(d, j)' /\ ~Beside(j, d)'
  BY <1>2, <1>3, <1>5 DEF Beside
<1>7. Threaded'
  BY <1>0, <1>3 DEF StackInv, Threaded, Off
<1>8. Stacked'
  BY <1>2, <1>3, <1>5, StackFirst DEF StackInv
<1>9. CallsNested' /\ Invoked' /\ CalledFirst'
  <2>1. \A c \in Consumers : at'[c] \in InCallback \/ at[c] \in InCallback
           => c # j /\ at'[c] = at[c] /\ thread'[c] = thread[c]
    BY <1>3, <1>4 DEF InCallback
  <2>2. \A r \in Regions : /\ thread'[Caller(r)] = thread[Caller(r)]
                           /\ at'[Caller(r)] = at[Caller(r)]
    BY <1>2, <1>3
  <2>3. \A c, d \in Consumers : at[c] \in InCallback /\ Beside(c, d)' => Beside(c, d)
    BY <1>6, <2>1
  <2> QED
    BY <1>1, <2>1, <2>2, <2>3, StackNesting DEF StackInv
<1>10. HelpsOne'
  BY <1>2, <1>3, <1>6 DEF StackInv, HelpsOne
<1>11. Bases'
  <2>1. Lowest(j)'
    <3>1. \A e \in Consumers : Beside(e, j)' => e = j
      BY <1>6
    <3>2. Level(j) <= Level(j)
      BY <1>2, LevelType
    <3> QED
      BY <1>2, <1>3, <3>1, <3>2 DEF Lowest
  <2>2. \A i \in Jobs \ {j} : Lowest(i) => Lowest(i)'
    BY <1>2, <1>3, <1>6 DEF Lowest
  <2> QED
    BY <1>2, <1>3, <1>6, <2>1, <2>2 DEF StackInv, Bases
<1>12. Busy'
  BY <1>3, <1>5 DEF StackInv, Busy
<1> QED
  BY <1>7, <1>8, <1>9, <1>10, <1>11, <1>12 DEF StackInv

\* A waiting caller runs one of its own jobs.
LEMMA StackHelp ==
    ASSUME PromiseInv, StackInv, NEW r \in Regions, NEW j \in Jobs, HelpOwnRegion(r, j)
    PROVE  StackInv'
<1>0. /\ PlacesApart /\ at \in [Consumers -> Places]
      /\ thread \in [Consumers -> Threads \cup {NoThread}]
  BY PromiseInvParts DEF TypeInv, Types, TypeOK
<1>p. PICK c : c = Caller(r)
  OBVIOUS
<1>1. /\ at[c] = "wait" /\ j \in jobs /\ j[1] = r
      /\ at' = [at EXCEPT ![j] = "acquire", ![c] = "helping"]
      /\ thread' = [thread EXCEPT ![j] = thread[c]]
      /\ UNCHANGED <<position, visits, worker>>
  BY <1>p DEF HelpOwnRegion, QueuedOf, JobsOf
<1>2. /\ c \in Consumers /\ j \in Consumers /\ j # c /\ c = Caller(j[1])
      /\ \A q \in Regions : Caller(q) \in Consumers /\ Caller(q) # j
      /\ \A i \in Jobs : i \in Consumers /\ i[1] \in Regions
  BY <1>1, <1>p, CallerParts, JobsAreConsumers, ConsumerParts
<1>3. /\ at'[j] = "acquire" /\ at'[c] = "helping"
      /\ \A d \in Consumers \ {c, j} : at'[d] = at[d]
      /\ \A d \in Consumers : thread'[d] = IF d = j THEN thread[c] ELSE thread[d]
  BY <1>0, <1>1, <1>2
<1>4. at[j] = "queued" /\ thread[j] = NoThread /\ thread[c] # NoThread
  BY <1>0, <1>1, <1>2 DEF PlacesApart, StackInv, Threaded, Off
<1>5. /\ \A d \in Consumers : Level(d) \in Nat
      /\ Level(j) = Level(c) + 1
  BY <1>2, LevelType
<1>6. at[c] \notin Suspended /\ at'[c] \in Suspended
  BY <1>1, <1>3 DEF Suspended
<1>7. \A d \in Consumers : d # c /\ Beside(c, d) => Level(d) < Level(c)
  BY <1>2, <1>6, Uppermost DEF StackInv
<1>8. /\ \A d, e \in Consumers : d # j /\ e # j => (Beside(d, e)' <=> Beside(d, e))
      /\ \A d \in Consumers \ {j} : /\ Beside(d, j)' <=> Beside(c, d)
                                    /\ Beside(j, d)' <=> Beside(c, d)
  BY <1>2, <1>3, <1>4 DEF Beside
<1>9. Threaded'
  BY <1>1, <1>3, <1>4 DEF StackInv, Threaded, Off
<1>10. Stacked'
  <2>1. Level(c) < Level(j)
    BY <1>2, <1>5
  <2> QED
    BY <1>2, <1>3, <1>4, <1>6, <2>1, StackPush DEF StackInv
<1>11. CallsNested' /\ Invoked' /\ CalledFirst'
  <2>1. \A d \in Consumers : at'[d] \in InCallback \/ at[d] \in InCallback
           => d # j /\ d # c /\ at'[d] = at[d] /\ thread'[d] = thread[d]
    BY <1>1, <1>3, <1>4 DEF InCallback
  <2>2. \A q \in Regions : /\ thread'[Caller(q)] = thread[Caller(q)]
                           /\ at[Caller(q)] = "idle" => at'[Caller(q)] = "idle"
    BY <1>1, <1>2, <1>3
  <2>3. ASSUME NEW d \in Consumers, NEW e \in Consumers, at[d] \in InCallback,
               Beside(d, e)', ~Beside(d, e), NEW f \in Consumers, Beside(d, f)
        PROVE  Level(f) <= Level(e)
    <3>1. e = j /\ d # j
      BY <1>8, <2>1, <2>3
    <3>2. Beside(c, d)
      BY <1>8, <2>3, <3>1
    <3>3. f = c \/ Level(f) < Level(c)
      BY <1>7, <2>3, <3>2 DEF Beside
    <3> QED
      BY <1>2, <1>5, <3>1, <3>3
  <2> QED
    BY <1>1, <2>1, <2>2, <2>3, StackNesting DEF StackInv
<1>12. HelpsOne'
  <2> SUFFICES ASSUME NEW i \in Jobs, Beside(i, Caller(i[1]))'
               PROVE  at'[Caller(i[1])] = "helping"
      BY DEF HelpsOne
  <2>1. CASE Caller(i[1]) = c
    BY <1>3, <2>1
  <2>2. CASE Caller(i[1]) # c
    <3>1. i # j
      BY <1>2, <2>2
    <3>2. Beside(i, Caller(i[1]))
      BY <1>2, <1>8, <3>1
    <3> QED
      BY <1>2, <1>3, <2>2, <3>2 DEF StackInv, HelpsOne
  <2> QED
    BY <2>1, <2>2
<1>13. Bases'
  <2>1. Beside(j, Caller(j[1]))'
    BY <1>2, <1>3, <1>4 DEF Beside
  <2>2. ASSUME NEW i \in Jobs \ {j}, Lowest(i) PROVE Lowest(i)'
    <3>1. ASSUME NEW e \in Consumers, Beside(e, i)' PROVE Level(i) <= Level(e)
      <4>1. CASE e = j
        <5>1. Beside(c, i)
          BY <1>2, <1>8, <3>1, <4>1
        <5>2. Level(i) <= Level(c)
          BY <1>2, <2>2, <5>1 DEF Lowest
        <5> QED
          BY <1>2, <1>5, <4>1, <5>2
      <4>2. CASE e # j
        BY <1>2, <1>8, <2>2, <3>1, <4>2 DEF Lowest
      <4> QED
        BY <4>1, <4>2
    <3> QED
      BY <1>2, <1>3, <2>2, <3>1 DEF Lowest
  <2> QED
    BY <1>2, <1>3, <1>8, <2>1, <2>2 DEF StackInv, Bases
<1>14. Busy'
  BY <1>1, <1>2, <1>3 DEF StackInv, Busy
<1> QED
  BY <1>9, <1>10, <1>11, <1>12, <1>13, <1>14 DEF StackInv

\* ... and returns to its wait.
LEMMA StackReturn ==
    ASSUME PromiseInv, StackInv, NEW j \in Jobs, FinishCallerJob(j)
    PROVE  StackInv'
<1>0. /\ at \in [Consumers -> Places]
      /\ thread \in [Consumers -> Threads \cup {NoThread}]
  BY PromiseInvParts DEF TypeInv, Types, TypeOK
<1>p. PICK c : c = Caller(j[1])
  OBVIOUS
<1>1. /\ at[j] = "retired" /\ at[c] = "helping" /\ thread[j] = thread[c]
      /\ at' = [at EXCEPT ![j] = "done", ![c] = "wait"]
      /\ thread' = [thread EXCEPT ![j] = NoThread]
      /\ UNCHANGED <<position, visits, worker>>
  BY <1>p DEF FinishCallerJob, RunByCaller
<1>2. /\ c \in Consumers /\ j \in Consumers /\ j # c
      /\ \A q \in Regions : Caller(q) \in Consumers /\ Caller(q) # j
      /\ \A i \in Jobs : i \in Consumers /\ i[1] \in Regions
  BY <1>p, CallerParts, JobsAreConsumers, ConsumerParts
<1>3. /\ at'[j] = "done" /\ at'[c] = "wait"
      /\ \A d \in Consumers \ {c, j} : at'[d] = at[d]
      /\ \A d \in Consumers : thread'[d] = IF d = j THEN NoThread ELSE thread[d]
  BY <1>0, <1>1, <1>2
<1>4. Beside(c, j) /\ Beside(j, c)
  BY <1>1, <1>2 DEF StackInv, Threaded, Off, Beside
<1>5. /\ \A d \in Consumers : Level(d) \in Nat
      /\ Level(j) = Level(c) + 1
      /\ \A i \in Jobs : Level(i) = Level(Caller(i[1])) + 1
  BY <1>p, <1>2, LevelType
<1>6. \A d \in Consumers : d # j /\ Beside(c, d) => Level(d) <= Level(c)
  <2>1. at[j] \notin Suspended
    BY <1>1 DEF Suspended
  <2>2. \A d \in Consumers : d # j /\ Beside(j, d) => Level(d) < Level(j)
    BY <1>2, <2>1, Uppermost DEF StackInv
  <2>3. \A d \in Consumers : Beside(c, d) => Beside(j, d)
    BY <1>4 DEF Beside
  <2> QED
    BY <1>2, <1>5, <2>2, <2>3
<1>7. \A d, e \in Consumers :
         Beside(d, e)' <=> d # j /\ e # j /\ Beside(d, e)
  BY <1>2, <1>3 DEF Beside
<1>8. Threaded'
  BY <1>1, <1>2, <1>3 DEF StackInv, Threaded, Off
<1>9. Stacked'
  <2>1. at[j] \notin Suspended
    BY <1>1 DEF Suspended
  <2>2. \A d \in Consumers \ {j} :
           \/ at'[d] = at[d]
           \/ \A e \in Consumers \ {j} : Beside(d, e) => Level(e) <= Level(d)
    BY <1>3, <1>6
  <2> QED
    BY <1>2, <1>3, <2>1, <2>2, StackPop DEF StackInv
<1>10. CallsNested' /\ Invoked' /\ CalledFirst'
  <2>1. \A d \in Consumers : at'[d] \in InCallback \/ at[d] \in InCallback
           => at'[d] = at[d] /\ thread'[d] = thread[d]
    BY <1>1, <1>3 DEF InCallback
  <2>2. \A q \in Regions : /\ thread'[Caller(q)] = thread[Caller(q)]
                           /\ at[Caller(q)] = "idle" => at'[Caller(q)] = "idle"
    BY <1>1, <1>2, <1>3
  <2> QED
    BY <1>1, <1>7, <2>1, <2>2, StackNesting DEF StackInv
<1>11. HelpsOne'
  <2> SUFFICES ASSUME NEW i \in Jobs, Beside(i, Caller(i[1]))'
               PROVE  at'[Caller(i[1])] = "helping"
      BY DEF HelpsOne
  <2>1. i # j /\ Beside(i, Caller(i[1]))
    BY <1>2, <1>7
  <2>2. CASE Caller(i[1]) = c
    <3>1. Level(i) = Level(j)
      BY <1>5, <2>2
    <3>2. Beside(i, j)
      BY <1>4, <2>1, <2>2 DEF Beside
    <3> QED
      BY <1>2, <2>1, <3>1, <3>2 DEF StackInv, Stacked
  <2>3. CASE Caller(i[1]) # c
    BY <1>2, <1>3, <2>1, <2>3 DEF StackInv, HelpsOne
  <2> QED
    BY <2>2, <2>3
<1>12. Bases'
  <2>1. \A i \in Jobs \ {j} : Lowest(i) => Lowest(i)'
    BY <1>2, <1>3, <1>7 DEF Lowest
  <2> QED
    BY <1>2, <1>3, <1>7, <2>1 DEF StackInv, Bases
<1>13. Busy'
  BY <1>1, <1>3, ThreadsAssumption DEF StackInv, Busy, Threads
<1> QED
  BY <1>8, <1>9, <1>10, <1>11, <1>12, <1>13 DEF StackInv

\* The job that a worker finishes is alone on its thread.
LEMMA WorkerAlone ==
    ASSUME StackInv, NEW j \in Jobs, at[j] = "retired", ~RunByCaller(j)
    PROVE  /\ thread[j] \in Workers /\ worker[thread[j]] = "busy"
           /\ \A d \in Consumers : thread[d] = thread[j] => d = j
<1>1. j \in Consumers /\ Caller(j[1]) \in Consumers
  BY JobsAreConsumers, ConsumerParts, CallerParts
<1>2. thread[j] # NoThread
  BY <1>1 DEF StackInv, Threaded, Off
<1>3. ~Beside(j, Caller(j[1]))
  BY DEF StackInv, HelpsOne, RunByCaller, Beside
<1>4. Lowest(j)
  BY <1>2, <1>3 DEF StackInv, Bases
<1>5. \A d \in Consumers : d # j /\ Beside(j, d) => Level(d) < Level(j)
  BY <1>1, Uppermost DEF StackInv, Suspended
<1>6. ASSUME NEW d \in Consumers, thread[d] = thread[j], d # j PROVE FALSE
  <2>1. Beside(j, d) /\ Beside(d, j)
    BY <1>2, <1>6 DEF Beside
  <2>2. Level(d) < Level(j) /\ Level(j) <= Level(d)
    BY <1>4, <1>5, <1>6, <2>1 DEF Lowest
  <2> QED
    BY <1>1, <2>2, LevelType
<1> QED
  BY <1>1, <1>4, <1>6 DEF Lowest, StackInv, Busy

LEMMA StackFinish ==
    ASSUME PromiseInv, StackInv, NEW j \in Jobs, FinishWorkerJob(j)
    PROVE  StackInv'
<1>0. /\ at \in [Consumers -> Places]
      /\ thread \in [Consumers -> Threads \cup {NoThread}]
      /\ worker \in [Workers -> {"asleep", "ready", "busy", "exited"}]
  BY PromiseInvParts DEF TypeInv, Types, TypeOK
<1>1. /\ at[j] = "retired" /\ ~RunByCaller(j)
      /\ at' = [at EXCEPT ![j] = "done"]
      /\ thread' = [thread EXCEPT ![j] = NoThread]
      /\ worker' = [worker EXCEPT ![thread[j]] = "ready"]
      /\ UNCHANGED <<position, visits>>
  BY DEF FinishWorkerJob, Goto
<1>2. /\ j \in Consumers
      /\ \A q \in Regions : Caller(q) \in Consumers /\ Caller(q) # j
      /\ \A i \in Jobs : i \in Consumers /\ i[1] \in Regions
  BY CallerParts, JobsAreConsumers, ConsumerParts
<1>3. /\ at'[j] = "done" /\ \A d \in Consumers \ {j} : at'[d] = at[d]
      /\ \A d \in Consumers : thread'[d] = IF d = j THEN NoThread ELSE thread[d]
      /\ \A w \in Workers \ {thread[j]} : worker'[w] = worker[w]
  BY <1>0, <1>1, <1>2
<1>4. \A d \in Consumers : thread[d] = thread[j] => d = j
  BY <1>1, WorkerAlone
<1>5. \A d, e \in Consumers :
         Beside(d, e)' <=> d # j /\ e # j /\ Beside(d, e)
  BY <1>2, <1>3 DEF Beside
<1>6. Threaded'
  BY <1>1, <1>3 DEF StackInv, Threaded, Off
<1>7. Stacked'
  BY <1>1, <1>2, <1>3, StackPop DEF StackInv, Suspended
<1>8. CallsNested' /\ Invoked' /\ CalledFirst'
  <2>1. \A d \in Consumers : at'[d] \in InCallback \/ at[d] \in InCallback
           => at'[d] = at[d] /\ thread'[d] = thread[d]
    BY <1>1, <1>3 DEF InCallback
  <2>2. \A q \in Regions : /\ thread'[Caller(q)] = thread[Caller(q)]
                           /\ at[Caller(q)] = "idle" => at'[Caller(q)] = "idle"
    BY <1>1, <1>2, <1>3
  <2> QED
    BY <1>1, <1>5, <2>1, <2>2, StackNesting DEF StackInv
<1>9. HelpsOne'
  BY <1>2, <1>3, <1>5 DEF StackInv, HelpsOne
<1>10. Bases'
  <2>1. \A i \in Jobs \ {j} : Lowest(i) => Lowest(i)'
    BY <1>2, <1>3, <1>5 DEF Lowest
  <2> QED
    BY <1>2, <1>3, <1>5, <2>1 DEF StackInv, Bases
<1>11. Busy'
  <2> SUFFICES ASSUME NEW d \in Consumers, thread'[d] \in Workers
               PROVE  worker'[thread'[d]] = "busy"
      BY DEF Busy
  <2>1. d # j /\ thread'[d] = thread[d] /\ thread[d] # thread[j]
    BY <1>3, <1>4, ThreadsAssumption DEF Threads
  <2> QED
    BY <1>3, <2>1 DEF StackInv, Busy
<1> QED
  BY <1>6, <1>7, <1>8, <1>9, <1>10, <1>11 DEF StackInv

\* Below the caller that leaves, the callback that executed its region is the
\* uppermost.
LEMMA LeavesCallback ==
    ASSUME StackInv, NEW r \in Regions, at[Caller(r)] = "leave",
           NEW d \in Consumers, at[d] = "calling", r \in NestedAt(d),
           NEW e \in Consumers \ {Caller(r)}, Beside(d, e)
    PROVE  Level(e) <= Level(d)
<1>1. Caller(r) \in Consumers /\ thread[Caller(r)] # NoThread
  BY CallerParts DEF StackInv, Threaded, Off
<1>2. at[d] \in InCallback
  BY DEF InCallback
<1>3. /\ Beside(d, Caller(r))
      /\ Level(e) <= Level(d) \/ Level(Caller(r)) <= Level(e)
  BY <1>1, <1>2 DEF StackInv, CallsNested
<1>4. Beside(Caller(r), e) /\ at[Caller(r)] \notin Suspended
  BY <1>3 DEF Beside, Suspended
<1>5. Level(e) < Level(Caller(r))
  BY <1>1, <1>4, Uppermost DEF StackInv
<1> QED
  BY <1>1, <1>3, <1>5, LevelType

\* A region is left: the thread continues with the callback that executed it.
LEMMA StackLeave ==
    ASSUME PromiseInv, StackInv, NEW r \in Regions, Leave(r)
    PROVE  StackInv'
<1>0. /\ at \in [Consumers -> Places]
      /\ thread \in [Consumers -> Threads \cup {NoThread}]
  BY PromiseInvParts DEF TypeInv, Types, TypeOK
<1>p. PICK c : c = Caller(r)
  OBVIOUS
<1>1. /\ at[c] = "leave" /\ thread' = [thread EXCEPT ![c] = NoThread]
      /\ at' = [d \in Consumers |->
                  IF d = c THEN "done"
                  ELSE IF at[d] = "calling" /\ r \in NestedAt(d) THEN "running"
                  ELSE at[d]]
      /\ UNCHANGED <<position, visits, worker>>
  BY <1>p DEF Leave
<1>2. /\ c \in Consumers /\ c \notin Jobs
      /\ \A q \in Regions : Caller(q) \in Consumers
      /\ \A i \in Jobs : i \in Consumers /\ i[1] \in Regions
  BY <1>p, CallerParts, JobsAreConsumers, ConsumerParts
<1>3. /\ at'[c] = "done"
      /\ \A d \in Consumers \ {c} : at'[d] =
            IF at[d] = "calling" /\ r \in NestedAt(d) THEN "running" ELSE at[d]
      /\ \A d \in Consumers : thread'[d] = IF d = c THEN NoThread ELSE thread[d]
  BY <1>0, <1>1, <1>2
<1>4. thread[c] # NoThread
  BY <1>1, <1>2 DEF StackInv, Threaded, Off
<1>5. \A d \in Consumers : Level(d) \in Nat
  BY LevelType
<1>7. ASSUME NEW d \in Consumers, at[d] = "calling", r \in NestedAt(d),
             NEW e \in Consumers \ {c}, Beside(d, e)
      PROVE  Level(e) <= Level(d)
  BY <1>1, <1>7, <1>p, LeavesCallback
<1>8. \A d, e \in Consumers :
         Beside(d, e)' <=> d # c /\ e # c /\ Beside(d, e)
  BY <1>2, <1>3 DEF Beside
<1>9. \A d \in Consumers : NestedAt(d)' = NestedAt(d)
  BY <1>1 DEF NestedAt
<1>10. ASSUME NEW q \in Regions, NEW d \in Consumers, at[d] = "calling",
              q \in NestedAt(d), Beside(d, Caller(q)), Caller(q) # c
       PROVE  d # c /\ at'[d] = "calling"
  <2>1. d # c
    BY <1>1, <1>10
  <2>2. r \notin NestedAt(d)
    <3>1. Level(d) < Level(Caller(q))
      BY <1>10, NestedLevel
    <3>2. r \in NestedAt(d) => Level(Caller(q)) <= Level(d)
      BY <1>2, <1>7, <1>10
    <3> QED
      BY <1>2, <1>5, <3>1, <3>2
  <2> QED
    BY <1>3, <1>10, <2>1, <2>2
<1>11. Threaded'
  BY <1>1, <1>3, <1>4 DEF StackInv, Threaded, Off
<1>12. Stacked'
  <2>1. at[c] \notin Suspended
    BY <1>1 DEF Suspended
  <2>2. \A d \in Consumers \ {c} :
           \/ at'[d] = at[d]
           \/ \A e \in Consumers \ {c} : Beside(d, e) => Level(e) <= Level(d)
    BY <1>3, <1>7
  <2> QED
    BY <1>2, <1>3, <2>1, <2>2, StackPop DEF StackInv
<1>13. CallsNested'
  <2> SUFFICES ASSUME NEW q \in Regions, NEW d \in Consumers, at'[d] \in InCallback,
                      q \in NestedAt(d), thread'[Caller(q)] # NoThread
               PROVE  /\ at'[d] = "calling" /\ Beside(d, Caller(q))'
                      /\ \A e \in Consumers : Beside(d, e)' =>
                           Level(e) <= Level(d) \/ Level(Caller(q)) <= Level(e)
      BY <1>9 DEF CallsNested
  <2>1. Caller(q) # c /\ thread[Caller(q)] # NoThread /\ at[d] \in InCallback
    BY <1>2, <1>3 DEF InCallback
  <2>2. /\ at[d] = "calling" /\ Beside(d, Caller(q))
        /\ \A e \in Consumers : Beside(d, e) =>
             Level(e) <= Level(d) \/ Level(Caller(q)) <= Level(e)
    BY <2>1 DEF StackInv, CallsNested
  <2>3. d # c /\ at'[d] = "calling"
    BY <1>10, <2>1, <2>2
  <2> QED
    BY <1>2, <1>8, <2>1, <2>2, <2>3
<1>14. Invoked'
  <2> SUFFICES ASSUME NEW q \in Regions, thread'[Caller(q)] # NoThread,
                      Parent[q] # NoRegion
               PROVE  \E d \in Consumers : /\ at'[d] = "calling" /\ q \in NestedAt(d)
                                           /\ Beside(d, Caller(q))'
      BY <1>9 DEF Invoked
  <2>1. Caller(q) # c /\ thread[Caller(q)] # NoThread
    BY <1>2, <1>3
  <2>2. PICK d \in Consumers : /\ at[d] = "calling" /\ q \in NestedAt(d)
                               /\ Beside(d, Caller(q))
    BY <2>1 DEF StackInv, Invoked
  <2>3. d # c /\ at'[d] = "calling"
    BY <1>10, <2>1, <2>2
  <2> QED
    BY <1>2, <1>8, <2>1, <2>2, <2>3
<1>15. CalledFirst'
  <2>1. \A q \in Regions : at'[Caller(q)] # "idle" => at[Caller(q)] # "idle"
    BY <1>1, <1>2, <1>3
  <2> QED
    BY <1>1, <2>1 DEF StackInv, CalledFirst
<1>16. \A i \in Jobs : Beside(i, Caller(i[1])) =>
          at[Caller(i[1])] = "helping" /\ Caller(i[1]) # c /\ i # c
  BY <1>1, <1>2 DEF StackInv, HelpsOne
<1>17. HelpsOne'
  <2> SUFFICES ASSUME NEW i \in Jobs, Beside(i, Caller(i[1]))'
               PROVE  at'[Caller(i[1])] = "helping"
      BY DEF HelpsOne
  <2>1. Beside(i, Caller(i[1])) /\ Caller(i[1]) \in Consumers
    BY <1>2, <1>8
  <2> QED
    BY <1>3, <1>16, <2>1
<1>18. Bases'
  <2> SUFFICES ASSUME NEW i \in Jobs, thread'[i] # NoThread
               PROVE  Beside(i, Caller(i[1]))' \/ Lowest(i)'
      BY DEF Bases
  <2>1. i # c /\ thread'[i] = thread[i] /\ thread[i] # NoThread
    BY <1>2, <1>3
  <2>2. Lowest(i) => Lowest(i)'
    BY <1>2, <1>8, <2>1 DEF Lowest
  <2>3. Beside(i, Caller(i[1])) => Beside(i, Caller(i[1]))'
    BY <1>2, <1>8, <1>16
  <2> QED
    BY <2>1, <2>2, <2>3 DEF StackInv, Bases
<1>19. Busy'
  BY <1>1, <1>3, ThreadsAssumption DEF StackInv, Busy, Threads
<1> QED
  BY <1>11, <1>12, <1>13, <1>14, <1>15, <1>17, <1>18, <1>19 DEF StackInv

\* One consumer goes on, inside the same thread.
LEMMA StackGoto ==
    ASSUME StackInv, at \in [Consumers -> Places], NEW c \in Consumers, NEW p,
           at' = [at EXCEPT ![c] = p], UNCHANGED <<thread, visits>>,
           at[c] \notin Suspended \cup Off, p \notin InCallback \cup Off,
           \A d \in Consumers \ {c} : position'[d] = position[d],
           \A w \in Workers : worker[w] = "busy" => worker'[w] = "busy"
    PROVE  StackInv'
<1>1. at'[c] = p /\ \A d \in Consumers \ {c} : at'[d] = at[d]
  OBVIOUS
<1>2. /\ \A d \in Consumers : at'[d] \in Off <=> at[d] \in Off
      /\ \A d \in Consumers : at[d] \in Suspended => at'[d] = at[d]
  BY <1>1
<1>3. \A d \in Consumers : at'[d] \in InCallback \/ at[d] = "calling"
         => at'[d] = at[d] /\ position'[d] = position[d]
  BY <1>1 DEF Suspended
<1>4. \A r \in Regions : at[Caller(r)] = "idle" => at'[Caller(r)] = "idle"
  BY <1>1, CallerParts DEF Off
<1> QED
  BY <1>2, <1>3, <1>4, StackFrame

\* Several do.
LEMMA StackMoves ==
    ASSUME StackInv, UNCHANGED <<thread, visits, position>>,
           \A c \in Consumers : at'[c] # at[c] =>
              /\ at[c] \notin Suspended /\ at'[c] \notin InCallback
              /\ at'[c] \in Off <=> at[c] \in Off,
           \A r \in Regions : at[Caller(r)] = "idle" => at'[Caller(r)] = "idle",
           \A w \in Workers : worker[w] = "busy" => worker'[w] = "busy"
    PROVE  StackInv'
<1>1. /\ \A d \in Consumers : at'[d] \in Off <=> at[d] \in Off
      /\ \A d \in Consumers : at[d] \in Suspended => at'[d] = at[d]
  OBVIOUS
<1>2. \A d \in Consumers : at'[d] \in InCallback \/ at[d] = "calling"
         => at'[d] = at[d] /\ position'[d] = position[d]
  BY DEF Suspended
<1> QED
  BY <1>1, <1>2, StackFrame

LEMMA StackStep == PromiseInv /\ StackInv /\ [Next]_vars => StackInv'
<1> SUFFICES ASSUME PromiseInv, StackInv, [Next]_vars PROVE StackInv'
    OBVIOUS
<1> USE DEF Goto
<1>0. /\ at \in [Consumers -> Places] /\ PlacesApart /\ Submission /\ TypeInv
      /\ position \in [Consumers -> Nat] /\ next_helper \in [Regions -> Nat]
      /\ worker \in [Workers -> {"asleep", "ready", "busy", "exited"}]
  BY PromiseInvParts DEF TypeInv, Types, TypeOK
<1>c. \A r \in Regions : Caller(r) \in Consumers /\ Caller(r) \notin Jobs
  BY CallerParts
<1>j. \A j \in Jobs : j \in Consumers
  BY JobsAreConsumers
<1>1. ASSUME NEW r \in Regions,
             \/ ReserveNothing(r) \/ CallerOwned(r) \/ CallerLeased(r)
             \/ CallerRefused(r) \/ RecruitEnds(r) \/ RegisterHelper(r)
             \/ SubmitFails(r) \/ PublishEnds(r) \/ DirectEnds(r)
             \/ KeepIdleHelpers(r) \/ WaitEnds(r)
      PROVE  StackInv'
  <2>1. /\ UNCHANGED <<visits, thread, position, worker>>
        /\ at[Caller(r)] \in {"reserve", "recruit", "publish", "submit", "chunk",
                              "retire", "wait"}
    BY <1>1 DEF ReserveNothing, CallerOwned, CallerLeased, CallerRefused,
       RecruitEnds, RegisterHelper, SubmitFails, PublishEnds, DirectEnds,
       KeepIdleHelpers, WaitEnds
  <2>2. \E p \in {"chunk", "publish", "recruit", "submit", "acquire", "leave", "wait"} :
           at' = [at EXCEPT ![Caller(r)] = p]
    BY <1>1 DEF ReserveNothing, CallerOwned, CallerLeased, CallerRefused, Dispatch,
       RecruitEnds, RegisterHelper, SubmitFails, PublishEnds, DirectEnds,
       KeepIdleHelpers, WaitEnds
  <2> QED
    BY <1>0, <1>c, <2>1, <2>2, StackGoto DEF InCallback, Off, Suspended
<1>2. ASSUME NEW c \in Consumers,
             \/ try_acquire(c) \/ NoChunk(c) \/ mark_complete(c)
             \/ CallBackReturns(c) \/ CallBackThrows(c)
      PROVE  StackInv'
  <2>1. UNCHANGED <<visits, thread, worker>> /\ at[c] \in {"acquire", "chunk", "running"}
    BY <1>2 DEF try_acquire, NoChunk, mark_complete, CallBackReturns, CallBackThrows
  <2>2. \E p \in {"chunk", "retire", "drop", "acquire", "leave"} :
           at' = [at EXCEPT ![c] = p]
    BY <1>2 DEF try_acquire, NoChunk, mark_complete, CallBackReturns, CallBackThrows,
       AfterChunks
  <2>3. \A d \in Consumers \ {c} : position'[d] = position[d]
    BY <1>0, <1>2
    DEF try_acquire, NoChunk, mark_complete, CallBackReturns, CallBackThrows
  <2> QED
    BY <1>0, <2>1, <2>2, <2>3, StackGoto DEF InCallback, Off, Suspended
<1>3. ASSUME NEW j \in Jobs, DropLease(j) \/ FinishHelper(j) PROVE StackInv'
  <2>1. /\ UNCHANGED <<visits, thread, position, worker>> /\ at[j] \in {"drop", "finish"}
        /\ \E p \in {"finish", "retired"} : at' = [at EXCEPT ![j] = p]
    BY <1>3 DEF DropLease, FinishHelper
  <2> QED
    BY <1>0, <1>j, <2>1, StackGoto DEF InCallback, Off, Suspended
<1>4. ASSUME NEW r \in Regions, SubmitHelper(r) PROVE StackInv'
  <2> DEFINE k == <<r, next_helper[r]>>
  <2>1. /\ UNCHANGED <<visits, thread, position>> /\ at[Caller(r)] = "submit"
        /\ at' = [at EXCEPT ![Caller(r)] = "publish", ![k] = "queued"]
        /\ NotifyOne
    BY <1>4 DEF SubmitHelper
  <2>2. k \in JobsOf(r) /\ k \in Jobs /\ k \in Consumers /\ k[2] = next_helper[r]
    BY <1>0, <2>1, SubmittedIsJob
  <2>3. at[k] = "idle"
    BY <1>0, <2>2 DEF Submission
  <2> HIDE DEF k
  <2>4. /\ at'[k] = "queued" /\ at'[Caller(r)] = "publish"
        /\ \A c \in Consumers \ {k, Caller(r)} : at'[c] = at[c]
    BY <1>0, <1>c, <2>1, <2>2
  <2>5. \A q \in Regions : Caller(q) # k
    BY <1>c, <2>2
  <2>6. \A c \in Consumers : at'[c] # at[c] =>
           \/ at[c] = "idle" /\ at'[c] = "queued"
           \/ at[c] = "submit" /\ at'[c] = "publish"
    BY <2>1, <2>3, <2>4
  <2>7. \A q \in Regions : at[Caller(q)] = "idle" => at'[Caller(q)] = "idle"
    BY <1>c, <2>1, <2>4, <2>5
  <2>8. \A w \in Workers : worker[w] = "busy" => worker'[w] = "busy"
    BY <1>0, <2>1 DEF NotifyOne
  <2> QED
    BY <2>1, <2>6, <2>7, <2>8, StackMoves DEF InCallback, Off, Suspended
<1>5. ASSUME NEW r \in Regions, CancelIdleHelpers(r) PROVE StackInv'
  <2>1. /\ UNCHANGED <<visits, thread, position, worker>> /\ at[Caller(r)] = "retire"
        /\ at' = [c \in Consumers |->
                    IF c \in QueuedOf(r) THEN "erased"
                    ELSE IF c = Caller(r)
                      THEN IF QueuedOf(r) = {} THEN "wait" ELSE "discount"
                    ELSE at[c]]
    BY <1>5 DEF CancelIdleHelpers
  <2>2. \A j \in QueuedOf(r) : at[j] = "queued"
    BY <1>0 DEF PlacesApart, QueuedOf, JobsOf
  <2>3. \A c \in Consumers : at'[c] # at[c] =>
            \/ at[c] = "queued" /\ at'[c] = "erased"
            \/ at[c] = "retire" /\ at'[c] \in {"wait", "discount"}
    BY <2>1, <2>2
  <2> QED
    BY <1>c, <2>1, <2>3, StackMoves DEF InCallback, Off, Suspended
<1>6. ASSUME NEW r \in Regions, DiscountErased(r) PROVE StackInv'
  <2>1. /\ UNCHANGED <<visits, thread, position, worker>> /\ at[Caller(r)] = "discount"
        /\ at' = [c \in Consumers |-> IF c \in Erased(r) THEN "done"
                                      ELSE IF c = Caller(r) THEN "wait" ELSE at[c]]
    BY <1>6 DEF DiscountErased
  <2>2. \A c \in Consumers : at'[c] # at[c] =>
            \/ at[c] = "erased" /\ at'[c] = "done"
            \/ at[c] = "discount" /\ at'[c] = "wait"
    BY <2>1 DEF Erased
  <2> QED
    BY <1>c, <2>1, <2>2, StackMoves DEF InCallback, Off, Suspended
<1>7. ASSUME UNCHANGED <<at, visits, thread, position>>,
             \A w \in Workers : worker[w] = "busy" => worker'[w] = "busy"
      PROVE  StackInv'
  BY <1>7, StackMoves
<1>8. ASSUME NEW r \in Regions, RecruitHelper(r) PROVE StackInv'
  BY <1>7, <1>8 DEF RecruitHelper
<1>9. ASSUME NEW w \in Workers, Sleep(w) \/ Exit(w) PROVE StackInv'
  <2>1. \A v \in Workers : worker[v] = "busy" => worker'[v] = "busy"
    BY <1>0, <1>9 DEF Sleep, Exit
  <2> QED
    BY <1>7, <1>9, <2>1 DEF Sleep, Exit
<1>10. CASE StopPool
  <2>1. \A v \in Workers : worker[v] = "busy" => worker'[v] = "busy"
    BY <1>0, <1>10 DEF StopPool
  <2> QED
    BY <1>7, <1>10, <2>1 DEF StopPool
<1>11. CASE Terminated \/ UNCHANGED vars
  BY <1>7, <1>11 DEF Terminated
<1> QED
  BY <1>1, <1>2, <1>3, <1>4, <1>5, <1>6, <1>8, <1>9, <1>10, <1>11,
     StackNested, StackRoot, StackCall, StackTake, StackHelp, StackReturn,
     StackFinish, StackLeave
  DEF Next, CallerStep, ConsumerStep, HelperStep, WorkerStep

\* Every reachable state: the consumers of a thread form a stack, only the
\* uppermost of them runs, a nested region is right above the callback that
\* executes it, and a worker inside a consumer is busy.
THEOREM StackProved == Spec => [](PromiseInv /\ StackInv)
<1>1. PromiseInv /\ StackInv /\ [Next]_vars => StackInv'
  BY StackStep
<1> QED
  BY <1>1, StackInit, OwnershipProved, PTL DEF Spec

-----------------------------------------------------------------------------
(* The pool's counters.                                                    *)

\* The jobs that are queued or that a thread is inside of, and the workers
\* inside a job.
Live == {j \in Jobs : at[j] \notin {"idle", "erased", "done"}}
BusyWorkers == {w \in Workers : worker[w] = "busy"}

\* The first half is PoolCountersExact without the split into queued and
\* running jobs.
CountersInv == /\ active_jobs = Cardinality(Live)
               /\ busy_workers = Cardinality(BusyWorkers)

LEMMA CounterSets ==
    /\ IsFiniteSet(Live) /\ Cardinality(Live) \in Nat
    /\ IsFiniteSet(BusyWorkers) /\ Cardinality(BusyWorkers) \in Nat
<1>1. Live \subseteq Consumers /\ BusyWorkers \subseteq Workers
  BY JobsAreConsumers DEF Live, BusyWorkers
<1>2. IsFiniteSet(BusyWorkers)
  BY <1>1, WorkersAssumption, FS_Subset
<1> QED
  BY <1>1, <1>2, SubsetOfConsumers, FS_CardinalityType

LEMMA CountersFrame ==
    ASSUME CountersInv, UNCHANGED <<active_jobs, busy_workers>>,
           \A j \in Jobs : at'[j] \in {"idle", "erased", "done"}
                              <=> at[j] \in {"idle", "erased", "done"},
           \A w \in Workers : worker'[w] = "busy" <=> worker[w] = "busy"
    PROVE  CountersInv'
<1>1. Live' = Live
  BY DEF Live
<1>2. BusyWorkers' = BusyWorkers
  BY DEF BusyWorkers
<1> QED
  BY <1>1, <1>2 DEF CountersInv

\* A job is over.
LEMMA JobEnds ==
    ASSUME at \in [Consumers -> Places], CountersInv, NEW j \in Jobs,
           at[j] = "retired",
           at'[j] = "done", \A i \in Jobs \ {j} : at'[i] = at[i],
           active_jobs' = IF active_jobs > 0 THEN active_jobs - 1 ELSE 0
    PROVE  active_jobs' = Cardinality(Live')
<1>1. Live' = Live \ {j} /\ j \in Live
  BY DEF Live
<1>2. Cardinality(Live') = Cardinality(Live) - 1
  BY <1>1, CounterSets, FS_RemoveElement
<1>3. Cardinality(Live) # 0
  BY <1>1, CounterSets, FS_EmptySet
<1> QED
  BY <1>2, <1>3, CounterSets DEF CountersInv

LEMMA CountersStep ==
    PromiseInv /\ StackInv /\ CountersInv /\ [Next]_vars => CountersInv'
<1> SUFFICES ASSUME PromiseInv, StackInv, CountersInv, [Next]_vars
             PROVE  CountersInv'
    OBVIOUS
<1> USE DEF Goto
<1>0. /\ at \in [Consumers -> Places] /\ PlacesApart /\ Submission /\ TypeInv
      /\ next_helper \in [Regions -> Nat] /\ jobs \subseteq Jobs
      /\ thread \in [Consumers -> Threads \cup {NoThread}]
      /\ worker \in [Workers -> {"asleep", "ready", "busy", "exited"}]
  BY PromiseInvParts DEF TypeInv, Types, TypeOK
<1>c. \A r \in Regions : Caller(r) \in Consumers /\ Caller(r) \notin Jobs
  BY CallerParts
<1>j. \A j \in Jobs : j \in Consumers /\ j[1] \in Regions
  BY JobsAreConsumers, ConsumerParts
<1>1. ASSUME NEW r \in Regions,
             \/ ReserveNothing(r) \/ CallerOwned(r) \/ CallerLeased(r)
             \/ CallerRefused(r) \/ RecruitEnds(r) \/ RegisterHelper(r)
             \/ SubmitFails(r) \/ PublishEnds(r) \/ DirectEnds(r)
             \/ KeepIdleHelpers(r) \/ WaitEnds(r)
      PROVE  CountersInv'
  <2>1. UNCHANGED poolVars
    BY <1>1 DEF ReserveNothing, CallerOwned, CallerLeased, CallerRefused,
       RecruitEnds, RegisterHelper, SubmitFails, PublishEnds, DirectEnds,
       KeepIdleHelpers, WaitEnds
  <2>2. \E p \in {"chunk", "publish", "recruit", "submit", "acquire", "leave", "wait"} :
           at' = [at EXCEPT ![Caller(r)] = p]
    BY <1>1 DEF ReserveNothing, CallerOwned, CallerLeased, CallerRefused, Dispatch,
       RecruitEnds, RegisterHelper, SubmitFails, PublishEnds, DirectEnds,
       KeepIdleHelpers, WaitEnds
  <2>3. \A j \in Jobs : at'[j] = at[j]
    BY <1>0, <1>c, <1>j, <2>2
  <2> QED
    BY <2>1, <2>3, CountersFrame
<1>2. ASSUME NEW c \in Consumers,
             \/ try_acquire(c) \/ NoChunk(c) \/ mark_complete(c) \/ CallBack(c)
             \/ CallBackReturns(c) \/ CallBackThrows(c)
      PROVE  CountersInv'
  <2>1. UNCHANGED poolVars /\ at[c] \in {"acquire", "chunk", "running"}
    BY <1>2 DEF try_acquire, NoChunk, mark_complete, CallBack, CallBackReturns,
       CallBackThrows
  <2>2. \E p \in {"chunk", "retire", "drop", "acquire", "leave", "running"} :
           at' = [at EXCEPT ![c] = p]
    BY <1>2 DEF try_acquire, NoChunk, mark_complete, CallBack, CallBackReturns,
       CallBackThrows, AfterChunks
  <2>3. \A d \in Consumers : at'[d] \in {"idle", "erased", "done"}
                                <=> at[d] \in {"idle", "erased", "done"}
    BY <1>0, <2>1, <2>2
  <2> QED
    BY <1>j, <2>1, <2>3, CountersFrame
<1>3. ASSUME NEW j \in Jobs, DropLease(j) \/ FinishHelper(j) PROVE CountersInv'
  <2>1. /\ UNCHANGED poolVars /\ at[j] \in {"drop", "finish"}
        /\ \E p \in {"finish", "retired"} : at' = [at EXCEPT ![j] = p]
    BY <1>3 DEF DropLease, FinishHelper
  <2>2. \A d \in Consumers : at'[d] \in {"idle", "erased", "done"}
                                <=> at[d] \in {"idle", "erased", "done"}
    BY <1>0, <1>j, <2>1
  <2> QED
    BY <1>j, <2>1, <2>2, CountersFrame
<1>4. ASSUME NEW r \in Regions, NEW t, NEW places,
             \A j \in Jobs : places[j] \in {"idle", "erased", "done"}
                                <=> at[j] \in {"idle", "erased", "done"},
             places \in [Consumers -> Places], EnterRegion(r, t, places)
      PROVE  CountersInv'
  <2>1. /\ UNCHANGED poolVars
        /\ at' = [places EXCEPT ![Caller(r)] =
                    IF Total[r] = 0 THEN "leave" ELSE "reserve"]
    BY <1>4 DEF EnterRegion
  <2>2. \A j \in Jobs : at'[j] = places[j]
    BY <1>4, <1>c, <1>j, <2>1
  <2> QED
    BY <1>4, <2>1, <2>2, CountersFrame
<1>5. ASSUME NEW r \in Regions, ExecuteRoot(r) PROVE CountersInv'
  BY <1>0, <1>4, <1>5 DEF ExecuteRoot
<1>6. ASSUME NEW c \in Consumers, NEW r \in Regions, ExecuteNested(c, r)
      PROVE  CountersInv'
  <2> DEFINE places == [at EXCEPT ![c] = "calling"]
  <2>1. /\ places \in [Consumers -> Places]
        /\ \A j \in Jobs : places[j] \in {"idle", "erased", "done"}
                              <=> at[j] \in {"idle", "erased", "done"}
    BY <1>0, <1>j, <1>6 DEF Places, Consuming, ExecuteNested
  <2>2. EnterRegion(r, thread[c], places)
    BY <1>6 DEF ExecuteNested
  <2> HIDE DEF places
  <2> QED
    BY <1>4, <2>1, <2>2
<1>7. ASSUME NEW r \in Regions, SubmitHelper(r) PROVE CountersInv'
  <2> DEFINE k == <<r, next_helper[r]>>
  <2>1. /\ UNCHANGED busy_workers /\ at[Caller(r)] = "submit"
        /\ active_jobs' = active_jobs + 1
        /\ at' = [at EXCEPT ![Caller(r)] = "publish", ![k] = "queued"]
        /\ NotifyOne
    BY <1>7 DEF SubmitHelper
  <2>2. k \in JobsOf(r) /\ k \in Jobs /\ k \in Consumers /\ k[2] = next_helper[r]
    BY <1>0, <2>1, SubmittedIsJob
  <2>3. at[k] = "idle"
    BY <1>0, <2>2 DEF Submission
  <2> HIDE DEF k
  <2>4. at'[k] = "queued" /\ \A j \in Jobs \ {k} : at'[j] = at[j]
    BY <1>0, <1>c, <1>j, <2>1, <2>2
  <2>5. Live' = Live \cup {k} /\ k \notin Live
    BY <2>2, <2>3, <2>4 DEF Live
  <2>6. Cardinality(Live') = Cardinality(Live) + 1
    BY <2>5, CounterSets, FS_AddElement
  <2>7. \A w \in Workers : worker'[w] = "busy" <=> worker[w] = "busy"
    BY <1>0, <2>1 DEF NotifyOne
  <2>8. BusyWorkers' = BusyWorkers
    BY <2>7 DEF BusyWorkers
  <2> QED
    BY <2>1, <2>6, <2>8 DEF CountersInv
<1>8. ASSUME NEW r \in Regions, CancelIdleHelpers(r) PROVE CountersInv'
  <2> DEFINE gone == QueuedOf(r)
  <2>1. /\ UNCHANGED <<busy_workers, worker>>
        /\ active_jobs' = IF Cardinality(gone) > active_jobs THEN 0
                          ELSE active_jobs - Cardinality(gone)
        /\ at' = [c \in Consumers |->
                    IF c \in gone THEN "erased"
                    ELSE IF c = Caller(r)
                      THEN IF gone = {} THEN "wait" ELSE "discount"
                    ELSE at[c]]
    BY <1>8 DEF CancelIdleHelpers
  <2>2. gone \subseteq Jobs /\ \A j \in gone : at[j] = "queued"
    BY <1>0 DEF PlacesApart, QueuedOf, JobsOf
  <2> HIDE DEF gone
  <2>3. \A j \in Jobs : at'[j] = IF j \in gone THEN "erased" ELSE at[j]
    BY <1>c, <1>j, <2>1
  <2>4. Live' = Live \ gone /\ gone \subseteq Live
    BY <2>2, <2>3 DEF Live
  <2>5. Live \cap gone = gone
    BY <2>4
  <2>6. /\ Cardinality(Live') = Cardinality(Live) - Cardinality(gone)
        /\ Cardinality(gone) <= Cardinality(Live) /\ Cardinality(gone) \in Nat
    <3>1. Cardinality(Live \ gone) = Cardinality(Live) - Cardinality(Live \cap gone)
      BY CounterSets, FS_Difference
    <3>2. IsFiniteSet(gone) /\ Cardinality(gone) <= Cardinality(Live)
      BY <2>4, CounterSets, FS_Subset
    <3> QED
      BY <2>4, <2>5, <3>1, <3>2, FS_CardinalityType
  <2>7. BusyWorkers' = BusyWorkers
    BY <2>1 DEF BusyWorkers
  <2> QED
    BY <2>1, <2>6, <2>7, CounterSets DEF CountersInv
<1>9. ASSUME NEW r \in Regions, DiscountErased(r) PROVE CountersInv'
  <2>1. /\ UNCHANGED poolVars
        /\ at' = [c \in Consumers |-> IF c \in Erased(r) THEN "done"
                                      ELSE IF c = Caller(r) THEN "wait" ELSE at[c]]
    BY <1>9 DEF DiscountErased
  <2>2. \A j \in Jobs : at'[j] = at[j] \/ (at[j] = "erased" /\ at'[j] = "done")
    BY <1>c, <1>j, <2>1 DEF Erased
  <2>3. \A j \in Jobs : at'[j] \in {"idle", "erased", "done"}
                           <=> at[j] \in {"idle", "erased", "done"}
    BY <2>2
  <2> QED
    BY <2>1, <2>3, CountersFrame
<1>10. ASSUME NEW r \in Regions, NEW j \in Jobs, HelpOwnRegion(r, j)
       PROVE  CountersInv'
  <2>1. /\ UNCHANGED <<active_jobs, busy_workers, worker>> /\ j \in jobs
        /\ at' = [at EXCEPT ![j] = "acquire", ![Caller(r)] = "helping"]
    BY <1>10 DEF HelpOwnRegion, QueuedOf
  <2>2. at[j] = "queued" /\ at'[j] = "acquire" /\ \A i \in Jobs \ {j} : at'[i] = at[i]
    BY <1>0, <1>c, <1>j, <2>1 DEF PlacesApart
  <2>3. \A i \in Jobs : at'[i] \in {"idle", "erased", "done"}
                           <=> at[i] \in {"idle", "erased", "done"}
    BY <2>2
  <2> QED
    BY <2>1, <2>3, CountersFrame
<1>11. ASSUME NEW r \in Regions, Leave(r) PROVE CountersInv'
  <2>1. /\ UNCHANGED poolVars
        /\ at' = [d \in Consumers |->
                    IF d = Caller(r) THEN "done"
                    ELSE IF at[d] = "calling" /\ r \in NestedAt(d) THEN "running"
                    ELSE at[d]]
    BY <1>11 DEF Leave
  <2>2. \A j \in Jobs : at'[j] = at[j] \/ (at[j] = "calling" /\ at'[j] = "running")
    BY <1>c, <1>j, <2>1
  <2>3. \A j \in Jobs : at'[j] \in {"idle", "erased", "done"}
                           <=> at[j] \in {"idle", "erased", "done"}
    BY <2>2
  <2> QED
    BY <2>1, <2>3, CountersFrame
<1>12. ASSUME NEW w \in Workers, NEW j \in Jobs, TakeJob(w, j) PROVE CountersInv'
  <2>1. /\ UNCHANGED active_jobs /\ busy_workers' = busy_workers + 1
        /\ worker[w] = "ready" /\ worker' = [worker EXCEPT ![w] = "busy"]
        /\ j \in jobs /\ at' = [at EXCEPT ![j] = "acquire"]
    BY <1>12 DEF TakeJob
  <2>2. at[j] = "queued" /\ at'[j] = "acquire" /\ \A i \in Jobs \ {j} : at'[i] = at[i]
    BY <1>0, <1>j, <2>1 DEF PlacesApart
  <2>3. Live' = Live
    BY <2>2 DEF Live
  <2>4. BusyWorkers' = BusyWorkers \cup {w} /\ w \notin BusyWorkers
    BY <1>0, <2>1 DEF BusyWorkers
  <2>5. Cardinality(BusyWorkers') = Cardinality(BusyWorkers) + 1
    BY <2>4, CounterSets, FS_AddElement
  <2> QED
    BY <2>1, <2>3, <2>5 DEF CountersInv
<1>13. ASSUME NEW j \in Jobs, FinishWorkerJob(j) PROVE CountersInv'
  <2>1. /\ busy_workers' = IF busy_workers > 0 THEN busy_workers - 1 ELSE 0
        /\ worker' = [worker EXCEPT ![thread[j]] = "ready"]
        /\ active_jobs' = IF active_jobs > 0 THEN active_jobs - 1 ELSE 0
        /\ at[j] = "retired" /\ ~RunByCaller(j) /\ at' = [at EXCEPT ![j] = "done"]
    BY <1>13 DEF FinishWorkerJob
  <2>2. at'[j] = "done" /\ \A i \in Jobs \ {j} : at'[i] = at[i]
    BY <1>0, <1>j, <2>1
  <2>3. active_jobs' = Cardinality(Live')
    BY <1>0, <2>1, <2>2, JobEnds
  <2>4. thread[j] \in Workers /\ worker[thread[j]] = "busy"
    BY <2>1, WorkerAlone
  <2>5. BusyWorkers' = BusyWorkers \ {thread[j]} /\ thread[j] \in BusyWorkers
    BY <1>0, <2>1, <2>4 DEF BusyWorkers
  <2>6. /\ Cardinality(BusyWorkers') = Cardinality(BusyWorkers) - 1
        /\ Cardinality(BusyWorkers) # 0
    BY <2>5, CounterSets, FS_RemoveElement, FS_EmptySet
  <2>7. busy_workers' = Cardinality(BusyWorkers')
    BY <2>1, <2>6, CounterSets DEF CountersInv
  <2> QED
    BY <2>3, <2>7 DEF CountersInv
<1>14. ASSUME NEW j \in Jobs, FinishCallerJob(j) PROVE CountersInv'
  <2>1. /\ UNCHANGED <<busy_workers, worker>> /\ at[j] = "retired"
        /\ active_jobs' = IF active_jobs > 0 THEN active_jobs - 1 ELSE 0
        /\ at' = [at EXCEPT ![j] = "done", ![Caller(j[1])] = "wait"]
    BY <1>14 DEF FinishCallerJob
  <2>2. at'[j] = "done" /\ \A i \in Jobs \ {j} : at'[i] = at[i]
    BY <1>0, <1>c, <1>j, <2>1
  <2>3. active_jobs' = Cardinality(Live')
    BY <1>0, <2>1, <2>2, JobEnds
  <2>4. BusyWorkers' = BusyWorkers
    BY <2>1 DEF BusyWorkers
  <2> QED
    BY <2>1, <2>3, <2>4 DEF CountersInv
<1>15. ASSUME UNCHANGED <<active_jobs, busy_workers, at>>,
              \A w \in Workers : worker'[w] = "busy" <=> worker[w] = "busy"
       PROVE  CountersInv'
  BY <1>15, CountersFrame
<1>16. ASSUME NEW r \in Regions, RecruitHelper(r) PROVE CountersInv'
  BY <1>15, <1>16 DEF RecruitHelper
<1>17. ASSUME NEW w \in Workers, Sleep(w) \/ Exit(w) PROVE CountersInv'
  <2>1. \A v \in Workers : worker'[v] = "busy" <=> worker[v] = "busy"
    BY <1>0, <1>17 DEF Sleep, Exit
  <2> QED
    BY <1>15, <1>17, <2>1 DEF Sleep, Exit
<1>18. CASE StopPool
  <2>1. \A v \in Workers : worker'[v] = "busy" <=> worker[v] = "busy"
    BY <1>0, <1>18 DEF StopPool
  <2> QED
    BY <1>15, <1>18, <2>1 DEF StopPool
<1>19. CASE Terminated \/ UNCHANGED vars
  BY <1>15, <1>19 DEF Terminated
<1> QED
  BY <1>1, <1>2, <1>3, <1>5, <1>6, <1>7, <1>8, <1>9, <1>10, <1>11, <1>12, <1>13,
     <1>14, <1>16, <1>17, <1>18, <1>19
  DEF Next, CallerStep, ConsumerStep, HelperStep, WorkerStep

\* The pool's counters are exact for every program: active_jobs is the number of
\* queued and running jobs although workers, waiting callers and cancellation
\* all take jobs out of the queue, and busy_workers the number of workers inside
\* a job although a job may be finished by a thread that is not a worker.
THEOREM PoolCountersProved == Spec => []PoolCountersExact
<1>1. Init => CountersInv
  <2> SUFFICES ASSUME Init PROVE CountersInv
      OBVIOUS
  <2>1. Live = {} /\ BusyWorkers = {} /\ active_jobs = 0 /\ busy_workers = 0
    BY JobsAreConsumers DEF Init, Live, BusyWorkers
  <2> QED
    BY <2>1, FS_EmptySet DEF CountersInv
<1>2. PromiseInv /\ CountersInv => PoolCountersExact
  <2> SUFFICES ASSUME PromiseInv, CountersInv PROVE PoolCountersExact
      OBVIOUS
  <2>1. PlacesApart /\ jobs \subseteq Jobs
    BY PromiseInvParts DEF TypeInv, Types, TypeOK
  <2>2. Live = jobs \cup RunningJobs /\ jobs \cap RunningJobs = {}
    BY <2>1 DEF Live, RunningJobs, PlacesApart, HelpersAt, HelperPlaces, Consuming
  <2>3. IsFiniteSet(jobs) /\ IsFiniteSet(RunningJobs)
    BY <2>2, CounterSets, FS_Subset
  <2>4. /\ Cardinality(jobs) \in Nat /\ Cardinality(RunningJobs) \in Nat
        /\ Cardinality(jobs \cap RunningJobs) = 0
    BY <2>2, <2>3, FS_CardinalityType, FS_EmptySet
  <2>5. Cardinality(Live) = Cardinality(jobs) + Cardinality(RunningJobs)
    <3>1. Cardinality(jobs \cup RunningJobs) =
            Cardinality(jobs) + Cardinality(RunningJobs)
               - Cardinality(jobs \cap RunningJobs)
      BY <2>3, FS_Union, Zenon
    <3> QED
      BY <2>2, <2>4, <3>1
  <2> QED
    BY <2>5 DEF CountersInv, PoolCountersExact, BusyWorkers
<1> QED
  BY <1>1, <1>2, CountersStep, StackProved, PTL DEF Spec

-----------------------------------------------------------------------------
(* Sleeping workers.                                                       *)

Ready == {w \in Workers : worker[w] = "ready"}
Asleep == {w \in Workers : worker[w] = "asleep"}

LEMMA SleeperSets ==
    ASSUME TypeInv
    PROVE  /\ IsFiniteSet(jobs) /\ Cardinality(jobs) \in Nat
           /\ IsFiniteSet(Ready) /\ Cardinality(Ready) \in Nat
<1>1. jobs \subseteq Consumers /\ Ready \subseteq Workers
  BY JobsAreConsumers DEF TypeInv, Types, TypeOK, Ready
<1>2. IsFiniteSet(Ready)
  BY <1>1, WorkersAssumption, FS_Subset
<1> QED
  BY <1>1, <1>2, SubsetOfConsumers, FS_CardinalityType

\* No job arrives, no worker falls asleep and none that is ready goes away.
LEMMA SleeperFrame ==
    ASSUME TypeInv, TypeInv', NoSleeperBesideJobs, jobs' \subseteq jobs,
           Asleep' \subseteq Asleep, Ready \subseteq Ready'
    PROVE  NoSleeperBesideJobs'
<1> SUFFICES ASSUME NEW v \in Asleep'
             PROVE  Cardinality(jobs') <= Cardinality(Ready')
    BY DEF NoSleeperBesideJobs, Asleep, Ready
<1>1. /\ IsFiniteSet(jobs) /\ Cardinality(jobs) \in Nat /\ Cardinality(Ready) \in Nat
      /\ IsFiniteSet(Ready') /\ Cardinality(Ready') \in Nat /\ Cardinality(jobs') \in Nat
  <2>1. (IsFiniteSet(jobs) /\ Cardinality(jobs) \in Nat
         /\ IsFiniteSet(Ready) /\ Cardinality(Ready) \in Nat)'
    BY SleeperSets, PTL
  <2> QED
    BY <2>1, SleeperSets
<1>2. Cardinality(jobs) <= Cardinality(Ready)
  BY DEF NoSleeperBesideJobs, Asleep, Ready
<1>3. Cardinality(jobs') <= Cardinality(jobs)
  BY <1>1, FS_Subset
<1>4. Cardinality(Ready) <= Cardinality(Ready')
  BY <1>1, FS_Subset
<1> QED
  BY <1>1, <1>2, <1>3, <1>4

LEMMA SleeperStep ==
    TypeInv /\ NoSleeperBesideJobs /\ [Next]_vars => NoSleeperBesideJobs'
<1> SUFFICES ASSUME TypeInv, NoSleeperBesideJobs, [Next]_vars
             PROVE  NoSleeperBesideJobs'
    OBVIOUS
<1>t. TypeInv'
  BY TypeStep
<1>0. worker \in [Workers -> {"asleep", "ready", "busy", "exited"}]
  BY DEF TypeInv, Types, TypeOK
<1>1. ASSUME NEW r \in Regions, SubmitHelper(r) PROVE NoSleeperBesideJobs'
  <2> DEFINE k == <<r, next_helper[r]>>
  <2>1. jobs' = jobs \cup {k} /\ NotifyOne
    BY <1>1 DEF SubmitHelper
  <2> HIDE DEF k
  <2>2. CASE Asleep = {}
    <3>1. worker' = worker
      BY <2>1, <2>2 DEF NotifyOne, Asleep
    <3> QED
      BY <2>2, <3>1 DEF NoSleeperBesideJobs, Asleep
  <2>3. CASE Asleep # {}
    <3>1. PICK w \in Workers : /\ worker[w] = "asleep"
                               /\ worker' = [worker EXCEPT ![w] = "ready"]
      BY <2>1, <2>3 DEF NotifyOne, Asleep
    <3>2. Ready' = Ready \cup {w} /\ w \notin Ready
      BY <1>0, <3>1 DEF Ready
    <3>3. Cardinality(Ready') = Cardinality(Ready) + 1
      BY <3>2, SleeperSets, FS_AddElement
    <3>4. Cardinality(jobs') <= Cardinality(jobs) + 1
      <4>1. Cardinality(jobs \cup {k}) =
              IF k \in jobs THEN Cardinality(jobs) ELSE Cardinality(jobs) + 1
        BY SleeperSets, FS_AddElement, Zenon
      <4> QED
        BY <2>1, <4>1, SleeperSets
    <3>5. Cardinality(jobs) <= Cardinality(Ready)
      BY <3>1 DEF NoSleeperBesideJobs, Ready
    <3>6. IsFiniteSet(jobs') /\ Cardinality(jobs') \in Nat
      BY <2>1, SleeperSets, FS_AddElement, FS_CardinalityType
    <3>7. Cardinality(jobs') <= Cardinality(Ready')
      BY <3>3, <3>4, <3>5, <3>6, SleeperSets
    <3> QED
      BY <3>7 DEF NoSleeperBesideJobs, Ready
  <2> QED
    BY <2>2, <2>3
<1>2. ASSUME NEW w \in Workers, NEW j \in Jobs, TakeJob(w, j)
      PROVE  NoSleeperBesideJobs'
  <2>1. /\ j \in jobs /\ jobs' = jobs \ {j}
        /\ worker[w] = "ready" /\ worker' = [worker EXCEPT ![w] = "busy"]
    BY <1>2 DEF TakeJob
  <2> SUFFICES ASSUME NEW v \in Workers, worker'[v] = "asleep"
               PROVE  Cardinality(jobs') <= Cardinality(Ready')
      BY DEF NoSleeperBesideJobs, Ready
  <2>2. worker[v] = "asleep"
    BY <1>0, <2>1
  <2>3. Ready' = Ready \ {w} /\ w \in Ready
    BY <1>0, <2>1 DEF Ready
  <2>4. Cardinality(Ready') = Cardinality(Ready) - 1
    BY <2>3, SleeperSets, FS_RemoveElement
  <2>5. Cardinality(jobs') = Cardinality(jobs) - 1
    BY <2>1, SleeperSets, FS_RemoveElement
  <2>6. Cardinality(jobs) <= Cardinality(Ready)
    BY <2>2 DEF NoSleeperBesideJobs, Ready
  <2> QED
    BY <2>4, <2>5, <2>6, SleeperSets
<1>3. ASSUME NEW w \in Workers, Sleep(w) \/ Exit(w) PROVE NoSleeperBesideJobs'
  <2>1. jobs' = {}
    BY <1>3 DEF Sleep, Exit
  <2>2. Cardinality(jobs') = 0
    BY <2>1, FS_EmptySet
  <2>3. Cardinality(Ready') \in Nat
    <3>1. Ready' \subseteq Workers
      BY DEF Ready
    <3> QED
      BY <3>1, WorkersAssumption, FS_Subset, FS_CardinalityType
  <2>4. Cardinality(jobs') <= Cardinality(Ready')
    BY <2>2, <2>3
  <2> QED
    BY <2>4 DEF NoSleeperBesideJobs, Ready
<1>4. ASSUME NEW j \in Jobs, FinishWorkerJob(j) PROVE NoSleeperBesideJobs'
  <2>1. UNCHANGED jobs /\ worker' = [worker EXCEPT ![thread[j]] = "ready"]
    BY <1>4 DEF FinishWorkerJob
  <2>2. Asleep' \subseteq Asleep /\ Ready \subseteq Ready'
    BY <1>0, <2>1 DEF Asleep, Ready
  <2> QED
    BY <1>t, <2>1, <2>2, SleeperFrame
<1>5. CASE StopPool
  <2>1. UNCHANGED jobs /\ worker' = [w \in Workers |-> IF worker[w] = "asleep"
                                                       THEN "ready" ELSE worker[w]]
    BY <1>5 DEF StopPool
  <2>2. Asleep' \subseteq Asleep /\ Ready \subseteq Ready'
    BY <1>0, <2>1 DEF Asleep, Ready
  <2> QED
    BY <1>t, <2>1, <2>2, SleeperFrame
<1>6. ASSUME UNCHANGED worker, jobs' \subseteq jobs PROVE NoSleeperBesideJobs'
  BY <1>t, <1>6, SleeperFrame DEF Asleep, Ready
<1>7. ASSUME NEW r \in Regions,
             \/ CancelIdleHelpers(r) \/ \E j \in Jobs : HelpOwnRegion(r, j)
      PROVE  NoSleeperBesideJobs'
  BY <1>6, <1>7 DEF CancelIdleHelpers, HelpOwnRegion
<1>8. ASSUME NEW j \in Jobs, FinishCallerJob(j) \/ DropLease(j) \/ FinishHelper(j)
      PROVE  NoSleeperBesideJobs'
  BY <1>6, <1>8 DEF FinishCallerJob, DropLease, FinishHelper
<1>9. ASSUME NEW r \in Regions,
             \/ ExecuteRoot(r) \/ ReserveNothing(r) \/ CallerOwned(r) \/ CallerLeased(r)
             \/ CallerRefused(r) \/ RecruitHelper(r) \/ RecruitEnds(r)
             \/ RegisterHelper(r) \/ SubmitFails(r) \/ PublishEnds(r) \/ DirectEnds(r)
             \/ KeepIdleHelpers(r) \/ DiscountErased(r) \/ WaitEnds(r) \/ Leave(r)
      PROVE  NoSleeperBesideJobs'
  <2>1. UNCHANGED <<worker, jobs>>
    BY <1>9 DEF ExecuteRoot, EnterRegion, ReserveNothing, CallerOwned, CallerLeased,
       CallerRefused, RecruitHelper, RecruitEnds, RegisterHelper, SubmitFails,
       PublishEnds, DirectEnds, KeepIdleHelpers, DiscountErased, WaitEnds, Leave
  <2> QED
    BY <1>6, <2>1
<1>10. ASSUME NEW c \in Consumers, ConsumerStep(c) PROVE NoSleeperBesideJobs'
  <2>1. UNCHANGED <<worker, jobs>>
    BY <1>10 DEF ConsumerStep, try_acquire, NoChunk, CallBack, CallBackReturns,
       CallBackThrows, mark_complete, ExecuteNested, EnterRegion
  <2> QED
    BY <1>6, <2>1
<1>11. CASE Terminated \/ UNCHANGED vars
  BY <1>6, <1>11 DEF Terminated
<1> QED
  BY <1>1, <1>2, <1>3, <1>4, <1>5, <1>7, <1>8, <1>9, <1>10, <1>11
  DEF Next, CallerStep, HelperStep, WorkerStep

\* One notify_one per submission is enough for any number of workers and jobs:
\* no worker sleeps while more jobs are queued than workers are awake to take.
THEOREM NoSleeperProved == Spec => []NoSleeperBesideJobs
<1>1. Init => NoSleeperBesideJobs
  BY DEF Init, NoSleeperBesideJobs
<1>2. TypeInv /\ [Next]_vars => TypeInv'
  BY TypeStep
<1> QED
  BY <1>1, <1>2, TypeInit, SleeperStep, PTL DEF Spec

-----------------------------------------------------------------------------
(* Leases and participants.                                                *)

Publishing == {"publish", "submit"}
Sharing == Publishing \cup Consuming
Engaged == {"queued", "drop"} \cup Consuming

\* The helpers of a session's region that are still to be submitted, that are
\* queued or that consume hold a lease.
HelperLeases(r) ==
    Session[r] # NoSession => \A j \in JobsOf(r) :
        /\ at[Caller(r)] \in Publishing /\ next_helper[r] <= j[2]
              /\ j[2] <= helper_count[r] => holds[j]
        /\ at[j] \in Engaged => holds[j]

\* The caller's thread was inside a callback of the session already.
Enclosed(r) ==
    \E d \in Consumers :
        /\ Beside(d, Caller(r)) /\ Level(d) < Level(Caller(r))
        /\ at[d] = "calling" /\ Session[d[1]] = Session[r]
Covered(r) == holds[Caller(r)] \/ Enclosed(r)

\* Unless the caller holds a lease or its thread is a participant anyway, it
\* recruits no helper and runs sequentially.
CallerLeases(r) ==
    Session[r] # NoSession =>
        /\ at[Caller(r)] = "recruit" =>
             Covered(r) \/ (helper_count[r] = 0 /\ \A j \in JobsOf(r) : ~holds[j])
        /\ at[Caller(r)] \in Sharing => Covered(r) \/ direct[r]

ParticipantInv == \A r \in Regions : HelperLeases(r) /\ CallerLeases(r)

LEMMA ParticipantInit == Init => ParticipantInv
<1> SUFFICES ASSUME Init, NEW r \in Regions PROVE HelperLeases(r) /\ CallerLeases(r)
    BY DEF ParticipantInv
<1>1. \A c \in Consumers : at[c] = "idle"
  BY DEF Init
<1>2. Caller(r) \in Consumers /\ JobsOf(r) \subseteq Consumers
  BY CallerParts, JobsAreConsumers DEF JobsOf
<1> QED
  BY <1>1, <1>2 DEF HelperLeases, CallerLeases, Publishing, Sharing, Engaged, Consuming

\* What a region's helpers may do without a lease being missed.
LEMMA HelperLeasesKept ==
    ASSUME NEW r \in Regions, HelperLeases(r),
           \A j \in JobsOf(r) :
              /\ at'[j] \in Engaged => at[j] \in Engaged /\ (holds[j] => holds'[j])
              /\ at'[Caller(r)] \in Publishing /\ next_helper'[r] <= j[2] =>
                   /\ at[Caller(r)] \in Publishing /\ next_helper[r] <= j[2]
                   /\ helper_count'[r] = helper_count[r]
                   /\ holds[j] => holds'[j]
    PROVE  HelperLeases(r)'
BY DEF HelperLeases

\* ... and its caller.
LEMMA CallerLeasesKept ==
    ASSUME NEW r \in Regions, CallerLeases(r),
           at'[Caller(r)] = "recruit" =>
              /\ at[Caller(r)] = "recruit" /\ helper_count'[r] = helper_count[r]
              /\ \A j \in JobsOf(r) : holds'[j] => holds[j],
           at'[Caller(r)] \in Sharing =>
              at[Caller(r)] \in Sharing /\ (direct[r] => direct'[r]),
           at'[Caller(r)] \in Sharing \cup {"recruit"} /\ Covered(r) => Covered(r)'
    PROVE  CallerLeases(r)'
BY DEF CallerLeases

\* A participant stays one while its callback goes on.
LEMMA CoveredKept ==
    ASSUME NEW r \in Regions, Covered(r),
           \A d \in Consumers : at[d] = "calling" =>
              at'[d] = "calling" /\ thread'[d] = thread[d],
           thread'[Caller(r)] = thread[Caller(r)],
           holds[Caller(r)] => holds'[Caller(r)]
    PROVE  Covered(r)'
<1>1. CASE holds[Caller(r)]
  BY <1>1 DEF Covered
<1>2. CASE Enclosed(r)
  <2>1. PICK d \in Consumers :
           /\ Beside(d, Caller(r)) /\ Level(d) < Level(Caller(r))
           /\ at[d] = "calling" /\ Session[d[1]] = Session[r]
    BY <1>2 DEF Enclosed
  <2>2. Beside(d, Caller(r))' /\ at'[d] = "calling"
    BY <2>1, CallerParts DEF Beside
  <2>3. Enclosed(r)'
    BY <2>1, <2>2 DEF Enclosed
  <2> QED
    BY <2>3 DEF Covered
<1> QED
  BY <1>1, <1>2 DEF Covered

\* Steps that start no helper, recruit none and leave the callers' leases alone.
LEMMA ParticipantFrame ==
    ASSUME ParticipantInv, UNCHANGED <<helper_count, next_helper, direct>>,
           \A d \in Consumers : at[d] = "calling" =>
              at'[d] = "calling" /\ thread'[d] = thread[d],
           \A j \in Jobs :
              /\ at'[j] \in Engaged => at[j] \in Engaged /\ (holds[j] => holds'[j])
              /\ at'[Caller(j[1])] \in Publishing /\ next_helper[j[1]] <= j[2]
                   => (holds[j] => holds'[j])
              /\ at'[Caller(j[1])] = "recruit" => (holds'[j] => holds[j]),
           \A r \in Regions :
              /\ at'[Caller(r)] \in Publishing => at[Caller(r)] \in Publishing
              /\ at'[Caller(r)] = "recruit" => at[Caller(r)] = "recruit"
              /\ at'[Caller(r)] \in Sharing => at[Caller(r)] \in Sharing
              /\ at'[Caller(r)] \in Sharing \cup {"recruit"} =>
                   /\ thread'[Caller(r)] = thread[Caller(r)]
                   /\ holds[Caller(r)] => holds'[Caller(r)]
    PROVE  ParticipantInv'
<1> SUFFICES ASSUME NEW r \in Regions PROVE HelperLeases(r)' /\ CallerLeases(r)'
    BY DEF ParticipantInv
<1>0. \A j \in JobsOf(r) : j \in Jobs /\ j[1] = r
  BY DEF JobsOf
<1>1. HelperLeases(r)'
  BY <1>0, HelperLeasesKept DEF ParticipantInv
<1>2. at'[Caller(r)] \in Sharing \cup {"recruit"} /\ Covered(r) => Covered(r)'
  BY CoveredKept
<1>3. CallerLeases(r)'
  BY <1>0, <1>2, CallerLeasesKept DEF ParticipantInv
<1> QED
  BY <1>1, <1>3

\* One consumer goes on and keeps its lease.
LEMMA ParticipantGoto ==
    ASSUME ParticipantInv, at \in [Consumers -> Places], NEW c \in Consumers, NEW p,
           at' = [at EXCEPT ![c] = p], at[c] # "calling", p # "recruit",
           c \in Jobs => (p \in Engaged => at[c] \in Engaged),
           c \notin Jobs => /\ p \in Publishing => at[c] \in Publishing
                            /\ p \in Sharing => at[c] \in Sharing,
           UNCHANGED <<helper_count, next_helper, direct, thread, holds>>
    PROVE  ParticipantInv'
<1>1. at'[c] = p /\ \A d \in Consumers \ {c} : at'[d] = at[d]
  OBVIOUS
<1>2. \A d \in Consumers : at[d] = "calling" =>
         at'[d] = "calling" /\ thread'[d] = thread[d]
  BY <1>1
<1>3. \A j \in Jobs : at'[j] \in Engaged => at[j] \in Engaged
  BY <1>1, JobsAreConsumers
<1>4. \A r \in Regions :
         /\ at'[Caller(r)] \in Publishing => at[Caller(r)] \in Publishing
         /\ at'[Caller(r)] = "recruit" => at[Caller(r)] = "recruit"
         /\ at'[Caller(r)] \in Sharing => at[Caller(r)] \in Sharing
  BY <1>1, CallerParts
<1> QED
  BY <1>2, <1>3, <1>4, ParticipantFrame

\* What happens inside one region leaves the others alone, but for callbacks
\* that execute it.
LEMMA ParticipantOne ==
    ASSUME ParticipantInv, NEW r \in Regions, HelperLeases(r)', CallerLeases(r)',
           \A d \in Consumers : at[d] = "calling" =>
              at'[d] = "calling" /\ thread'[d] = thread[d],
           \A c \in Consumers : c[1] # r =>
              /\ at'[c] = at[c] \/ (at[c] = "running" /\ at'[c] = "calling")
              /\ holds'[c] <=> holds[c]
              /\ thread'[c] = thread[c],
           \A q \in Regions \ {r} :
              /\ helper_count'[q] = helper_count[q]
              /\ next_helper'[q] = next_helper[q]
              /\ direct'[q] <=> direct[q]
    PROVE  ParticipantInv'
<1> SUFFICES ASSUME NEW q \in Regions \ {r} PROVE HelperLeases(q)' /\ CallerLeases(q)'
    BY DEF ParticipantInv
<1>0. /\ HelperLeases(q) /\ CallerLeases(q)
      /\ Caller(q) \in Consumers /\ Caller(q)[1] # r
      /\ \A j \in JobsOf(q) : j \in Consumers /\ j[1] # r
  BY CallerParts, JobsAreConsumers DEF ParticipantInv, JobsOf
<1>1. /\ at'[Caller(q)] \in Publishing => at[Caller(q)] \in Publishing
      /\ at'[Caller(q)] = "recruit" => at[Caller(q)] = "recruit"
      /\ at'[Caller(q)] \in Sharing => at[Caller(q)] \in Sharing
  BY <1>0 DEF Publishing, Sharing, Consuming
<1>2. \A j \in JobsOf(q) : /\ at'[j] \in Engaged => at[j] \in Engaged
                           /\ holds'[j] <=> holds[j]
  BY <1>0 DEF Engaged, Consuming
<1>3. HelperLeases(q)'
  BY <1>0, <1>1, <1>2, HelperLeasesKept
<1>4. Covered(q) => Covered(q)'
  BY <1>0, CoveredKept
<1>5. CallerLeases(q)'
  BY <1>0, <1>1, <1>2, <1>4, CallerLeasesKept
<1> QED
  BY <1>3, <1>5

\* A region is entered.
LEMMA ParticipantEnter ==
    ASSUME PromiseInv, ParticipantInv, NEW r \in Regions, NEW t,
           NEW places \in [Consumers -> Places],
           \A c \in Consumers : places[c] # at[c]
               => places[c] = "calling" /\ at[c] = "running",
           EnterRegion(r, t, places)
    PROVE  ParticipantInv'
<1>0. /\ at \in [Consumers -> Places] /\ Submission
      /\ helper_count \in [Regions -> Nat]
      /\ thread \in [Consumers -> Threads \cup {NoThread}]
  BY PromiseInvParts DEF TypeInv, Types, TypeOK
<1>1. /\ at[Caller(r)] = "idle"
      /\ thread' = [thread EXCEPT ![Caller(r)] = t]
      /\ at' = [places EXCEPT ![Caller(r)] =
                  IF Total[r] = 0 THEN "leave" ELSE "reserve"]
      /\ UNCHANGED <<next_helper, direct, holds>>
      /\ helper_count' =
           [helper_count EXCEPT ![r] =
              IF effective_budget(r) > 1
                THEN recommended_helper_count(r, effective_budget(r)) ELSE 0]
  BY DEF EnterRegion
<1>2. /\ Caller(r) \in Consumers /\ Caller(r)[1] = r
      /\ \A j \in JobsOf(r) : j \in Consumers /\ j # Caller(r)
  BY CallerParts, JobsAreConsumers DEF JobsOf
<1>3. /\ at'[Caller(r)] \in {"leave", "reserve"}
      /\ \A c \in Consumers \ {Caller(r)} :
            at'[c] = places[c] /\ thread'[c] = thread[c]
      /\ \A q \in Regions \ {r} : helper_count'[q] = helper_count[q]
  BY <1>0, <1>1, <1>2
<1>4. \A j \in JobsOf(r) : at[j] = "idle"
  BY <1>0, <1>1, NoneSubmitted DEF Submission
<1>5. \A j \in JobsOf(r) : at'[j] = "idle"
  BY <1>2, <1>3, <1>4
<1>6. HelperLeases(r)'
  BY <1>3, <1>5 DEF HelperLeases, Publishing, Engaged, Consuming
<1>7. CallerLeases(r)'
  BY <1>3 DEF CallerLeases, Sharing, Publishing, Consuming
<1>8. \A d \in Consumers : at[d] = "calling" =>
         at'[d] = "calling" /\ thread'[d] = thread[d]
  BY <1>1, <1>3
<1>9. \A c \in Consumers : c[1] # r =>
         /\ at'[c] = at[c] \/ (at[c] = "running" /\ at'[c] = "calling")
         /\ holds'[c] <=> holds[c]
         /\ thread'[c] = thread[c]
  BY <1>1, <1>2, <1>3
<1> QED
  BY <1>1, <1>3, <1>6, <1>7, <1>8, <1>9, ParticipantOne

\* The caller asks for its lease, or does not need one, or gets none.
LEMMA ParticipantCaller ==
    ASSUME PromiseInv, StackInv, ParticipantInv, NEW r \in Regions,
           CallerOwned(r) \/ CallerLeased(r) \/ CallerRefused(r)
    PROVE  ParticipantInv'
<1>0. /\ at \in [Consumers -> Places] /\ Submission /\ LeaseInv
      /\ helper_count \in [Regions -> Nat] /\ holds \in [Consumers -> BOOLEAN]
  BY PromiseInvParts DEF TypeInv, Types, TypeOK, PromiseInv, PoolInv
<1>1. /\ at[Caller(r)] = "reserve" /\ at' = [at EXCEPT ![Caller(r)] = "recruit"]
      /\ UNCHANGED <<next_helper, direct, thread>>
  BY DEF CallerOwned, CallerLeased, CallerRefused, Goto
<1>2. /\ Caller(r) \in Consumers /\ Caller(r)[1] = r
      /\ \A j \in JobsOf(r) : j \in Consumers /\ j # Caller(r)
  BY CallerParts, JobsAreConsumers DEF JobsOf
<1>3. at'[Caller(r)] = "recruit" /\ \A c \in Consumers \ {Caller(r)} : at'[c] = at[c]
  BY <1>0, <1>1, <1>2
<1>4. \A c \in Consumers \ {Caller(r)} : holds'[c] = holds[c]
  BY <1>0, <1>2 DEF CallerOwned, CallerLeased, CallerRefused, reserve
<1>5. \A q \in Regions \ {r} : helper_count'[q] = helper_count[q]
  BY <1>0 DEF CallerOwned, CallerLeased, CallerRefused
<1>6. HelperLeases(r)'
  <2>1. HelperLeases(r)
    BY DEF ParticipantInv
  <2> QED
    BY <1>2, <1>3, <1>4, <2>1 DEF HelperLeases, Publishing
<1>7. ASSUME CallerOwned(r) PROVE CallerLeases(r)'
  <2>1. PICK d \in Consumers :
           /\ thread[d] = thread[Caller(r)] /\ Session[d[1]] = Session[r]
           /\ at[d] \in {"running", "calling"}
    BY <1>7 DEF CallerOwned, current_thread_owns_participant
  <2>2. thread[Caller(r)] # NoThread
    BY <1>1, <1>2 DEF StackInv, Threaded, Off
  <2>3. d # Caller(r) /\ Beside(Caller(r), d) /\ Beside(d, Caller(r))
    BY <1>1, <2>1, <2>2 DEF Beside
  <2>4. Level(d) < Level(Caller(r))
    BY <1>1, <1>2, <2>3, Uppermost DEF StackInv, Suspended
  <2>5. at[d] = "calling"
    BY <1>2, <2>1, <2>3, <2>4 DEF StackInv, Stacked, Suspended
  <2>6. Beside(d, Caller(r))' /\ at'[d] = "calling"
    BY <1>1, <1>3, <2>3, <2>5 DEF Beside
  <2>7. Covered(r)'
    BY <2>1, <2>4, <2>6 DEF Covered, Enclosed
  <2> QED
    BY <1>3, <2>7 DEF CallerLeases, Sharing, Publishing, Consuming
<1>8. ASSUME CallerLeased(r) PROVE CallerLeases(r)'
  <2>1. holds'[Caller(r)]
    BY <1>0, <1>2, <1>8 DEF CallerLeased, reserve
  <2> QED
    BY <1>3, <2>1 DEF CallerLeases, Covered, Sharing, Publishing, Consuming
<1>9. ASSUME CallerRefused(r) PROVE CallerLeases(r)'
  <2>1. helper_count'[r] = 0 /\ UNCHANGED holds
    BY <1>0, <1>9 DEF CallerRefused
  <2>2. \A j \in JobsOf(r) : ~holds[j]
    BY <1>0, <1>1 DEF LeaseInv, RecruitedInOrder
  <2> QED
    BY <1>3, <2>1, <2>2 DEF CallerLeases, Sharing, Publishing, Consuming
<1>10. CallerLeases(r)'
  BY <1>7, <1>8, <1>9
<1>11. /\ \A d \in Consumers : at[d] = "calling" =>
             at'[d] = "calling" /\ thread'[d] = thread[d]
       /\ \A c \in Consumers : c[1] # r =>
             /\ at'[c] = at[c] /\ (holds'[c] <=> holds[c]) /\ thread'[c] = thread[c]
  BY <1>1, <1>2, <1>3, <1>4
<1> QED
  BY <1>1, <1>5, <1>6, <1>10, <1>11, ParticipantOne

\* A helper is recruited.
LEMMA ParticipantRecruit ==
    ASSUME PromiseInv, ParticipantInv, NEW r \in Regions, RecruitHelper(r)
    PROVE  ParticipantInv'
<1>0. TypeInv /\ holds \in [Consumers -> BOOLEAN]
  BY PromiseInvParts DEF TypeInv, Types, TypeOK
<1> DEFINE k == <<r, Recruited(r) + 1>>
<1>1. /\ at[Caller(r)] = "recruit" /\ Recruited(r) < helper_count[r]
      /\ holds' = [holds EXCEPT ![k] = TRUE]
      /\ UNCHANGED <<at, thread, helper_count, next_helper, direct>>
  BY DEF RecruitHelper, reserve
<1>2. k \in Consumers /\ k \in JobsOf(r)
  BY <1>0, <1>1, RecruitIsJob
<1> HIDE DEF k
<1>3. /\ \A c \in Consumers : holds[c] => holds'[c]
      /\ \A c \in Consumers : c # k => (holds'[c] <=> holds[c])
  BY <1>0, <1>1, <1>2
<1>4. k[1] = r /\ Caller(r) \in Consumers /\ \A j \in JobsOf(r) : j \in Consumers
  BY <1>2, CallerParts, JobsAreConsumers DEF JobsOf
<1>5. helper_count[r] # 0
  BY <1>0, <1>1, RecruitedType DEF TypeInv, Types, TypeOK
<1>6. Session[r] # NoSession
  BY <1>0, <1>1, ThreadsAssumption DEF TypeInv, HelpersExist
<1>7. HelperLeases(r) /\ Covered(r)
  BY <1>0, <1>1, <1>5, <1>6 DEF ParticipantInv, CallerLeases, TypeInv, HelpersExist
<1>8. HelperLeases(r)'
  BY <1>1, <1>3, <1>4, <1>7, HelperLeasesKept
<1>9. Covered(r)'
  BY <1>1, <1>3, <1>4, <1>7, CoveredKept
<1>10. CallerLeases(r)'
  BY <1>9 DEF CallerLeases
<1> QED
  BY <1>1, <1>3, <1>4, <1>8, <1>10, ParticipantOne

\* Recruiting ends: only helpers with a lease will be submitted, and without any
\* the caller runs sequentially.
LEMMA ParticipantDispatch ==
    ASSUME PromiseInv, ParticipantInv, NEW r \in Regions, RecruitEnds(r)
    PROVE  ParticipantInv'
<1>0. /\ TypeInv /\ at \in [Consumers -> Places] /\ Submission /\ LeaseInv
      /\ helper_count \in [Regions -> Nat] /\ direct \in [Regions -> BOOLEAN]
      /\ Recruited(r) \in Nat /\ thread_count \in Nat \ {0}
  BY PromiseInvParts, RecruitedType, ThreadCountType
  DEF TypeInv, Types, TypeOK, PromiseInv, PoolInv
<1> DEFINE limit == Recruited(r)
           place == IF limit = 0 THEN "chunk" ELSE "publish"
<1>1. /\ at[Caller(r)] = "recruit" /\ at' = [at EXCEPT ![Caller(r)] = place]
      /\ helper_count' = [helper_count EXCEPT ![r] = helpers_to_submit(r, limit)]
      /\ direct' = [direct EXCEPT ![r] = limit = 0]
      /\ UNCHANGED <<next_helper, thread, holds>>
  BY DEF RecruitEnds, Dispatch, Goto
<1>2. Session[r] # NoSession
  BY <1>0, <1>1, ThreadsAssumption DEF TypeInv, HelpersExist
<1>3. helpers_to_submit(r, limit) <= limit
  BY <1>0, <1>2, UsefulType DEF helpers_to_submit, AtLeastOne, Smaller
<1>4. \A j \in JobsOf(r) : holds[j] <=> j[2] <= limit
  BY <1>0, <1>1 DEF LeaseInv, RecruitedInOrder
<1>5. limit # 0 => \E j \in JobsOf(r) : holds[j]
  <2>1. {j \in JobsOf(r) : holds[j]} = {} => limit = 0
    BY FS_EmptySet DEF Recruited
  <2> QED
    BY <2>1
<1>6. limit \in Nat
  BY <1>0
<1> HIDE DEF limit
<1>7. /\ Caller(r) \in Consumers /\ Caller(r)[1] = r
      /\ \A j \in JobsOf(r) : j \in Consumers /\ j # Caller(r) /\ j[2] \in Nat
  BY CallerParts, JobsAreConsumers, ConsumerParts DEF JobsOf
<1>8. at'[Caller(r)] = place /\ \A c \in Consumers \ {Caller(r)} : at'[c] = at[c]
  BY <1>0, <1>1, <1>7
<1>9. /\ helper_count'[r] = helpers_to_submit(r, limit) /\ direct'[r] = (limit = 0)
      /\ \A q \in Regions \ {r} : /\ helper_count'[q] = helper_count[q]
                                  /\ direct'[q] = direct[q]
  BY <1>0, <1>1
<1>10. helpers_to_submit(r, limit) \in Nat
  BY <1>0, <1>6, SubmitBounds DEF TypeInv, Types, TypeOK
<1>11. \A j \in JobsOf(r) : at'[j] = "idle"
  BY <1>0, <1>1, <1>7, <1>8, NoneSubmitted DEF Submission
<1>12. HelperLeases(r)'
  <2>1. \A j \in JobsOf(r) : j[2] <= helper_count'[r] => holds'[j]
    BY <1>1, <1>3, <1>4, <1>6, <1>7, <1>9, <1>10
  <2> QED
    BY <1>11, <2>1 DEF HelperLeases, Engaged, Consuming
<1>13. CallerLeases(r)'
  <2>1. CASE limit = 0
    BY <1>8, <1>9, <2>1 DEF CallerLeases
  <2>2. CASE limit # 0
    <3>1. Covered(r)
      BY <1>1, <1>2, <1>5, <2>2 DEF ParticipantInv, CallerLeases
    <3>2. Covered(r)'
      BY <1>1, <1>8, <3>1, CoveredKept
    <3> QED
      BY <3>2 DEF CallerLeases
  <2> QED
    BY <2>1, <2>2
<1>14. /\ \A d \in Consumers : at[d] = "calling" =>
             at'[d] = "calling" /\ thread'[d] = thread[d]
       /\ \A c \in Consumers : c[1] # r =>
             /\ at'[c] = at[c] /\ (holds'[c] <=> holds[c]) /\ thread'[c] = thread[c]
  BY <1>1, <1>7, <1>8
<1> QED
  BY <1>1, <1>9, <1>12, <1>13, <1>14, ParticipantOne

\* A helper is submitted with its lease.
LEMMA ParticipantSubmit ==
    ASSUME PromiseInv, ParticipantInv, NEW r \in Regions, SubmitHelper(r)
    PROVE  ParticipantInv'
<1>0. /\ TypeInv /\ at \in [Consumers -> Places] /\ Submission
      /\ next_helper \in [Regions -> Nat] /\ helper_count \in [Regions -> Nat]
  BY PromiseInvParts DEF TypeInv, Types, TypeOK
<1> DEFINE k == <<r, next_helper[r]>>
<1>1. /\ at[Caller(r)] = "submit"
      /\ at' = [at EXCEPT ![Caller(r)] = "publish", ![k] = "queued"]
      /\ next_helper' = [next_helper EXCEPT ![r] = @ + 1]
      /\ UNCHANGED <<helper_count, direct, thread, holds>>
  BY DEF SubmitHelper
<1>2. k \in JobsOf(r) /\ k \in Consumers /\ k[2] = next_helper[r] /\ k[1] = r
  BY <1>0, <1>1, SubmittedIsJob
<1> HIDE DEF k
<1>3. /\ Caller(r) \in Consumers /\ Caller(r)[1] = r /\ Caller(r) # k
      /\ \A j \in JobsOf(r) : j \in Consumers /\ j # Caller(r) /\ j[2] \in Nat
  BY <1>2, CallerParts, JobsAreConsumers, ConsumerParts DEF JobsOf
<1>4. /\ at'[k] = "queued" /\ at'[Caller(r)] = "publish"
      /\ \A c \in Consumers \ {k, Caller(r)} : at'[c] = at[c]
      /\ next_helper'[r] = next_helper[r] + 1
      /\ \A q \in Regions \ {r} : next_helper'[q] = next_helper[q]
  BY <1>0, <1>1, <1>2, <1>3
<1>5. HelperLeases(r) /\ CallerLeases(r)
  BY DEF ParticipantInv
<1>6. next_helper[r] <= helper_count[r]
  BY <1>0, <1>1 DEF TypeInv, HelpersExist
<1>7. Session[r] # NoSession => holds[k]
  BY <1>0, <1>1, <1>2, <1>5, <1>6 DEF HelperLeases, Publishing
<1>8. HelperLeases(r)'
  <2> SUFFICES ASSUME Session[r] # NoSession, NEW j \in JobsOf(r)
               PROVE  /\ next_helper'[r] <= j[2] /\ j[2] <= helper_count[r] => holds[j]
                      /\ at'[j] \in Engaged => holds[j]
      BY <1>1 DEF HelperLeases
  <2>1. CASE j = k
    BY <1>7, <2>1
  <2>2. CASE j # k
    <3>1. at'[j] = at[j]
      BY <1>3, <1>4, <2>2
    <3>2. next_helper'[r] <= j[2] => next_helper[r] <= j[2]
      BY <1>0, <1>3, <1>4
    <3>3. at[Caller(r)] \in Publishing
      BY <1>1 DEF Publishing
    <3> QED
      BY <1>5, <3>1, <3>2, <3>3 DEF HelperLeases
  <2> QED
    BY <2>1, <2>2
<1>9. \A d \in Consumers : at[d] = "calling" =>
         at'[d] = "calling" /\ thread'[d] = thread[d]
  <2>1. at[k] = "idle"
    BY <1>0, <1>2, <1>3 DEF Submission
  <2> QED
    BY <1>1, <1>4, <2>1
<1>10. CallerLeases(r)'
  <2>1. Covered(r) => Covered(r)'
    BY <1>1, <1>9, CoveredKept
  <2> QED
    BY <1>1, <1>4, <1>5, <2>1, CallerLeasesKept DEF Sharing, Publishing
<1>11. \A c \in Consumers : c[1] # r =>
          /\ at'[c] = at[c] /\ (holds'[c] <=> holds[c]) /\ thread'[c] = thread[c]
  BY <1>1, <1>2, <1>3, <1>4
<1> QED
  BY <1>1, <1>4, <1>8, <1>9, <1>10, <1>11, ParticipantOne

\* A submission fails: the lease of its helper goes back.
LEMMA ParticipantFail ==
    ASSUME PromiseInv, ParticipantInv, NEW r \in Regions, SubmitFails(r)
    PROVE  ParticipantInv'
<1>0. /\ TypeInv /\ at \in [Consumers -> Places] /\ Submission
      /\ next_helper \in [Regions -> Nat]
  BY PromiseInvParts DEF TypeInv, Types, TypeOK
<1> DEFINE k == <<r, next_helper[r]>>
<1>1. /\ at[Caller(r)] = "submit" /\ at' = [at EXCEPT ![Caller(r)] = "acquire"]
      /\ release({k}) /\ UNCHANGED <<helper_count, next_helper, direct, thread>>
  BY DEF SubmitFails, Goto
<1>2. k \in JobsOf(r) /\ k \in Consumers /\ k[2] = next_helper[r] /\ k[1] = r
  BY <1>0, <1>1, SubmittedIsJob
<1> HIDE DEF k
<1>3. /\ Caller(r) \in Consumers /\ Caller(r)[1] = r /\ Caller(r) # k
      /\ \A j \in JobsOf(r) : j \in Consumers /\ j # Caller(r) /\ j[2] \in Nat
  BY <1>2, CallerParts, JobsAreConsumers, ConsumerParts DEF JobsOf
<1>4. at'[Caller(r)] = "acquire" /\ \A c \in Consumers \ {Caller(r)} : at'[c] = at[c]
  BY <1>0, <1>1, <1>3
<1>5. \A c \in Consumers : c # k => (holds'[c] <=> holds[c])
  BY <1>0, <1>1, ReleaseHolds
<1>6. at[k] = "idle"
  BY <1>0, <1>2, <1>3 DEF Submission
<1>7. HelperLeases(r)'
  <2>1. HelperLeases(r)
    BY DEF ParticipantInv
  <2>2. \A j \in JobsOf(r) : at'[j] \in Engaged =>
           at[j] \in Engaged /\ (holds[j] => holds'[j])
    BY <1>3, <1>4, <1>5, <1>6 DEF Engaged, Consuming
  <2>3. at'[Caller(r)] \notin Publishing
    BY <1>4 DEF Publishing
  <2> QED
    BY <2>1, <2>2, <2>3, HelperLeasesKept
<1>8. \A d \in Consumers : at[d] = "calling" =>
         at'[d] = "calling" /\ thread'[d] = thread[d]
  BY <1>1, <1>4
<1>9. CallerLeases(r)'
  <2>1. Covered(r) => Covered(r)'
    BY <1>1, <1>3, <1>5, <1>8, CoveredKept
  <2>2. CallerLeases(r)
    BY DEF ParticipantInv
  <2>3. at'[Caller(r)] # "recruit" /\ at[Caller(r)] \in Sharing
    BY <1>1, <1>4 DEF Sharing, Publishing
  <2> QED
    BY <1>1, <2>1, <2>2, <2>3, CallerLeasesKept
<1>10. \A c \in Consumers : c[1] # r =>
          /\ at'[c] = at[c] /\ (holds'[c] <=> holds[c]) /\ thread'[c] = thread[c]
  BY <1>1, <1>2, <1>3, <1>4, <1>5
<1> QED
  BY <1>1, <1>7, <1>8, <1>9, <1>10, ParticipantOne

\* A region is left: nobody above the callback that executed it remains.
LEMMA ParticipantLeave ==
    ASSUME PromiseInv, StackInv, ParticipantInv, NEW r \in Regions, Leave(r)
    PROVE  ParticipantInv'
<1>0. /\ TypeInv /\ at \in [Consumers -> Places] /\ Departure
      /\ thread \in [Consumers -> Threads \cup {NoThread}]
  BY PromiseInvParts DEF TypeInv, Types, TypeOK
<1>p. PICK c, S : c = Caller(r) /\ S = {c} \cup {j \in JobsOf(r) : at[j] = "idle"}
  OBVIOUS
<1>1. /\ at[c] = "leave" /\ thread' = [thread EXCEPT ![c] = NoThread]
      /\ at' = [d \in Consumers |->
                  IF d = c THEN "done"
                  ELSE IF at[d] = "calling" /\ r \in NestedAt(d) THEN "running"
                  ELSE at[d]]
      /\ release(S)
      /\ UNCHANGED <<helper_count, next_helper, direct>>
  BY <1>p DEF Leave
<1>2. /\ c \in Consumers
      /\ \A q \in Regions : Caller(q) \in Consumers /\ (q # r => Caller(q) # c)
      /\ \A q \in Regions : \A j \in JobsOf(q) :
            j \in Consumers /\ j # c /\ j \in Jobs /\ j[1] = q
  BY <1>p, CallerParts, CallersDiffer, JobsAreConsumers DEF JobsOf
<1>3. /\ at'[c] = "done"
      /\ \A d \in Consumers \ {c} :
            at'[d] = at[d] \/ (at[d] = "calling" /\ at'[d] = "running")
      /\ \A d \in Consumers \ {c} : thread'[d] = thread[d]
  BY <1>0, <1>1, <1>2
<1>4. \A d \in Consumers : holds'[d] <=> holds[d] /\ d \notin S
  BY <1>0, <1>1, ReleaseHolds
<1>5. ASSUME NEW q \in Regions, q # r
      PROVE  /\ \A j \in JobsOf(q) : holds'[j] <=> holds[j]
             /\ holds'[Caller(q)] <=> holds[Caller(q)]
  <2>1. Caller(q) \notin S /\ \A j \in JobsOf(q) : j \notin S
    BY <1>p, <1>2, <1>5, CallerParts DEF JobsOf
  <2> QED
    BY <1>2, <1>4, <2>1
<1>6. ASSUME NEW q \in Regions, q # r, Covered(q) PROVE Covered(q)'
  <2>1. CASE holds[Caller(q)]
    BY <1>5, <1>6, <2>1 DEF Covered
  <2>2. CASE Enclosed(q)
    <3>1. PICK d \in Consumers :
             /\ Beside(d, Caller(q)) /\ Level(d) < Level(Caller(q))
             /\ at[d] = "calling" /\ Session[d[1]] = Session[q]
      BY <2>2 DEF Enclosed
    <3>2. r \notin NestedAt(d)
      <4>1. Caller(q) \in Consumers \ {Caller(r)}
        BY <1>p, <1>2, <1>6
      <4>2. r \in NestedAt(d) => Level(Caller(q)) <= Level(d)
        BY <1>1, <1>p, <3>1, <4>1, LeavesCallback
      <4> QED
        BY <1>2, <3>1, <4>2, LevelType
    <3>3. d # c /\ at'[d] = "calling"
      BY <1>1, <3>1, <3>2
    <3>4. Beside(d, Caller(q))'
      BY <1>2, <1>3, <1>6, <3>1, <3>3 DEF Beside
    <3>5. Enclosed(q)'
      BY <3>1, <3>3, <3>4 DEF Enclosed
    <3> QED
      BY <3>5 DEF Covered
  <2> QED
    BY <1>6, <2>1, <2>2 DEF Covered
<1>7. ASSUME NEW q \in Regions, q # r PROVE HelperLeases(q)' /\ CallerLeases(q)'
  <2>0. HelperLeases(q) /\ CallerLeases(q)
    BY DEF ParticipantInv
  <2>1. /\ at'[Caller(q)] \in Publishing => at[Caller(q)] \in Publishing
        /\ at'[Caller(q)] = "recruit" => at[Caller(q)] = "recruit"
        /\ at'[Caller(q)] \in Sharing => at[Caller(q)] \in Sharing
    BY <1>2, <1>3, <1>7 DEF Publishing, Sharing, Consuming
  <2>2. \A j \in JobsOf(q) : at'[j] \in Engaged => at[j] \in Engaged
    BY <1>2, <1>3 DEF Engaged, Consuming
  <2>3. HelperLeases(q)'
    BY <1>1, <1>5, <1>7, <2>0, <2>1, <2>2, HelperLeasesKept
  <2>4. CallerLeases(q)'
    BY <1>1, <1>5, <1>6, <1>7, <2>0, <2>1, CallerLeasesKept
  <2> QED
    BY <2>3, <2>4
<1>8. HelperLeases(r)' /\ CallerLeases(r)'
  <2>1. \A j \in JobsOf(r) : at'[j] \notin Engaged
    <3>1. \A j \in JobsOf(r) : at[j] \notin OutstandingAt
      BY <1>0, <1>1, <1>p DEF Departure
    <3>2. \A j \in JobsOf(r) : at'[j] = at[j]
      BY <1>2, <1>3, <3>1 DEF OutstandingAt, Consuming
    <3> QED
      BY <3>1, <3>2 DEF OutstandingAt, Engaged, Consuming
  <2>2. at'[Caller(r)] \notin Sharing \cup Publishing \cup {"recruit"}
    BY <1>3, <1>p DEF Sharing, Publishing, Consuming
  <2> QED
    BY <2>1, <2>2 DEF HelperLeases, CallerLeases
<1> QED
  BY <1>7, <1>8 DEF ParticipantInv

LEMMA ParticipantStep ==
    PromiseInv /\ StackInv /\ ParticipantInv /\ [Next]_vars => ParticipantInv'
<1> SUFFICES ASSUME PromiseInv, StackInv, ParticipantInv, [Next]_vars
             PROVE  ParticipantInv'
    OBVIOUS
<1> USE DEF Goto
<1>0. /\ at \in [Consumers -> Places] /\ PlacesApart /\ Submission /\ TypeInv
      /\ next_helper \in [Regions -> Nat] /\ jobs \subseteq Jobs
      /\ thread \in [Consumers -> Threads \cup {NoThread}]
  BY PromiseInvParts DEF TypeInv, Types, TypeOK
<1>c. \A r \in Regions : Caller(r) \in Consumers /\ Caller(r) \notin Jobs
  BY CallerParts
<1>j. \A j \in Jobs : /\ j \in Consumers /\ j[1] \in Regions /\ j[2] \in Nat
                      /\ j \in JobsOf(j[1])
  BY JobsAreConsumers, ConsumerParts
<1>1. ASSUME NEW r \in Regions,
             \/ RegisterHelper(r) \/ PublishEnds(r) \/ DirectEnds(r)
             \/ KeepIdleHelpers(r) \/ WaitEnds(r)
      PROVE  ParticipantInv'
  <2>1. /\ UNCHANGED <<helper_count, next_helper, direct, thread, holds>>
        /\ \/ /\ at[Caller(r)] = "publish"
              /\ \E p \in {"submit", "acquire"} : at' = [at EXCEPT ![Caller(r)] = p]
           \/ /\ at[Caller(r)] \in {"chunk", "retire", "wait"}
              /\ \E p \in {"leave", "wait"} : at' = [at EXCEPT ![Caller(r)] = p]
    BY <1>1 DEF RegisterHelper, PublishEnds, DirectEnds, KeepIdleHelpers, WaitEnds
  <2> QED
    BY <1>0, <1>c, <2>1, ParticipantGoto DEF Publishing, Sharing, Consuming
<1>2. ASSUME NEW c \in Consumers,
             \/ try_acquire(c) \/ NoChunk(c) \/ mark_complete(c) \/ CallBack(c)
             \/ CallBackReturns(c) \/ CallBackThrows(c)
      PROVE  ParticipantInv'
  <2>1. /\ UNCHANGED <<helper_count, next_helper, direct, thread, holds>>
        /\ at[c] \in {"acquire", "chunk", "running"}
    BY <1>2 DEF try_acquire, NoChunk, mark_complete, CallBack, CallBackReturns,
       CallBackThrows
  <2>2. \E p \in {"chunk", "retire", "drop", "acquire", "leave", "running"} :
           at' = [at EXCEPT ![c] = p]
    BY <1>2 DEF try_acquire, NoChunk, mark_complete, CallBack, CallBackReturns,
       CallBackThrows, AfterChunks
  <2> QED
    BY <1>0, <2>1, <2>2, ParticipantGoto DEF Publishing, Sharing, Engaged, Consuming
<1>3. ASSUME NEW j \in Jobs, FinishHelper(j) PROVE ParticipantInv'
  <2>1. /\ UNCHANGED <<helper_count, next_helper, direct, thread, holds>>
        /\ at[j] = "finish" /\ at' = [at EXCEPT ![j] = "retired"]
    BY <1>3 DEF FinishHelper
  <2> QED
    BY <1>0, <1>j, <2>1, ParticipantGoto DEF Publishing, Sharing, Engaged, Consuming
<1>4. ASSUME NEW j \in Jobs, DropLease(j) PROVE ParticipantInv'
  <2>1. /\ UNCHANGED <<helper_count, next_helper, direct, thread>> /\ release({j})
        /\ at[j] = "drop" /\ at' = [at EXCEPT ![j] = "finish"]
    BY <1>4 DEF DropLease
  <2>2. /\ at'[j] = "finish" /\ \A d \in Consumers \ {j} : at'[d] = at[d]
        /\ \A r \in Regions : at'[Caller(r)] = at[Caller(r)]
    BY <1>0, <1>c, <1>j, <2>1
  <2>3. \A d \in Consumers \ {j} : holds'[d] <=> holds[d]
    BY <1>0, <2>1, ReleaseHolds
  <2>4. ~(next_helper[j[1]] <= j[2]) /\ (holds'[j] => holds[j])
    BY <1>0, <1>j, <2>1, ReleaseHolds DEF Submission
  <2>5. \A d \in Consumers : at[d] = "calling" =>
           at'[d] = "calling" /\ thread'[d] = thread[d]
    BY <2>1, <2>2
  <2>6. \A i \in Jobs :
           /\ at'[i] \in Engaged => at[i] \in Engaged /\ (holds[i] => holds'[i])
           /\ next_helper[i[1]] <= i[2] => (holds[i] => holds'[i])
           /\ holds'[i] => holds[i]
    BY <1>j, <2>2, <2>3, <2>4 DEF Engaged, Consuming
  <2>7. \A r \in Regions : holds'[Caller(r)] <=> holds[Caller(r)]
    BY <1>c, <2>3
  <2> QED
    BY <2>1, <2>2, <2>5, <2>6, <2>7, ParticipantFrame
<1>5. ASSUME UNCHANGED <<helper_count, next_helper, direct, holds>>,
             \A d \in Consumers : at[d] = "calling" =>
                at'[d] = "calling" /\ thread'[d] = thread[d],
             \A j \in Jobs : at'[j] \in Engaged => at[j] \in Engaged,
             \A r \in Regions :
                /\ thread'[Caller(r)] = thread[Caller(r)]
                /\ \/ at'[Caller(r)] = at[Caller(r)]
                   \/ at'[Caller(r)] \notin Sharing \cup {"recruit"}
      PROVE  ParticipantInv'
  <2>1. \A r \in Regions :
           /\ at'[Caller(r)] \in Publishing => at[Caller(r)] \in Publishing
           /\ at'[Caller(r)] = "recruit" => at[Caller(r)] = "recruit"
           /\ at'[Caller(r)] \in Sharing => at[Caller(r)] \in Sharing
    BY <1>5 DEF Sharing
  <2> QED
    BY <1>5, <2>1, ParticipantFrame
<1>6. ASSUME NEW j \in Jobs, FinishWorkerJob(j) \/ FinishCallerJob(j)
      PROVE  ParticipantInv'
  <2> DEFINE c == Caller(j[1])
  <2>1. /\ UNCHANGED <<helper_count, next_helper, direct, holds>> /\ at[j] = "retired"
        /\ thread' = [thread EXCEPT ![j] = NoThread]
        /\ \/ at' = [at EXCEPT ![j] = "done"]
           \/ at[c] = "helping" /\ at' = [at EXCEPT ![j] = "done", ![c] = "wait"]
    BY <1>6 DEF FinishWorkerJob, FinishCallerJob, RunByCaller
  <2>2. c \in Consumers /\ c # j
    BY <1>c, <1>j
  <2> HIDE DEF c
  <2>3. /\ at'[j] = "done"
        /\ \A d \in Consumers \ {j} : /\ thread'[d] = thread[d]
                                      /\ \/ at'[d] = at[d]
                                         \/ at[d] = "helping" /\ at'[d] = "wait"
    BY <1>0, <1>j, <2>1, <2>2
  <2>4. \A d \in Consumers : at[d] = "calling" =>
           at'[d] = "calling" /\ thread'[d] = thread[d]
    BY <2>1, <2>3
  <2>5. \A i \in Jobs : at'[i] \in Engaged => at[i] \in Engaged
    BY <1>j, <2>3 DEF Engaged, Consuming
  <2>6. \A r \in Regions :
           /\ thread'[Caller(r)] = thread[Caller(r)]
           /\ \/ at'[Caller(r)] = at[Caller(r)]
              \/ at'[Caller(r)] \notin Sharing \cup {"recruit"}
    BY <1>c, <2>3 DEF Sharing, Publishing, Consuming
  <2> QED
    BY <1>5, <2>1, <2>4, <2>5, <2>6
<1>7. ASSUME NEW j \in Jobs,
             \/ \E w \in Workers : TakeJob(w, j)
             \/ \E r \in Regions : HelpOwnRegion(r, j)
      PROVE  ParticipantInv'
  <2>1. /\ UNCHANGED <<helper_count, next_helper, direct, holds>> /\ j \in jobs
        /\ \E t : thread' = [thread EXCEPT ![j] = t]
        /\ \/ at' = [at EXCEPT ![j] = "acquire"]
           \/ \E r \in Regions :
                /\ at[Caller(r)] = "wait"
                /\ at' = [at EXCEPT ![j] = "acquire", ![Caller(r)] = "helping"]
    BY <1>7 DEF TakeJob, HelpOwnRegion, QueuedOf
  <2>2. at[j] = "queued"
    BY <1>0, <2>1 DEF PlacesApart
  <2>3. /\ at'[j] = "acquire"
        /\ \A d \in Consumers \ {j} : /\ thread'[d] = thread[d]
                                      /\ \/ at'[d] = at[d]
                                         \/ at[d] = "wait" /\ at'[d] = "helping"
    BY <1>0, <1>c, <1>j, <2>1
  <2>4. \A d \in Consumers : at[d] = "calling" =>
           at'[d] = "calling" /\ thread'[d] = thread[d]
    BY <2>2, <2>3
  <2>5. \A i \in Jobs : at'[i] \in Engaged => at[i] \in Engaged
    BY <1>j, <2>2, <2>3 DEF Engaged, Consuming
  <2>6. \A r \in Regions :
           /\ thread'[Caller(r)] = thread[Caller(r)]
           /\ \/ at'[Caller(r)] = at[Caller(r)]
              \/ at'[Caller(r)] \notin Sharing \cup {"recruit"}
    BY <1>c, <2>3 DEF Sharing, Publishing, Consuming
  <2> QED
    BY <1>5, <2>1, <2>4, <2>5, <2>6
<1>8. ASSUME NEW r \in Regions, DiscountErased(r) PROVE ParticipantInv'
  <2>1. /\ UNCHANGED <<helper_count, next_helper, direct, holds, thread>>
        /\ at[Caller(r)] = "discount"
        /\ at' = [c \in Consumers |-> IF c \in Erased(r) THEN "done"
                                      ELSE IF c = Caller(r) THEN "wait" ELSE at[c]]
    BY <1>8 DEF DiscountErased
  <2>2. \A c \in Consumers : \/ at'[c] = at[c]
                             \/ at[c] = "erased" /\ at'[c] = "done"
                             \/ at[c] = "discount" /\ at'[c] = "wait"
    BY <2>1 DEF Erased
  <2>3. \A d \in Consumers : at[d] = "calling" =>
           at'[d] = "calling" /\ thread'[d] = thread[d]
    BY <2>1, <2>2
  <2>4. \A i \in Jobs : at'[i] \in Engaged => at[i] \in Engaged
    BY <1>j, <2>2 DEF Engaged, Consuming
  <2>5. \A q \in Regions : \/ at'[Caller(q)] = at[Caller(q)]
                           \/ at'[Caller(q)] \notin Sharing \cup {"recruit"}
    BY <1>c, <2>2 DEF Sharing, Publishing, Consuming
  <2> QED
    BY <1>5, <2>1, <2>3, <2>4, <2>5
<1>9. ASSUME NEW r \in Regions, CancelIdleHelpers(r) PROVE ParticipantInv'
  <2> DEFINE gone == QueuedOf(r)
  <2>1. /\ UNCHANGED <<helper_count, next_helper, direct, thread>>
        /\ at[Caller(r)] = "retire" /\ release(gone)
        /\ at' = [c \in Consumers |->
                    IF c \in gone THEN "erased"
                    ELSE IF c = Caller(r)
                      THEN IF gone = {} THEN "wait" ELSE "discount"
                    ELSE at[c]]
    BY <1>9 DEF CancelIdleHelpers
  <2>2. gone \subseteq Jobs /\ \A j \in gone : at[j] = "queued" /\ j[1] = r
    BY <1>0 DEF PlacesApart, QueuedOf, JobsOf
  <2> HIDE DEF gone
  <2>3. \A c \in Consumers : holds'[c] <=> holds[c] /\ c \notin gone
    BY <1>0, <2>1, ReleaseHolds
  <2>4. /\ \A c \in Consumers : \/ at'[c] = at[c] /\ c \notin gone
                                \/ c \in gone /\ at'[c] = "erased"
                                \/ at[c] = "retire" /\ at'[c] \in {"wait", "discount"}
        /\ at'[Caller(r)] \in {"wait", "discount"}
    BY <1>c, <2>1, <2>2
  <2>5. \A d \in Consumers : at[d] = "calling" =>
           at'[d] = "calling" /\ thread'[d] = thread[d]
    BY <2>1, <2>2, <2>4
  <2>6. \A j \in Jobs :
           /\ at'[j] \in Engaged => at[j] \in Engaged /\ (holds[j] => holds'[j])
           /\ at'[Caller(j[1])] \in Publishing => (holds[j] => holds'[j])
           /\ holds'[j] => holds[j]
    <3> SUFFICES ASSUME NEW j \in Jobs
                 PROVE  /\ at'[j] \in Engaged =>
                             at[j] \in Engaged /\ (holds[j] => holds'[j])
                        /\ at'[Caller(j[1])] \in Publishing => (holds[j] => holds'[j])
                        /\ holds'[j] => holds[j]
        OBVIOUS
    <3>1. CASE j \in gone
      BY <1>j, <2>1, <2>2, <2>3, <2>4, <3>1 DEF Engaged, Consuming, Publishing
    <3>2. CASE j \notin gone
      BY <1>j, <2>3, <2>4, <3>2 DEF Engaged, Consuming
    <3> QED
      BY <3>1, <3>2
  <2>7. \A q \in Regions :
           /\ Caller(q) \notin gone
           /\ at'[Caller(q)] \in Publishing => at[Caller(q)] \in Publishing
           /\ at'[Caller(q)] = "recruit" => at[Caller(q)] = "recruit"
           /\ at'[Caller(q)] \in Sharing => at[Caller(q)] \in Sharing
    BY <1>c, <2>2, <2>4 DEF Sharing, Publishing, Consuming
  <2>8. \A q \in Regions : holds[Caller(q)] => holds'[Caller(q)]
    BY <1>c, <2>3, <2>7
  <2> QED
    BY <2>1, <2>5, <2>6, <2>7, <2>8, ParticipantFrame
<1>10. ASSUME NEW r \in Regions, ReserveNothing(r) PROVE ParticipantInv'
  <2>1. /\ at[Caller(r)] = "reserve" /\ Session[r] = NoSession
        /\ \E p : at' = [at EXCEPT ![Caller(r)] = p]
        /\ \E n : helper_count' = [helper_count EXCEPT ![r] = n]
        /\ \E b : direct' = [direct EXCEPT ![r] = b]
        /\ UNCHANGED <<next_helper, thread, holds>>
    BY <1>10 DEF ReserveNothing, Dispatch
  <2>2. HelperLeases(r)' /\ CallerLeases(r)'
    BY <2>1 DEF HelperLeases, CallerLeases
  <2>3. \A c \in Consumers \ {Caller(r)} : at'[c] = at[c]
    BY <1>0, <1>c, <2>1
  <2>4. \A q \in Regions \ {r} : /\ helper_count'[q] = helper_count[q]
                                 /\ next_helper'[q] = next_helper[q]
                                 /\ direct'[q] = direct[q]
    BY <1>0, <2>1 DEF TypeInv, Types, TypeOK
  <2>5. \A d \in Consumers : at[d] = "calling" =>
           at'[d] = "calling" /\ thread'[d] = thread[d]
    BY <2>1, <2>3
  <2>6. \A c \in Consumers : c[1] # r =>
           /\ at'[c] = at[c] /\ (holds'[c] <=> holds[c]) /\ thread'[c] = thread[c]
    BY <2>1, <2>3, CallerParts
  <2> QED
    BY <2>2, <2>4, <2>5, <2>6, ParticipantOne
<1>11. ASSUME NEW r \in Regions, ExecuteRoot(r) PROVE ParticipantInv'
  BY <1>0, <1>11, ParticipantEnter DEF ExecuteRoot
<1>12. ASSUME NEW c \in Consumers, NEW r \in Regions, ExecuteNested(c, r)
       PROVE  ParticipantInv'
  <2> DEFINE places == [at EXCEPT ![c] = "calling"]
  <2>1. /\ places \in [Consumers -> Places]
        /\ \A d \in Consumers : places[d] # at[d]
              => places[d] = "calling" /\ at[d] = "running"
    BY <1>0, <1>12 DEF Places, Consuming, ExecuteNested
  <2>2. EnterRegion(r, thread[c], places)
    BY <1>12 DEF ExecuteNested
  <2> HIDE DEF places
  <2> QED
    BY <2>1, <2>2, ParticipantEnter
<1>13. ASSUME UNCHANGED <<helper_count, next_helper, direct, holds, at, thread>>
       PROVE  ParticipantInv'
  BY <1>5, <1>13
<1>14. ASSUME NEW w \in Workers, Sleep(w) \/ Exit(w) PROVE ParticipantInv'
  BY <1>13, <1>14 DEF Sleep, Exit
<1>15. CASE StopPool \/ Terminated \/ UNCHANGED vars
  BY <1>13, <1>15 DEF StopPool, Terminated
<1> QED
  BY <1>1, <1>2, <1>3, <1>4, <1>6, <1>7, <1>8, <1>9, <1>10, <1>11, <1>12, <1>14,
     <1>15, ParticipantCaller, ParticipantRecruit, ParticipantDispatch,
     ParticipantSubmit, ParticipantFail, ParticipantLeave
  DEF Next, CallerStep, ConsumerStep, HelperStep, WorkerStep

LEMMA LeastNatural ==
    ASSUME NEW T, T \subseteq Nat, T # {}
    PROVE  \E x \in T : \A y \in T : x <= y
<1>1. \E x \in T : \A y \in T : ~(<<y, x>> \in OpToRel(<, Nat))
  BY NatLessThanWellFounded, WFMin
<1>2. PICK x \in T : \A y \in T : ~(<<y, x>> \in OpToRel(<, Nat))
  BY <1>1
<1>3. ASSUME NEW y \in T PROVE x <= y
  <2>1. x \in Nat /\ y \in Nat
    OBVIOUS
  <2>2. ~(y < x)
    BY <1>2, <2>1 DEF OpToRel
  <2> QED
    BY <2>1, <2>2
<1> QED
  BY <1>3

\* The lowest consumer of a thread that is in a callback of the session holds a
\* lease, or it is a caller in the sequential fallback.
LEMMA ParticipantCovered ==
    ASSUME PromiseInv, StackInv, ParticipantInv, NEW s \in Sessions,
           NEW t \in Participants(s)
    PROVE  \E c \in Consumers :
              /\ thread[c] = t
              /\ c \in Holders(s) \/ \E r \in Unleased(s) : c = Caller(r)
<1> DEFINE K == {c \in Consumers : /\ thread[c] = t /\ at[c] \in {"running", "calling"}
                                   /\ Session[c[1]] = s}
<1>1. K # {} /\ t # NoThread /\ s # NoSession
  BY ThreadsAssumption DEF Participants, current_thread_owns_participant
<1>2. PICK c \in K : \A d \in K : Level(c) <= Level(d)
  <2> DEFINE L == {Level(d) : d \in K}
  <2>1. L \subseteq Nat /\ L # {}
    BY <1>1, LevelType
  <2>2. PICK x \in L : \A y \in L : x <= y
    BY <2>1, LeastNatural
  <2>3. PICK d \in K : x = Level(d)
    BY <2>2
  <2> QED
    BY <2>2, <2>3
<1>3. /\ c \in Consumers /\ thread[c] = t /\ at[c] \in {"running", "calling"}
      /\ Session[c[1]] = s
  OBVIOUS
<1>4. c[1] \in Regions /\ HelperLeases(c[1]) /\ CallerLeases(c[1])
  BY <1>3, ConsumerParts DEF ParticipantInv
<1>5. CASE c \in Jobs
  <2>1. holds[c]
    BY <1>1, <1>3, <1>4, <1>5, ConsumerParts DEF HelperLeases, Engaged, Consuming
  <2> QED
    BY <1>3, <2>1 DEF Holders
<1>6. CASE c \notin Jobs
  <2>1. c = Caller(c[1])
    BY <1>3, <1>6, ConsumerParts
  <2>2. ASSUME NEW d \in Consumers, Beside(d, c), Level(d) < Level(c),
               at[d] = "calling", Session[d[1]] = s
        PROVE  FALSE
    <3>1. d \in K
      BY <1>3, <2>2 DEF Beside
    <3> QED
      BY <1>2, <1>3, <2>2, <3>1, LevelType
  <2>3. ~Enclosed(c[1])
    BY <1>3, <2>1, <2>2 DEF Enclosed
  <2>4. holds[c] \/ direct[c[1]]
    BY <1>1, <1>3, <1>4, <2>1, <2>3
    DEF CallerLeases, Covered, Sharing, Consuming
  <2>5. CASE holds[c]
    BY <1>3, <2>5 DEF Holders
  <2>6. CASE direct[c[1]] /\ ~holds[c]
    <3>1. Parent[c[1]] = NoRegion \/ Session[Parent[c[1]]] # s
      <4> SUFFICES ASSUME Parent[c[1]] # NoRegion, Session[Parent[c[1]]] = s
                   PROVE  FALSE
          OBVIOUS
      <4>1. PICK d \in Consumers : /\ at[d] = "calling" /\ c[1] \in NestedAt(d)
                                   /\ Beside(d, c)
        BY <1>1, <1>3, <1>4, <2>1 DEF StackInv, Invoked
      <4>2. Level(d) < Level(c) /\ d[1] = Parent[c[1]]
        BY <1>4, <2>1, <4>1, NestedLevel
      <4> QED
        BY <2>2, <4>1, <4>2
    <3>2. c[1] \in Unleased(s)
      BY <1>3, <1>4, <2>1, <2>6, <3>1 DEF Unleased, Consuming
    <3> QED
      BY <1>3, <2>1, <3>2
  <2> QED
    BY <2>4, <2>5, <2>6
<1> QED
  BY <1>5, <1>6

\* Nested regions do not oversubscribe a session for any program, any nesting and
\* any number of workers: the threads inside its callbacks are at most its leases
\* plus the callers in the sequential fallback of an exhausted session.
THEOREM ParticipantsProved == Spec => []ParticipantsAreLeased
<1>1. PromiseInv /\ StackInv /\ ParticipantInv => ParticipantsAreLeased
  <2> SUFFICES ASSUME PromiseInv, StackInv, ParticipantInv, NEW s \in Sessions
               PROVE  Cardinality(Participants(s))
                        <= leased_workers[s] + Cardinality(Unleased(s))
      BY DEF ParticipantsAreLeased
  <2> DEFINE F == {c \in Consumers : \E r \in Unleased(s) : c = Caller(r)}
             H == Holders(s)
             T == Participants(s)
             U == Unleased(s)
             S == {c \in H \cup F : thread[c] \in T}
  <2>1. U \subseteq Regions /\ F \subseteq Consumers /\ H \subseteq Consumers
    BY DEF Unleased, Holders
  <2>2. /\ leased_workers[s] = Cardinality(H)
        /\ IsFiniteSet(U) /\ IsFiniteSet(F) /\ IsFiniteSet(H)
    BY <2>1, SubsetOfConsumers, RegionsAssumption, FS_Subset
    DEF PromiseInv, PoolInv, LeasesCounted
  <2>3. \A t \in T : \E c \in S : thread[c] = t
    BY ParticipantCovered DEF Holders
  <2>4. \A c \in F : \E r \in U : c = Caller(r)
    OBVIOUS
  <2>5. \A r \in U : Caller(r) \in F
    BY <2>1, CallerParts
  <2>6. \A c \in S : thread[c] \in T
    OBVIOUS
  <2>7. S \subseteq H \cup F
    OBVIOUS
  <2> HIDE DEF F, H, T, U, S
  <2>8. Cardinality(F) <= Cardinality(U)
    <3>1. [r \in U |-> Caller(r)] \in Surjection(U, F)
      BY <2>4, <2>5 DEF Surjection
    <3> QED
      BY <2>2, <3>1, FS_Surjection
  <2>9. /\ IsFiniteSet(H \cup F)
        /\ Cardinality(H \cup F) = Cardinality(H) + Cardinality(F)
                                     - Cardinality(H \cap F)
    BY <2>2, FS_Union, Zenon
  <2>10. IsFiniteSet(S) /\ Cardinality(S) <= Cardinality(H \cup F)
    BY <2>7, <2>9, FS_Subset
  <2>11. IsFiniteSet(T) /\ Cardinality(T) <= Cardinality(S)
    <3>1. [c \in S |-> thread[c]] \in Surjection(S, T)
      BY <2>3, <2>6 DEF Surjection
    <3> QED
      BY <2>10, <3>1, FS_Surjection
  <2>12. /\ Cardinality(H) \in Nat /\ Cardinality(F) \in Nat /\ Cardinality(U) \in Nat
         /\ Cardinality(T) \in Nat /\ Cardinality(S) \in Nat
         /\ Cardinality(H \cap F) \in Nat
    BY <2>2, <2>10, <2>11, FS_CardinalityType, FS_Intersection
  <2> QED
    <3>1. Cardinality(T) <= Cardinality(H) + Cardinality(U)
      BY <2>8, <2>9, <2>10, <2>11, <2>12
    <3> QED
      BY <2>2, <3>1 DEF T, U
<1> QED
  BY <1>1, ParticipantInit, ParticipantStep, StackProved, PTL DEF Spec
=============================================================================
