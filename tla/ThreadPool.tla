----------------------------- MODULE ThreadPool -----------------------------
(***************************************************************************)
(* Parallel regions on the shared thread pool:                             *)
(* ThreadPoolEngine::execute (backend.hpp), ThreadPool's worker loop, job  *)
(* queue and execute_visible_work_helping (thread_pool.cpp),               *)
(* SchedulerVisibleWork (work_chunk.hpp) and the worker leases of          *)
(* NestedExecutionSession.                                                 *)
(*                                                                         *)
(* A region is executed by consumers: <<r, 0>> is the thread that called   *)
(* execute, <<r, k>> with k > 0 is the helper job k.  A consumer is also   *)
(* a stack frame: a thread may be in several of them, because the callback *)
(* of a region can execute a nested region and because a caller that waits *)
(* for its helpers runs those of its helper jobs that are still queued.    *)
(* Only the innermost frame of a thread can take a step; the others are at *)
(* "calling" or "helping".                                                 *)
(*                                                                         *)
(* Critical sections of the pool mutex and of a region's completion mutex  *)
(* are single steps, and so are the compare-exchange loops.  A helper's    *)
(* completion is waited for with a predicate under its mutex, hence the    *)
(* guard remaining = 0.                                                    *)
(***************************************************************************)
EXTENDS Naturals, FiniteSets

CONSTANTS
    Workers,                \* the threads of the pool
    Roots,                  \* other threads, which start regions
    Regions,                \* the regions of the program
    Sessions,               \* the NestedExecutionSessions
    NoThread, NoRegion, NoSession,
    Parent,                 \* Parent[r]: the region whose callback executes r
    CallIndex,              \* ... when it is called with this index
    Owner,                  \* Owner[r]: the thread that executes a root region
    Total,                  \* BackendExecutionRequest::total
    chunk_size,             \* BackendExecutionRequest::chunk_size
    concurrency_budget,     \* BackendExecutionRequest::concurrency_budget
    Session,                \* BackendExecutionRequest::nested_session
    total_budget,           \* NestedExecutionSession::total_budget
    Throwing,               \* the <<region, index>> whose callback may throw
    CancelIdle,             \* regions with thread_pool_cancel_idle_helpers
    min_chunks_per_helper   \* thread_pool_min_chunks_per_helper

Threads == Workers \cup Roots

thread_count == Cardinality(Workers)

\* At most thread_count - 1 helpers are ever recruited for a region.
Consumers == Regions \X (0 .. thread_count - 1)
Jobs == {c \in Consumers : c[2] > 0}
Caller(r) == <<r, 0>>
JobsOf(r) == {j \in Jobs : j[1] = r}

ASSUME WorkersAssumption == IsFiniteSet(Workers) /\ Workers # {}
ASSUME RegionsAssumption == IsFiniteSet(Regions) /\ NoRegion \notin Regions
ASSUME ThreadsAssumption ==
    NoThread \notin Threads /\ Workers \cap Roots = {} /\ NoSession \notin Sessions
ASSUME ProgramAssumption ==
    /\ Parent \in [Regions -> Regions \cup {NoRegion}]
    /\ CallIndex \in [Regions -> Nat]
    /\ Owner \in [Regions -> Roots]
    /\ Total \in [Regions -> Nat]
    /\ chunk_size \in [Regions -> Nat]
    /\ concurrency_budget \in [Regions -> Nat]
    /\ Session \in [Regions -> Sessions \cup {NoSession}]
    /\ total_budget \in [Sessions -> Nat \ {0}]
    /\ CancelIdle \subseteq Regions
    /\ min_chunks_per_helper \in Nat \ {0}

\* A region is one execution of a loop, so no region is executed inside itself.
ASSUME NestingAssumption ==
    \E depth \in [Regions -> 0 .. Cardinality(Regions)] :
        \A r \in Regions : Parent[r] # NoRegion => depth[Parent[r]] < depth[r]

-----------------------------------------------------------------------------
(* Sizes.                                                                  *)

Smaller(m, n) == IF m <= n THEN m ELSE n
AtLeastOne(n) == IF n = 0 THEN 1 ELSE n

effective_budget(r) ==
    AtLeastOne(Smaller(concurrency_budget[r],
                       Smaller(AtLeastOne(Total[r]), thread_count)))

\* Without a chunk size, about four chunks per worker.
grain(r) ==
    IF chunk_size[r] = 0
      THEN 1 + (Total[r] - 1) \div (4 * effective_budget(r))
      ELSE chunk_size[r]

total_chunks(r) ==
    IF Total[r] = 0 THEN 0 ELSE 1 + (Total[r] - 1) \div grain(r)

\* A helper is worth its while when it finds enough chunks.
useful_helper_limit(r) ==
    IF total_chunks(r) <= 1 THEN 0
    ELSE (total_chunks(r) - 1) \div min_chunks_per_helper

-----------------------------------------------------------------------------
VARIABLES
    (* ThreadPool, guarded by its mutex *)
    jobs,                   \* the queued helper jobs
    ticket,                 \* their order in the deque
    next_ticket,
    active_jobs,
    busy_workers,
    stop,
    worker,                 \* "asleep", "ready", "busy" or "exited"
    (* SchedulerVisibleWork *)
    next_offset,
    completed_iterations,
    cancelled,              \* first_exception is set and cancelled_ is TRUE
    (* execute and execute_visible_work_helping *)
    helper_count,           \* helper_limit, then helper_count
    next_helper,            \* the submission loop's counter
    remaining,              \* CompletionState::remaining
    direct,                 \* the region runs sequentially, without chunks
    outcome,                \* "none", "returned" or "threw"
    (* consumers *)
    at,                     \* where the consumer is
    thread,                 \* the thread it runs on
    position,               \* index of the current or the next callback
    chunk_end,              \* end of its chunk
    chunk_begin,
    holds,                  \* it holds a lease: caller_lease, helper_lifetime
    (* NestedExecutionSession *)
    leased_workers,
    maximum_leased_workers,
    (* history *)
    visits                  \* visits[r][i]: calls of the callback for i

poolVars    == <<jobs, ticket, next_ticket, active_jobs, busy_workers, stop,
                 worker>>
workVars    == <<next_offset, completed_iterations, cancelled>>
regionVars  == <<helper_count, next_helper, remaining, direct, outcome>>
chunkVars   == <<position, chunk_end, chunk_begin>>
sessionVars == <<holds, leased_workers, maximum_leased_workers>>
vars == <<poolVars, workVars, regionVars, at, thread, chunkVars, sessionVars,
          visits>>

\* A caller passes execute, reserve, recruit, publish, submit, then consumes
\* and retires its helpers; a helper is queued, consumes, drops its lease,
\* reports (finish) and is retired by the pool.
Consuming == {"acquire", "chunk", "running", "calling"}
CallerPlaces == {"reserve", "recruit", "publish", "submit", "retire",
                 "discount", "wait", "helping", "leave"}
HelperPlaces == {"queued", "erased", "drop", "finish", "retired"}
Places == {"idle", "done"} \cup Consuming \cup CallerPlaces \cup HelperPlaces

Indices(r) == 0 .. Total[r] - 1

Init ==
    /\ jobs = {}
    /\ ticket = [j \in Jobs |-> 0]
    /\ next_ticket = 1
    /\ active_jobs = 0
    /\ busy_workers = 0
    /\ stop = FALSE
    /\ worker = [w \in Workers |-> "ready"]
    /\ next_offset = [r \in Regions |-> 0]
    /\ completed_iterations = [r \in Regions |-> 0]
    /\ cancelled = [r \in Regions |-> FALSE]
    /\ helper_count = [r \in Regions |-> 0]
    /\ next_helper = [r \in Regions |-> 1]
    /\ remaining = [r \in Regions |-> 0]
    /\ direct = [r \in Regions |-> FALSE]
    /\ outcome = [r \in Regions |-> "none"]
    /\ at = [c \in Consumers |-> "idle"]
    /\ thread = [c \in Consumers |-> NoThread]
    /\ position = [c \in Consumers |-> 0]
    /\ chunk_end = [c \in Consumers |-> 0]
    /\ chunk_begin = [c \in Consumers |-> 0]
    /\ holds = [c \in Consumers |-> FALSE]
    /\ leased_workers = [s \in Sessions |-> 0]
    /\ maximum_leased_workers = [s \in Sessions |-> 0]
    /\ visits = [r \in Regions |-> [i \in Indices(r) |-> 0]]

-----------------------------------------------------------------------------
(* Helpers.                                                                *)

Goto(c, place) == at' = [at EXCEPT ![c] = place]

idle_worker_count ==
    IF busy_workers >= thread_count THEN 0 ELSE thread_count - busy_workers

recommended_helper_count(r, workers) ==
    LET consumers == AtLeastOne(Smaller(workers, thread_count))
    IN  IF consumers <= 1 THEN 0
        ELSE Smaller(consumers - 1,
                     Smaller(idle_worker_count, useful_helper_limit(r)))

\* The helpers to submit when the backend grants `limit' of them: exactly the
\* leased ones, or, without leases, at most those that are idle now.
helpers_to_submit(r, limit) ==
    LET consumers == AtLeastOne(Smaller(1 + limit, thread_count))
    IN  IF Session[r] # NoSession
          THEN Smaller(Smaller(consumers - 1, limit), useful_helper_limit(r))
          ELSE Smaller(recommended_helper_count(r, consumers), limit)

\* ActivePoolJobScope: the thread is inside a queued job of this pool.
is_worker_thread(t) == \E j \in Jobs : thread[j] = t

\* ParticipantScope: the thread is inside a callback of the session.
current_thread_owns_participant(t, s) ==
    \E c \in Consumers : /\ thread[c] = t
                         /\ at[c] \in {"running", "calling"}
                         /\ Session[c[1]] = s

available(s) == leased_workers[s] < total_budget[s]

\* NestedExecutionSession::reserve(1), when a worker is available.
reserve(c, s) ==
    /\ holds' = [holds EXCEPT ![c] = TRUE]
    /\ leased_workers' = [leased_workers EXCEPT ![s] = @ + 1]
    /\ maximum_leased_workers' =
           [maximum_leased_workers EXCEPT
              ![s] = IF @ >= leased_workers[s] + 1 THEN @
                                                   ELSE leased_workers[s] + 1]

\* Lease::release of every lease the consumers in S hold.  A thread that drops
\* several leases in a row does so in one step.  An underflow leaves the counter
\* alone.
release(S) ==
    /\ holds' = [c \in Consumers |-> holds[c] /\ c \notin S]
    /\ leased_workers' =
         [s \in Sessions |->
            LET count == Cardinality({c \in S : holds[c] /\ Session[c[1]] = s})
            IN  IF leased_workers[s] < count THEN leased_workers[s]
                                             ELSE leased_workers[s] - count]
    /\ UNCHANGED maximum_leased_workers

\* condition_.notify_one: one sleeping worker wakes, if there is one.
NotifyOne ==
    IF \E w \in Workers : worker[w] = "asleep"
      THEN \E w \in Workers : /\ worker[w] = "asleep"
                              /\ worker' = [worker EXCEPT ![w] = "ready"]
      ELSE UNCHANGED worker

NestedAt(c) ==
    {n \in Regions : Parent[n] = c[1] /\ CallIndex[n] = position[c]}

-----------------------------------------------------------------------------
(* ThreadPoolEngine::execute up to the first chunk.                        *)

\* The pool's idle workers are sampled before any lease is asked for.
EnterRegion(r, t, places) ==
    /\ outcome[r] = "none" /\ at[Caller(r)] = "idle"
    /\ thread' = [thread EXCEPT ![Caller(r)] = t]
    /\ at' = [places EXCEPT ![Caller(r)] =
                IF Total[r] = 0 THEN "leave" ELSE "reserve"]
    /\ helper_count' =
         [helper_count EXCEPT ![r] =
            IF effective_budget(r) > 1
              THEN recommended_helper_count(r, effective_budget(r)) ELSE 0]
    /\ UNCHANGED <<poolVars, workVars, next_helper, remaining, direct, outcome,
                   chunkVars, sessionVars, visits>>

ExecuteRoot(r) ==
    /\ Parent[r] = NoRegion
    /\ \A c \in Consumers : thread[c] # Owner[r]
    /\ EnterRegion(r, Owner[r], at)

\* The callback that consumer c runs executes a nested region.
ExecuteNested(c, r) ==
    /\ at[c] = "running"
    /\ r \in NestedAt(c)
    /\ EnterRegion(r, thread[c], [at EXCEPT ![c] = "calling"])

\* All participants are known: with no helper the caller runs the indices one
\* after the other, without chunks; otherwise it submits its helpers.
Dispatch(r, limit) ==
    LET c == Caller(r) IN
    /\ helper_count' = [helper_count EXCEPT ![r] = helpers_to_submit(r, limit)]
    /\ direct' = [direct EXCEPT ![r] = limit = 0]
    /\ chunk_end' = [chunk_end EXCEPT ![c] = IF limit = 0 THEN Total[r] ELSE 0]
    /\ Goto(c, IF limit = 0 THEN "chunk" ELSE "publish")

ReserveNothing(r) ==
    /\ at[Caller(r)] = "reserve"
    /\ Session[r] = NoSession
    /\ Dispatch(r, helper_count[r])
    /\ UNCHANGED <<poolVars, workVars, next_helper, remaining, outcome, thread,
                   position, chunk_begin, sessionVars, visits>>

\* A thread that is already a participant of the session needs no lease.
CallerOwned(r) ==
    /\ at[Caller(r)] = "reserve"
    /\ Session[r] # NoSession
    /\ current_thread_owns_participant(thread[Caller(r)], Session[r])
    /\ Goto(Caller(r), "recruit")
    /\ UNCHANGED <<poolVars, workVars, regionVars, thread, chunkVars,
                   sessionVars, visits>>

\* Faulty variant: the caller is taken for a participant.
CallerForgotten(r) ==
    /\ at[Caller(r)] = "reserve"
    /\ Session[r] # NoSession
    /\ ~current_thread_owns_participant(thread[Caller(r)], Session[r])
    /\ Goto(Caller(r), "recruit")
    /\ UNCHANGED <<poolVars, workVars, regionVars, thread, chunkVars,
                   sessionVars, visits>>

CallerLeased(r) ==
    /\ at[Caller(r)] = "reserve"
    /\ Session[r] # NoSession
    /\ ~current_thread_owns_participant(thread[Caller(r)], Session[r])
    /\ available(Session[r])
    /\ reserve(Caller(r), Session[r])
    /\ Goto(Caller(r), "recruit")
    /\ UNCHANGED <<poolVars, workVars, regionVars, thread, chunkVars, visits>>

\* The session is exhausted: sequential fallback without a lease.
CallerRefused(r) ==
    /\ at[Caller(r)] = "reserve"
    /\ Session[r] # NoSession
    /\ ~current_thread_owns_participant(thread[Caller(r)], Session[r])
    /\ ~available(Session[r])
    /\ helper_count' = [helper_count EXCEPT ![r] = 0]
    /\ Goto(Caller(r), "recruit")
    /\ UNCHANGED <<poolVars, workVars, next_helper, remaining, direct, outcome,
                   thread, chunkVars, sessionVars, visits>>

Recruited(r) == Cardinality({j \in JobsOf(r) : holds[j]})

RecruitHelper(r) ==
    /\ at[Caller(r)] = "recruit"
    /\ Recruited(r) < helper_count[r]
    /\ available(Session[r])
    /\ reserve(<<r, Recruited(r) + 1>>, Session[r])
    /\ UNCHANGED <<poolVars, workVars, regionVars, at, thread, chunkVars,
                   visits>>

RecruitEnds(r) ==
    /\ at[Caller(r)] = "recruit"
    /\ Recruited(r) = helper_count[r] \/ ~available(Session[r])
    /\ Dispatch(r, Recruited(r))
    /\ UNCHANGED <<poolVars, workVars, next_helper, remaining, outcome, thread,
                   position, chunk_begin, sessionVars, visits>>

-----------------------------------------------------------------------------
(* execute_visible_work_helping: the submission loop.                      *)

\* Faulty variant: the helper is not registered before it is published.
RegisterNothing(r) ==
    /\ at[Caller(r)] = "publish"
    /\ next_helper[r] <= helper_count[r]
    /\ Goto(Caller(r), "submit")
    /\ UNCHANGED <<poolVars, workVars, regionVars, thread, chunkVars,
                   sessionVars, visits>>

RegisterHelper(r) ==
    /\ at[Caller(r)] = "publish"
    /\ next_helper[r] <= helper_count[r]
    /\ remaining' = [remaining EXCEPT ![r] = @ + 1]
    /\ Goto(Caller(r), "submit")
    /\ UNCHANGED <<poolVars, workVars, helper_count, next_helper, direct,
                   outcome, thread, chunkVars, sessionVars, visits>>

\* Faulty variant: no worker is woken.
SubmitSilently(r) ==
    LET j == <<r, next_helper[r]>> IN
    /\ at[Caller(r)] = "submit"
    /\ ~stop \/ is_worker_thread(thread[Caller(r)])
    /\ jobs' = jobs \cup {j}
    /\ ticket' = [ticket EXCEPT ![j] = next_ticket]
    /\ next_ticket' = next_ticket + 1
    /\ active_jobs' = active_jobs + 1
    /\ next_helper' = [next_helper EXCEPT ![r] = @ + 1]
    /\ at' = [at EXCEPT ![Caller(r)] = "publish", ![j] = "queued"]
    /\ UNCHANGED <<busy_workers, stop, worker, workVars, helper_count,
                   remaining, direct, outcome, thread, chunkVars, sessionVars,
                   visits>>

\* submit_dependency_job: the helper's lease moves into the queued job.
SubmitHelper(r) ==
    LET j == <<r, next_helper[r]>> IN
    /\ at[Caller(r)] = "submit"
    /\ ~stop \/ is_worker_thread(thread[Caller(r)])
    /\ jobs' = jobs \cup {j}
    /\ ticket' = [ticket EXCEPT ![j] = next_ticket]
    /\ next_ticket' = next_ticket + 1
    /\ active_jobs' = active_jobs + 1
    /\ NotifyOne
    /\ next_helper' = [next_helper EXCEPT ![r] = @ + 1]
    /\ at' = [at EXCEPT ![Caller(r)] = "publish", ![j] = "queued"]
    /\ UNCHANGED <<busy_workers, stop, workVars, helper_count, remaining,
                   direct, outcome, thread, chunkVars, sessionVars, visits>>

\* The pool shuts down: the registration is rolled back, the exception becomes
\* the region's, and no further helper is submitted.
SubmitFails(r) ==
    /\ at[Caller(r)] = "submit"
    /\ stop /\ ~is_worker_thread(thread[Caller(r)])
    /\ remaining' = [remaining EXCEPT ![r] = IF @ > 0 THEN @ - 1 ELSE 0]
    /\ cancelled' = [cancelled EXCEPT ![r] = TRUE]
    /\ release({<<r, next_helper[r]>>})
    /\ Goto(Caller(r), "acquire")
    /\ UNCHANGED <<poolVars, next_offset, completed_iterations, helper_count,
                   next_helper, direct, outcome, thread, chunkVars, visits>>

PublishEnds(r) ==
    /\ at[Caller(r)] = "publish"
    /\ next_helper[r] > helper_count[r]
    /\ Goto(Caller(r), "acquire")
    /\ UNCHANGED <<poolVars, workVars, regionVars, thread, chunkVars,
                   sessionVars, visits>>

-----------------------------------------------------------------------------
(* consume: chunks are acquired and their callbacks called, by the caller  *)
(* and by the helpers alike.                                               *)

\* After its last chunk a caller retires its helpers, a helper its lease.
AfterChunks(c) == IF c[2] = 0 THEN "retire" ELSE "drop"

\* Faulty variant: the chunk handed out starts after the completed iterations
\* instead of after the acquired ones.
AcquireLate(c) ==
    LET r == c[1] IN
    /\ at[c] = "acquire"
    /\ ~cancelled[r]
    /\ next_offset[r] < Total[r]
    /\ position' = [position EXCEPT ![c] = completed_iterations[r]]
    /\ chunk_begin' = [chunk_begin EXCEPT ![c] = completed_iterations[r]]
    /\ chunk_end' = [chunk_end EXCEPT ![c] =
                       completed_iterations[r]
                       + Smaller(grain(r), Total[r] - completed_iterations[r])]
    /\ next_offset' = [next_offset EXCEPT
                         ![r] = @ + Smaller(grain(r), Total[r] - @)]
    /\ Goto(c, "chunk")
    /\ UNCHANGED <<poolVars, completed_iterations, cancelled, regionVars,
                   thread, sessionVars, visits>>

\* SchedulerVisibleWork::try_acquire.  The flag is read before the
\* compare-exchange; the two are independent, so one step does both.
try_acquire(c) ==
    LET r      == c[1]
        length == Smaller(grain(r), Total[r] - next_offset[r])
    IN  /\ at[c] = "acquire"
        /\ ~cancelled[r]
        /\ next_offset[r] < Total[r]
        /\ position' = [position EXCEPT ![c] = next_offset[r]]
        /\ chunk_begin' = [chunk_begin EXCEPT ![c] = next_offset[r]]
        /\ chunk_end' = [chunk_end EXCEPT ![c] = next_offset[r] + length]
        /\ next_offset' = [next_offset EXCEPT ![r] = @ + length]
        /\ Goto(c, "chunk")
        /\ UNCHANGED <<poolVars, completed_iterations, cancelled, regionVars,
                       thread, sessionVars, visits>>

NoChunk(c) ==
    /\ at[c] = "acquire"
    /\ cancelled[c[1]] \/ next_offset[c[1]] >= Total[c[1]]
    /\ Goto(c, AfterChunks(c))
    /\ UNCHANGED <<poolVars, workVars, regionVars, thread, chunkVars,
                   sessionVars, visits>>

\* The callback is called, inside a ParticipantScope.
CallBack(c) ==
    /\ at[c] = "chunk"
    /\ position[c] < chunk_end[c] /\ ~cancelled[c[1]]
    /\ visits' = [visits EXCEPT ![c[1]][position[c]] = @ + 1]
    /\ Goto(c, "running")
    /\ UNCHANGED <<poolVars, workVars, regionVars, thread, chunkVars,
                   sessionVars>>

CallBackReturns(c) ==
    /\ at[c] = "running"
    /\ \A n \in NestedAt(c) : outcome[n] = "returned"
    /\ position' = [position EXCEPT ![c] = @ + 1]
    /\ Goto(c, "chunk")
    /\ UNCHANGED <<poolVars, workVars, regionVars, thread, chunk_end,
                   chunk_begin, sessionVars, visits>>

\* The callback throws, or the nested region it executed did.  Helping turns
\* the exception into the region's; without helpers it leaves execute.
CallBackThrows(c) ==
    /\ at[c] = "running"
    /\ \/ <<c[1], position[c]>> \in Throwing
       \/ \E n \in NestedAt(c) : outcome[n] = "threw"
    /\ cancelled' = [cancelled EXCEPT ![c[1]] = TRUE]
    /\ Goto(c, IF direct[c[1]] THEN "leave" ELSE AfterChunks(c))
    /\ UNCHANGED <<poolVars, next_offset, completed_iterations, regionVars,
                   thread, chunkVars, sessionVars, visits>>

\* The chunk is finished or given up because the region is cancelled; both
\* count as complete.
mark_complete(c) ==
    /\ at[c] = "chunk" /\ ~direct[c[1]]
    /\ position[c] = chunk_end[c] \/ cancelled[c[1]]
    /\ completed_iterations' = [completed_iterations EXCEPT
                                  ![c[1]] = @ + (chunk_end[c] - chunk_begin[c])]
    /\ Goto(c, "acquire")
    /\ UNCHANGED <<poolVars, next_offset, cancelled, regionVars, thread,
                   chunkVars, sessionVars, visits>>

DirectEnds(r) ==
    LET c == Caller(r) IN
    /\ at[c] = "chunk" /\ direct[r]
    /\ position[c] = chunk_end[c]
    /\ Goto(c, "leave")
    /\ UNCHANGED <<poolVars, workVars, regionVars, thread, chunkVars,
                   sessionVars, visits>>

-----------------------------------------------------------------------------
(* A helper's way out.                                                     *)

\* helper_lifetime.reset()
DropLease(j) ==
    /\ at[j] = "drop"
    /\ release({j})
    /\ Goto(j, "finish")
    /\ UNCHANGED <<poolVars, workVars, regionVars, thread, chunkVars, visits>>

\* finish_helper: the caller may go on when the last one has reported.
FinishHelper(j) ==
    /\ at[j] = "finish"
    /\ remaining' = [remaining EXCEPT ![j[1]] = IF @ > 0 THEN @ - 1 ELSE 0]
    /\ Goto(j, "retired")
    /\ UNCHANGED <<poolVars, workVars, helper_count, next_helper, direct,
                   outcome, thread, chunkVars, sessionVars, visits>>

\* The job was taken by its own caller, in the wait loop.
RunByCaller(j) ==
    at[Caller(j[1])] = "helping" /\ thread[j] = thread[Caller(j[1])]

\* Faulty variant: a worker's job is finished like a waiter's.
WorkerStaysBusy(j) ==
    /\ at[j] = "retired" /\ ~RunByCaller(j)
    /\ worker' = [worker EXCEPT ![thread[j]] = "ready"]
    /\ active_jobs' = IF active_jobs > 0 THEN active_jobs - 1 ELSE 0
    /\ thread' = [thread EXCEPT ![j] = NoThread]
    /\ Goto(j, "done")
    /\ UNCHANGED <<jobs, ticket, next_ticket, busy_workers, stop, workVars,
                   regionVars, chunkVars, sessionVars, visits>>

\* finish_one_job(true), at the end of the worker's loop body.
FinishWorkerJob(j) ==
    /\ at[j] = "retired" /\ ~RunByCaller(j)
    /\ busy_workers' = IF busy_workers > 0 THEN busy_workers - 1 ELSE 0
    /\ worker' = [worker EXCEPT ![thread[j]] = "ready"]
    /\ active_jobs' = IF active_jobs > 0 THEN active_jobs - 1 ELSE 0
    /\ thread' = [thread EXCEPT ![j] = NoThread]
    /\ Goto(j, "done")
    /\ UNCHANGED <<jobs, ticket, next_ticket, stop, workVars, regionVars,
                   chunkVars, sessionVars, visits>>

\* finish_one_job(false): the caller returns to its wait loop.
FinishCallerJob(j) ==
    /\ at[j] = "retired" /\ RunByCaller(j)
    /\ active_jobs' = IF active_jobs > 0 THEN active_jobs - 1 ELSE 0
    /\ thread' = [thread EXCEPT ![j] = NoThread]
    /\ at' = [at EXCEPT ![j] = "done", ![Caller(j[1])] = "wait"]
    /\ UNCHANGED <<jobs, ticket, next_ticket, busy_workers, stop, worker,
                   workVars, regionVars, chunkVars, sessionVars, visits>>

-----------------------------------------------------------------------------
(* The caller's way out.                                                   *)

KeepIdleHelpers(r) ==
    /\ at[Caller(r)] = "retire"
    /\ r \notin CancelIdle
    /\ Goto(Caller(r), "wait")
    /\ UNCHANGED <<poolVars, workVars, regionVars, thread, chunkVars,
                   sessionVars, visits>>

QueuedOf(r) == jobs \cap JobsOf(r)

\* Faulty variant: the erased jobs keep their leases.
CancelKeepsLeases(r) ==
    LET gone == QueuedOf(r) IN
    /\ at[Caller(r)] = "retire"
    /\ r \in CancelIdle
    /\ jobs' = jobs \ gone
    /\ active_jobs' = IF Cardinality(gone) > active_jobs THEN 0
                      ELSE active_jobs - Cardinality(gone)
    /\ at' = [c \in Consumers |->
                IF c \in gone THEN "erased"
                ELSE IF c = Caller(r)
                  THEN IF gone = {} THEN "wait" ELSE "discount"
                ELSE at[c]]
    /\ UNCHANGED <<ticket, next_ticket, busy_workers, stop, worker, workVars,
                   regionVars, thread, chunkVars, sessionVars, visits>>

\* cancel_dependency_jobs: the queued helpers of this region are destroyed
\* with their leases.
CancelIdleHelpers(r) ==
    LET gone == QueuedOf(r) IN
    /\ at[Caller(r)] = "retire"
    /\ r \in CancelIdle
    /\ jobs' = jobs \ gone
    /\ active_jobs' = IF Cardinality(gone) > active_jobs THEN 0
                      ELSE active_jobs - Cardinality(gone)
    /\ release(gone)
    /\ at' = [c \in Consumers |->
                IF c \in gone THEN "erased"
                ELSE IF c = Caller(r)
                  THEN IF gone = {} THEN "wait" ELSE "discount"
                ELSE at[c]]
    /\ UNCHANGED <<ticket, next_ticket, busy_workers, stop, worker, workVars,
                   regionVars, thread, chunkVars, visits>>

Erased(r) == {j \in JobsOf(r) : at[j] = "erased"}

\* Faulty variant: the erased helpers are still waited for.
DiscountNothing(r) ==
    /\ at[Caller(r)] = "discount"
    /\ at' = [c \in Consumers |-> IF c \in Erased(r) THEN "done"
                                  ELSE IF c = Caller(r) THEN "wait" ELSE at[c]]
    /\ UNCHANGED <<poolVars, workVars, regionVars, thread, chunkVars,
                   sessionVars, visits>>

\* ... and under the completion mutex they are no longer waited for.
DiscountErased(r) ==
    /\ at[Caller(r)] = "discount"
    /\ remaining' = [remaining EXCEPT ![r] =
                       IF Cardinality(Erased(r)) > @ THEN 0
                       ELSE @ - Cardinality(Erased(r))]
    /\ at' = [c \in Consumers |-> IF c \in Erased(r) THEN "done"
                                  ELSE IF c = Caller(r) THEN "wait" ELSE at[c]]
    /\ UNCHANGED <<poolVars, workVars, helper_count, next_helper, direct,
                   outcome, thread, chunkVars, sessionVars, visits>>

\* try_execute_one_dependency_job: the first queued helper of this region.
HelpOwnRegion(r, j) ==
    /\ at[Caller(r)] = "wait"
    /\ j \in QueuedOf(r) /\ \A i \in QueuedOf(r) : ticket[j] <= ticket[i]
    /\ jobs' = jobs \ {j}
    /\ thread' = [thread EXCEPT ![j] = thread[Caller(r)]]
    /\ at' = [at EXCEPT ![j] = "acquire", ![Caller(r)] = "helping"]
    /\ UNCHANGED <<ticket, next_ticket, active_jobs, busy_workers, stop, worker,
                   workVars, regionVars, chunkVars, sessionVars, visits>>

\* The wait ends with the last running helper.
WaitEnds(r) ==
    /\ at[Caller(r)] = "wait"
    /\ QueuedOf(r) = {}
    /\ remaining[r] = 0
    /\ Goto(Caller(r), "leave")
    /\ UNCHANGED <<poolVars, workVars, regionVars, thread, chunkVars,
                   sessionVars, visits>>

\* execute returns or throws: the caller's lease and those of helpers that were
\* never submitted go, and the callback that executed the region goes on.
Leave(r) ==
    LET c == Caller(r) IN
    /\ at[c] = "leave"
    /\ outcome' = [outcome EXCEPT ![r] = IF cancelled[r] THEN "threw"
                                                         ELSE "returned"]
    /\ release({c} \cup {j \in JobsOf(r) : at[j] = "idle"})
    /\ thread' = [thread EXCEPT ![c] = NoThread]
    /\ at' = [d \in Consumers |->
                IF d = c THEN "done"
                ELSE IF at[d] = "calling" /\ r \in NestedAt(d) THEN "running"
                ELSE at[d]]
    /\ UNCHANGED <<poolVars, workVars, helper_count, next_helper, remaining,
                   direct, chunkVars, visits>>

-----------------------------------------------------------------------------
(* The worker threads and the destructor.                                  *)

TakeJob(w, j) ==
    /\ worker[w] = "ready"
    /\ j \in jobs /\ \A i \in jobs : ticket[j] <= ticket[i]
    /\ jobs' = jobs \ {j}
    /\ busy_workers' = busy_workers + 1
    /\ worker' = [worker EXCEPT ![w] = "busy"]
    /\ thread' = [thread EXCEPT ![j] = w]
    /\ Goto(j, "acquire")
    /\ UNCHANGED <<ticket, next_ticket, active_jobs, stop, workVars, regionVars,
                   chunkVars, sessionVars, visits>>

Sleep(w) ==
    /\ worker[w] = "ready"
    /\ jobs = {} /\ ~stop
    /\ worker' = [worker EXCEPT ![w] = "asleep"]
    /\ UNCHANGED <<jobs, ticket, next_ticket, active_jobs, busy_workers, stop,
                   workVars, regionVars, at, thread, chunkVars, sessionVars,
                   visits>>

Exit(w) ==
    /\ worker[w] = "ready"
    /\ jobs = {} /\ stop
    /\ worker' = [worker EXCEPT ![w] = "exited"]
    /\ UNCHANGED <<jobs, ticket, next_ticket, active_jobs, busy_workers, stop,
                   workVars, regionVars, at, thread, chunkVars, sessionVars,
                   visits>>

\* ~ThreadPool sets the flag and wakes everyone; its joins are the exits.
StopPool ==
    /\ ~stop
    /\ stop' = TRUE
    /\ worker' = [w \in Workers |-> IF worker[w] = "asleep" THEN "ready"
                                                            ELSE worker[w]]
    /\ UNCHANGED <<jobs, ticket, next_ticket, active_jobs, busy_workers,
                   workVars, regionVars, at, thread, chunkVars, sessionVars,
                   visits>>

\* Every root region has ended and every worker sleeps or is gone.
Terminated ==
    /\ \A r \in Regions : Parent[r] = NoRegion => outcome[r] # "none"
    /\ \A c \in Consumers : at[c] \in {"idle", "done"}
    /\ \A w \in Workers : worker[w] \in {"asleep", "exited"}
    /\ UNCHANGED vars

-----------------------------------------------------------------------------
CallerStep(r) ==
    \/ ReserveNothing(r) \/ CallerOwned(r) \/ CallerLeased(r)
    \/ CallerRefused(r) \/ RecruitHelper(r) \/ RecruitEnds(r)
    \/ RegisterHelper(r) \/ SubmitHelper(r) \/ SubmitFails(r) \/ PublishEnds(r)
    \/ DirectEnds(r)
    \/ KeepIdleHelpers(r) \/ CancelIdleHelpers(r) \/ DiscountErased(r)
    \/ \E j \in Jobs : HelpOwnRegion(r, j)
    \/ WaitEnds(r) \/ Leave(r)

ConsumerStep(c) ==
    \/ try_acquire(c) \/ NoChunk(c) \/ CallBack(c) \/ CallBackReturns(c)
    \/ CallBackThrows(c) \/ mark_complete(c)
    \/ \E r \in Regions : ExecuteNested(c, r)

HelperStep(j) ==
    \/ DropLease(j) \/ FinishHelper(j) \/ FinishWorkerJob(j)
    \/ FinishCallerJob(j)

WorkerStep(w) == (\E j \in Jobs : TakeJob(w, j)) \/ Sleep(w) \/ Exit(w)

Next ==
    \/ \E r \in Regions : ExecuteRoot(r) \/ CallerStep(r)
    \/ \E c \in Consumers : ConsumerStep(c)
    \/ \E j \in Jobs : HelperStep(j)
    \/ \E w \in Workers : WorkerStep(w)
    \/ StopPool
    \/ Terminated

Spec == Init /\ [][Next]_vars

\* A thread that is inside a region runs, and callbacks end.  Idle workers
\* need not ever take a job.
RegionFairness ==
    /\ \A r \in Regions : WF_vars(CallerStep(r))
    /\ \A c \in Consumers : WF_vars(ConsumerStep(c))
    /\ \A j \in Jobs : WF_vars(HelperStep(j))

FairSpec == Spec /\ RegionFairness

-----------------------------------------------------------------------------
(* Properties.                                                             *)

(***************************************************************************)
(* Types; the chunks of try_acquire stay inside the region.                *)
(***************************************************************************)
TypeOK ==
    /\ jobs \in SUBSET Jobs
    /\ ticket \in [Jobs -> Nat]
    /\ next_ticket \in Nat
    /\ active_jobs \in Nat
    /\ busy_workers \in Nat
    /\ stop \in BOOLEAN
    /\ worker \in [Workers -> {"asleep", "ready", "busy", "exited"}]
    /\ next_offset \in [Regions -> Nat]
    /\ completed_iterations \in [Regions -> Nat]
    /\ cancelled \in [Regions -> BOOLEAN]
    /\ helper_count \in [Regions -> Nat]
    /\ next_helper \in [Regions -> Nat]
    /\ remaining \in [Regions -> Nat]
    /\ direct \in [Regions -> BOOLEAN]
    /\ outcome \in [Regions -> {"none", "returned", "threw"}]
    /\ at \in [Consumers -> Places]
    /\ thread \in [Consumers -> Threads \cup {NoThread}]
    /\ position \in [Consumers -> Nat]
    /\ chunk_begin \in [Consumers -> Nat]
    /\ chunk_end \in [Consumers -> Nat]
    /\ \A c \in Consumers : chunk_end[c] <= Total[c[1]]
    /\ holds \in [Consumers -> BOOLEAN]
    /\ leased_workers \in [Sessions -> Nat]
    /\ maximum_leased_workers \in [Sessions -> Nat]
    /\ \A r \in Regions : visits[r] \in [Indices(r) -> Nat]

\* A job that is queued or inside consume holds references to the caller's
\* work object and callback.
Touching == {"queued"} \cup Consuming

(***************************************************************************)
(* The helper jobs capture the caller's stack by reference.  Once execute  *)
(* has returned or thrown, no job of the region is queued or still         *)
(* consuming, and none still holds a lease of the session.                 *)
(***************************************************************************)
HelpersRetiredFirst ==
    \A r \in Regions : outcome[r] # "none" =>
        \A j \in JobsOf(r) : j \notin jobs /\ at[j] \notin Touching /\ ~holds[j]

\* Places where a consumer has no lease: its job was erased or has reported, or
\* its region is over.
Leaseless == {"erased", "finish", "retired", "done"}

(***************************************************************************)
(* Worker leases: the session's counter is the number of leases held,      *)
(* within the budget, and a lease is held by a caller inside its region or *)
(* by a helper that is recruited, queued or consuming: submission, erasure *)
(* and failure hand it on or return it.                                    *)
(***************************************************************************)
LeasesBalance ==
    /\ \A s \in Sessions :
         /\ leased_workers[s] =
                Cardinality({c \in Consumers : holds[c] /\ Session[c[1]] = s})
         /\ leased_workers[s] <= total_budget[s]
         /\ maximum_leased_workers[s] <= total_budget[s]
    /\ \A c \in Consumers : holds[c] => at[c] \notin Leaseless

\* The threads that are inside a callback of the session, and the callers that
\* enter the session and run sequentially because it was exhausted.
Participants(s) ==
    {t \in Threads : current_thread_owns_participant(t, s)}
Unleased(s) ==
    {r \in Regions : /\ Session[r] = s
                     /\ Parent[r] = NoRegion \/ Session[Parent[r]] # s
                     /\ direct[r] /\ ~holds[Caller(r)]
                     /\ at[Caller(r)] \in Consuming}

(***************************************************************************)
(* Nested regions do not oversubscribe: the threads inside callbacks of a  *)
(* session are at most its leases, except for callers in the documented    *)
(* sequential fallback.                                                    *)
(***************************************************************************)
ParticipantsAreLeased ==
    \A s \in Sessions :
        Cardinality(Participants(s))
            <= leased_workers[s] + Cardinality(Unleased(s))

\* The jobs a thread is executing.
RunningJobs ==
    {j \in Jobs : at[j] \in Consuming \cup {"drop", "finish", "retired"}}

(***************************************************************************)
(* The pool's counters: queued plus running jobs, and the workers inside a *)
(* job, although callers take and destroy jobs as well as workers.         *)
(***************************************************************************)
PoolCountersExact ==
    /\ active_jobs = Cardinality(jobs) + Cardinality(RunningJobs)
    /\ busy_workers = Cardinality({w \in Workers : worker[w] = "busy"})

(***************************************************************************)
(* One notify_one per submission is enough: while a worker sleeps, there   *)
(* is an awake worker for every queued job.                                *)
(***************************************************************************)
NoSleeperBesideJobs ==
    (\E w \in Workers : worker[w] = "asleep")
        => Cardinality(jobs) <= Cardinality({w \in Workers :
                                               worker[w] = "ready"})

\* Execution of regions, seen from the code that starts them.
RegionPhase(r) ==
    IF outcome[r] # "none" THEN outcome[r]
    ELSE IF at[Caller(r)] = "idle" THEN "idle" ELSE "running"

Promise == INSTANCE ParallelRegions WITH
    phase  <- [r \in Regions |-> RegionPhase(r)],
    calls  <- visits,
    active <- [r \in Regions |->
                 {position[c] : c \in {d \in Consumers :
                    d[1] = r /\ at[d] \in {"running", "calling"}}}]

(***************************************************************************)
(* Refinement: whatever helpers are recruited, cancelled or run by their   *)
(* caller, the callback runs at most once per index, once for every index  *)
(* when the region returns, and never after the region has ended.          *)
(***************************************************************************)
KeepsPromise == Promise!Spec

(***************************************************************************)
(* Every region that is started ends, with nested regions on every worker, *)
(* with helpers nobody takes, after exceptions and during shutdown.        *)
(***************************************************************************)
RegionsEnd ==
    \A r \in Regions : at[Caller(r)] # "idle" ~> outcome[r] # "none"
=============================================================================
