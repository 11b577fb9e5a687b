# SmartParallel: verification project

TLA+ models of the concurrent core of SmartParallel, TLC instances that check
them, and TLAPS proofs of their main invariants. `PROJECT.json` maps every
definition that models code to its lines, and lists the runs, the mutants that
show that each property can fail, the hazards behind the properties, the
findings and the theorems. Paths below are relative to the repository.

To repeat the checks, in this directory:

    tlc -workers 2 -config MCGovernorAccounting.cfg MCResourceGovernor
    tlapm ResourceGovernorProofs.tla

## 1. The system

SmartParallel executes loops and named operations in parallel. It decides *how*
(engine, chunk size, worker budget) from what it has learned, and runs the work
on engines that share the processor through a governor. Its parts:

| Component (source) | State | Operations | Interacts with | What is hard |
|---|---|---|---|---|
| **Resource governor, execution leases, cancellation** (`src/resource_governor.cpp`) | permits in use, queue of pending requests, counters, shutdown flag; a reference-counted control block per lease | `acquire`, `inherit`, release of the last handle, `request_cancellation`, `request_shutdown` | every top-level operation asks it for permits | grants by other threads racing cancellation, deadline and shutdown; wakeups; fairness |
| **Thread pool** (`src/thread_pool.cpp`) | job queue, `active_jobs`, `busy_workers`, `stop` | worker loop, `submit_dependency_job`, `execute_visible_work_helping`, helper cancellation, `submit`, `wait` | engines publish helper jobs that refer to the caller's stack | lifetime of helpers, nested waits, shutdown |
| **Scheduler-visible work** (`execution/work_chunk.hpp`) | offset, completed iterations, first exception | `try_acquire`, `mark_complete`, `capture_exception` | consumed by caller and helpers at once | the last chunk; an exception beside running chunks |
| **Nested execution session** (`execution/nested_execution_session.hpp`) | leased workers, participants of each thread, plan snapshots | `reserve`, `release`, scopes | all regions of one root operation share its budget | exhaustion between two reservations |
| **Nested coordinator, budget partition, policy, context** (`execution/nested_*.hpp`, `execution_context.hpp`) | lineage of contexts, budget of children | enter and leave a loop, split a budget, choose a policy | builds sessions | depth, restoration when a callback throws |
| **Execution backends** (`execution/backend.hpp`, static engines) | none of their own | `ThreadPoolEngine::execute`, static threads, oneTBB | pool, session | recruitment with stale numbers |
| **Operation admission and deterministic replay** (`src/operation.cpp`, `src/runtime.cpp`) | profiles under `profiles_mutex`, prepared operations, warm-start flags | prepare, admit, run, complete, warm start | governor, profile database | a mutex held across blocking admission |
| **Profile database** (`src/profile.cpp`) | entries with a status, file on disk | load, verify, approve, save | operations, tools | crash or failure between the steps of a save |
| **Profile tools** (`tools/cpp`) | none | approve, calibrate; show, compare | profile database | - |
| **Vision route selector** (`vision/detail/adaptive_route_selector.hpp`) | sharded LRU map of profiles: measurements, phase, probe slot, revalidation | `select`, `complete`, `cancel`, `clear`, `snapshot` | called by vision operations | a probe spans two critical sections; the profile can vanish and come back |
| **Vision threshold, OpenCV provider** (`vision/src`) | thread-local hot routes, two epochs, provider state | `threshold_impl`, `clear_adaptive_route_cache`, contained OpenCV call | route selector, engines | routes cached from an old snapshot; a process-wide thread count |
| **`parallel_for` decision flow** (`execution/parallel.hpp`, `src/decision.cpp`) | stack of execution contexts, session memos | lookup, pilot, sample, decide, execute, learn | caches, models, engines | order of the steps; reentrance; profiling executes user iterations |
| **Function profile cache** (`profiling/function_profile_cache.hpp`) | bounded cache, markers of builds and revalidations, epoch, generations | guards, `find`, `store`, `store_stable_plan`, `clear`, `freeze` | decision flow | observations and plans that arrive after a clear or a newer profile |
| **Backend calibration, exploration policy** (`decision/`) | bounded map of comparisons | `select`, `record`, `clear`, `freeze` | decision flow | counters at their limits |
| **Parallel algorithms, hot dispatch** (`execution/algorithms.hpp`, `algorithm_dispatch.hpp`) | sharded LRU map of routes with a probe slot; per call chunks and atomics | the standard algorithms; `select`, `complete`, `cancel`, `clear` | `parallel_for` | races on one atomic; probes left behind |
| **Experience database, runtime experience** (`experience/`) | bounded store, dirty counter, file | record, evict, look up, load, autosave | decision flow | files that appear late, crash in a save |
| **Prediction and ranking models** (`decision/`, `ranking/`) | coefficients, a file | predict, update, load, save | decision flow | floating point |
| **Canonical reductions** (`numerical/`) | none | block tree of partial results | engines | result independent of the worker count |
| **Data views, linear algebra, stencils** (`data/`, `linalg/`, `scientific/`) | none | extents, strides, overlap | engines | index arithmetic |
| **Hardware detection** (`src/hardware.cpp`) | cached once | detect | all | - |

What makes each of the modelled components correct:

* *Governor*: permits are neither lost nor invented, the budget holds at every
  moment, a losing call leaves nothing behind, permits live as long as the last
  handle, no request is overtaken more often than the limit or past a
  reservation, nobody sleeps beside an idle governor.
* *Thread pool*: no job that refers to a caller's stack outlives the call, each
  callback runs once, a session is never oversubscribed, every region ends.
* *Route selector*: one probe per profile, a probe slot that is never lost, no
  route locked in without verification, an honest comparison in revalidation,
  learning that ends, caches that follow a promotion.
* *Operations and profiles*: deterministic mode replays an approved, compatible
  plan exactly or refuses; a stored entry warms one call; no sample is lost;
  permits follow the call that holds them; a saved file is whole.
* *parallel_for*: each index exactly once whichever of the many paths a call
  takes, one parallel level at a time, a plan only with the profile it was
  computed from or another of the same root call, no marker without a call that
  will erase it.
* *Algorithms*: the result of the standard algorithm for every route and every
  interleaving; a reduction tree that depends on the size alone.
* *Experience*: while saves succeed and executions are not interrupted by a clear,
  what is counted as unsaved is at least what a crash would lose; loading on demand
  does not discard what the process learned.

## 2. Modules

| Module | Models | Run by |
|---|---|---|
| `PermitPool` | what the governor promises: at most one answer per request, grants within the contract and the budget, permits returned once | refined by `ResourceGovernor` |
| `ResourceGovernor` | `resource_governor.cpp` | `MCResourceGovernor` |
| `ResourceGovernorProofs` | its theorems and the refinement | - |
| `ParallelRegions` | what parallel execution promises: each index called at most once, all of them if the region returns, none after its end | refined by `ThreadPool` |
| `ThreadPool` | `ThreadPoolEngine::execute`, the pool, chunks, session leases | `MCThreadPool` |
| `ThreadPoolProofs`, `PoolStackProofs` | its theorems: leases, lives of jobs and the refinement; threads as stacks | - |
| `RouteSelector` | the functions on one `Entry` of `adaptive_route_selector.hpp` | through `VisionRoutes` |
| `VisionRoutes` | concurrent calls of `threshold_impl` on one shard, with the hot caches | `MCVisionRoutes` |
| `VisionRoutesProofs` | their theorems | - |
| `ReproducibleRuntime` | `runtime.cpp`, `operation.cpp`, `profile.cpp` and the approving tools; admission is the instance `PermitPool` of the governor | `MCReproducibleRuntime` |
| `ReproducibleRuntimeProofs` | its theorems | - |
| `FunctionProfileCache` | the functions on the profile cache and the backend calibration | through `ParallelFor` |
| `ParallelFor` | concurrent and nested calls of `parallel_for` with sessions, caches and coordination | `MCParallelFor` |
| `ParallelForProofs` | its theorems | - |
| `ParallelAlgorithms` | `algorithms.hpp`, `algorithm_dispatch.hpp`, canonical reductions | `MCParallelAlgorithms` |
| `ParallelAlgorithmsProofs` | its theorems | - |
| `ExperienceStore` | the experience database, the residual learner's file, `runtime_experience.hpp` | `MCExperienceStore` |
| `ExperienceStoreProofs` | its theorems | - |

Operators with "Faulty variant" or "Mutant" in their comment are plausible bugs;
no specification uses them. They are the right-hand sides of the mutants.

### ResourceGovernor

A call of `acquire` is one element of `Calls`, made at most once, and stands for
its thread, its `PendingRequest` and its lease. The mutex is a variable. The
admission pass `grant_waiters_locked` is a sequence of steps of the thread that
holds the mutex (`Sweep`, `GrantOldest`, `OldestBlocked`, `ReserveOldest`,
`BeginScan`, `ScanGrants`, ...), because cancellation tokens are atomics that
other threads set between two reads, and because `request_cancellation` notifies
without the mutex (`CancelStore`, then `CancelNotify`). The wait loop is
`CheckShutDown`, `CheckCancelled`, `CheckDeadline`, `CheckPasses`, `Park`, in the
code's order; wakeups come from notifications, the deadline, or spuriously.
Time is two flags: `AgeOut` (the oldest request passed the reservation age) and
`DeadlineExpires`. Identity strings and fingerprints are left out.

### ThreadPool

A region has consumers: `<<r, 0>>` is the caller, `<<r, k>>` the helper job `k`.
A consumer is also a stack frame, since a callback can execute a nested region
and a waiting caller runs its own queued helpers. Critical sections and
compare-exchange loops are single steps. Choices made:

* publishing a job and its `notify_one` are one step; spurious wakeups of workers
  only re-test the predicate and are left out;
* `try_acquire` reads the cancel flag and advances the offset in one step;
* `first_exception` and `cancelled_` are set together as far as consumers can see;
* leases that one thread drops in a row go in one step;
* `sequential_fallback` is a budget of 1, a disabled session is `NoSession`;
* the pool may be stopped at any time, which is more than its destructor allows.

`submit`, `wait` and `execute_visible_work` are not used by parallel regions and
are left out.

### RouteSelector and VisionRoutes

`RouteSelector` has no variables: an operation of the selector maps an entry to
the set of entries it can leave. Times are abstracted to the number of samples,
and each comparison of times has both outcomes, so that every schedule of
measurements is covered. `VisionRoutes` adds the shard (entries and their order
of access), the hot cache of each thread, the epoch, and the call: `Begin`, a hot
hit (`RunHot`) or the selector (`LeaveHot` or `MissHot`, `Select`), `Publish` and
`StoreSelected`, `RunReturns` or `RunThrows`, `CompleteProbe`, the snapshot after
it, `InvalidateHotRoutes`, `StoreResult`. Choices made:

* the nonce of a probe is the thread that runs it;
* candidates follow from the key, so `select` never meets other candidates;
* one shard, and one slot of the hot cache per image class;
* an entry of an older hot epoch is never valid again, so the epoch is modelled
  by dropping the entries;
* counters of uses stop at the interval they are compared with;
* `drift_detected`, `route_switch_count` and `current_measurements` only reach
  reports, apart from one test on `drift_detected` in `threshold_impl` whose two
  branches store the same counters;
* maintenance is not paused, and no forced execution plan is active.

### ReproducibleRuntime

One process with at most `MaxStarts` restarts, one `Runtime` at a time, and calls
of `Ops`, nested in each other as `Parent` says. A nested call is admitted without
the governor, on the lease that the context around it carries; since
`execution_context.hpp:140` hands it on unchanged, that is the lease of the outermost
call at every depth (`resource_lease`), and a call may get more workers than the one
right around it. An operation is `Find` (the copy
of an entry under `profiles_mutex`), one of `PrepareForced`, `PrepareReplay`,
`PrepareCold`, `PrepareWarm`, then admission (`Admitted` or `Refused` as
`PermitPool` allows), the operation itself, and `complete_semantic_operation` or
`Throws`. `profiles_mutex` is a variable because a warm start holds it while it
waits. An entry is a plan, a budget, a count of samples and the facts that
`compatibility` and the tools test; identity strings are what they identify, a
hash is the entry it hashes, and JSON text either loads or does not. Saving is
`CreateTemporary`, `WriteTemporary`, `RenameTemporary`, with failure and `Crash`
between any two. That a path has one writer at a time (`Designated`) is no test in
the code but an assumption: `docs/v1.7/profile-access.md:26` demands it of programs.

### FunctionProfileCache and ParallelFor

`FunctionProfileCache` has no variables: it maps a cache to a cache. `ParallelFor`
has a fixed forest of loops (`Parent`, `At`: which index of the parent calls it)
whose roots are called repeatedly and concurrently; `ctx` is the execution
context of each, `pc` where it is. The paths of a call are: refused admission, an
exact plan, sealed and inherited descendants, lookup with revalidation, cold
learning (analytical, pilot or direct), the sequential fast path, learning by
samples, decision, backend calibration, coordination, main execution in the gaps
between samples, exceptions. A plan that the session remembers is found first but
used last: the call looks up or samples a profile like any other, takes the plan
instead of deciding, and installs it with the generation it then has. Choices made:

* the cost of a body is an input (`Costs`: below, between, above the thresholds);
  the decision engine and the granularity controller may return any plan they can
  return for it;
* backends are used by the promise that `ParallelRegions` states: each index of
  what is left once, in any order, up to an exception;
* what is left is a set (`todo`); sequential execution takes its least index, and
  sampling the one that comes first in the round robin over the regions (`Precedes`);
* sessions, profile cache, plan memo and granularity enforcement are enabled, as
  they are by default; `Scenarios` switches the rest (pilot learning, sampling,
  calibration, tracing, ageing of profiles);
* `since`, `lax`, `basis`, `from` and `began` are auxiliary: they remember where an
  observation or a plan came from and no action reads them. The basis of a plan
  is the generation and the root call it was computed in; it travels with the plan
  through the session and is not set by the function that installs it.

### ParallelAlgorithms

A call is cut into chunks, which run interleaved, or runs as a whole if
`parallel_for` decides so. A chunk of a search takes one step for each access to
the shared atomic; other chunks touch only their own output and are one step.
The reduction's operation is concatenation, the most general associative one, so
that a result shows every operand and its place. A value of a canonical reduction
is the range of elements it stands for and the pairs of ranges it was merged from,
which shows the tree: that of the definition (`CanonicalPairs`) is given by the
number of leaves in closed form, one split per power of two and block of leaves.
The caller combines after the last chunk, one step for each partial result that
`chunked_transform_reduce` adds or for each pass of `canonical_merge_tree`, and the
operation may throw at each. Special floating-point values are flags, of the elements
and of `init`. Magnitudes are not modelled: in a scenario with `large` numbers each
addition of finite ones may overflow, to infinities fixed for the call, in a leaf, in
a merge and with `init`, except where `compensated_add` has seen a special value and
adds nothing. The dispatch cache is one shard; which route
is faster is an input. `AlgorithmDispatchCache::clear` has no caller in the
repository, and is modelled as the public operation it is. A range whose end is
before its begin throws before anything happens, and is left out.

### ExperienceStore

An entry is the set of executions it has absorbed, so that what is lost can be
counted. Every public operation of the database and of the learner is a critical
section, and one step; `record_execution_experience` is nine of them. Saves
truncate and write in place: a failed write or a crash leaves some of the lines,
or some layers of the learner. `good()` is asked before the stream is destroyed, so
that a write may also fail after the save has reported success
(`SaveDatabaseUnflushed`). Auxiliary are `home` (the file last saved or loaded),
`torn` (a write of it has failed since), `interrupted` (the database was cleared, or
another file loaded, between an execution's `load_once` and its `record`) and
`cleared`. One path is used: with two, `load_experience` of another path is undone by
the next execution, which loads the configured one again, and `save_experience`
to another path resets the counter of unsaved records.

## 3. Runs

| Run | Instance | Distinct states | Shows |
|---|---|---|---|
| `gov_accounting` | 3 calls, 1 token, budget 2, all policies | 1,280,646 | permits, budget, losers, counters, no stall |
| `gov_fairness` | 4 calls of different sizes, budget 2, limit 0 (normalised to 1) | 312,610 | bypass limit, reservation, overtaking |
| `gov_leases` | 2 calls, 1 token, inherited handles, fairness | 76,031 | handle lifetime, refinement of `PermitPool`, every call returns |
| `pool_failures` | 2 workers, 2 threads, 3 regions, one nested, throwing callbacks, session of 2 | 252,915 | leases, participants, counters, wakeups; no job outlives its region; refinement of `ParallelRegions` |
| `pool_liveness` | 2 workers, nested region, inner callback throws | 83,934 | every region ends |
| `routes_learning` | 1 thread, 3 routes, window 4, holdout 2, 2 failures, drift | 310,914 | holdout before lock-in, ABBA, convergence |
| `routes_eviction` | 2 threads, 2 routes, capacity 1, one clear | 939,001 | probe slots, single flight |
| `operations` | 2 calls of one workload, one with two more nested in it one in the other, 6 option sets, 2 disks, a tool, a crash | 1,719,065 | exact replay, one warm start, no lost sample, permits, whole files |
| `operations_deadlock` | 2 calls of two workloads, budget 2, policy `Wait` | violation | a warm start and a completing call wait for each other |
| `adaptive` | 7 loops in 3 levels, 10 scenarios of up to 4 calls | 617,776 | each index once, one frontier, markers, plans and profiles, clear |
| `algorithms` | 3 threads, up to 11 elements, 7 calls, 2 callsites, shard of 1 | 906,460 | results of loops and searches (`SearchesExact`) and of reductions (`ReductionsExact`), probes, routes, capacity |
| `experience` | 2 threads, 3 executions, limits of 1, 2 requests, 1 fault | 4,378,282 | autosave, loading on demand |

**Why the bounds are enough.** In the governor, two calls are needed for a grant
by another thread, a third for a pass that goes past a blocked request, a fourth
for a second overtaking of the same request; budget 2 makes "does not fit"
differ from "nothing is free". A limit of 0 is the case the constructor
normalises, and 1 is reached at once. In the pool, the nested instances have an
inner region whose caller is a worker, more chunks than consumers, a last chunk
that is shorter, and a session smaller than the demand in `pool_failures`. In
the selector, three routes allow an elimination and a runner-up that is not the
only other route; window 4 leaves room for an extended round and for a second
one after a failed holdout; intervals 1 and 3 contain a doubling that is cut
off. `routes_learning` has one thread, because a call without the probe leaves an
entry unchanged apart from `last_access` and the count of uses; the interleavings
are in `routes_eviction`, with the smallest settings that still have every phase.
Its capacity of one profile makes eviction by the key of the next epoch possible.
In the operations, two calls of one workload suffice for a sample to meet another
and for a second warm start; the third and fourth are nested to depth two, where the
lease is not that of the call around; the six
option sets have every mode, access, wait policy, a forced engine and a ceiling
below the learned budget. In `adaptive` each scenario enables the mechanisms that
can meet: three levels are needed for a parallel loop two levels up, three
iterations for a gap between two samples, two threads at one callsite for a guard
that outlives a clear, four calls for learning, a stable plan, a freeze and its
use. In `algorithms`, six elements in four chunks give three concurrent matches;
eleven elements make every number of leaves up to six; seven calls learn a route,
use it and revalidate it; four numbers, of all combinations, overflow or not, inside
a leaf and in a merge. In `experience`, two samples are the autosave interval,
the third is at the limit of the store, and one clear suffices to interrupt an
execution.
Every property is violated by its mutant in the same instance, so that none of
them holds for want of the interesting case.

**Deadlock** is checked in all runs but those of `ReproducibleRuntime`, where the
code has the deadlock that `operations_deadlock` is about, and of
`ExperienceStore`, where an application that has used up the bounds stops.

**Fairness.** `gov_leases` uses `FairSpec`: threads that are inside the governor
run on (`ThreadFairness`: weak fairness of the steps of a call, strong fairness
where a step needs the mutex) and holders drop their leases (`HolderFairness`,
which the governor itself cannot ensure and the documentation assumes).
`MCGovernorLostCancellation.cfg` uses `PatientSpec`, without `HolderFairness`: the
documentation says that a cancellation does not depend on the holders. Clocks
advance, so deadlines expire and timed waits end; spurious wakeups, ages,
cancellations and shutdown are never forced. `pool_liveness` assumes
`RegionFairness`: a thread inside a region runs on and callbacks end. An idle worker never has to
take a job, since the operating system may not schedule it: the caller must be
able to finish alone. `operations_deadlock` assumes that calls run on, that
operations end and that permits are granted when the governor may grant them:
`AdmissionEnds` fails although all of this holds. The other runs need no fairness;
`LearningConverges` is stated as a property of steps.

## 4. Where code and documents differ

The run `operations_deadlock`, with expectation `violation`:

* **A warm start waits for permits with `profiles_mutex` locked**
  (`src/operation.cpp:551-561`). The call that holds the permits needs the mutex to
  complete (`:648`, `:721`), before it gives them back: both wait for ever, and
  so does every later call. `docs/v1.8/admission-policies.md:14` says of `Wait` that
  it waits "until the request can be granted, cancelled, or the governor shuts
  down".

Configurations run by hand; TLC prints the trace of each:

* `MCGovernorLostCancellation.cfg` (`CancellationEndsWait`): **a cancellation can
  be lost** (`src/resource_governor.cpp:731-754`). The waiter tests the flag under
  the mutex and then sleeps; `request_cancellation` stores the flag (`:351`) and
  notifies (`:360`) without it. Both can fall in between, and the request sleeps
  until an unrelated event. `docs/v1.8/deadline-cancellation.md:3`: "Cancellation
  uses direct governor notification. [...] so cancellation latency does not
  depend on a polling interval."
* `MCGovernorExpiredReservation.cfg` (`FittingOldestIsAwake`): **a reservation that
  expires wakes nobody** (`:739-749`). The request that held back the free permits
  leaves at its deadline without a pass or a notification; the next one fits and
  sleeps on (`docs/v1.8/admission-policies.md:14`).
* `MCRoutesStaleProbe.cfg` (`RevalidationIsABBA`): **a stale probe is applied to a
  new profile** (`adaptive_route_selector.hpp:242-268`). `complete` compares the
  nonce only to release the slot. A revalidation sample of an evicted profile
  moves its successor into the middle of a revalidation that compares candidate 0
  with itself. `docs/v1.5/architecture.md:27` promises "stable A, challenger A,
  challenger B, stable B".
* `MCRoutesStaleHotRoute.cfg` (`PromotionReachesHotRoutes`): **a promotion can miss a
  hot cache** (`vision/src/threshold.cpp:869-905`). The route comes from an earlier
  snapshot and the epoch is read at the store. `docs/v1.5/architecture.md:25`:
  "Hashed generation counters invalidate stale thread-local entries when another
  thread promotes a different route."
* `MCRoutesWideHoldout.cfg` (`LearningConverges`): **a holdout larger than the sample
  window never completes** (`adaptive_route_selector.hpp:519-536,994-1002`).
  `add_sample` keeps only the window, `holdout_complete` waits for more, and neither
  setting is validated (`core/config.hpp:230-231`): the profile probes for ever. The
  comment at `:210` says "bounded learning must always converge". Settings that fit
  are the hypothesis `HoldoutFits` of the theorem.
* `MCOperationsApproved.cfg` (`ReplayAsReviewed`): **an approved entry goes on
  learning** (`src/operation.cpp:673`). A call of an adaptive, read-write Runtime
  replaces the plan of an entry and keeps its status Approved; an export and a
  deterministic Runtime then replay a plan that nobody reviewed
  (`docs/v1.7/candidate-approved.md:10`).
* `ClearIsBarrier` of `ParallelFor`, as an invariant of `MCLoops.cfg`: **a clear is
  undone by a descendant**. A nested loop below a learning call reads the cache
  epoch after its execution (`execution/parallel.hpp:785`), so that an observation
  made before a clear is stored after it.
  `docs/archive/validation-history/V1_1_FINAL_PRODUCTION_HARDENING.md:11`: "Cache
  clear is an epoch barrier: pre-clear observations cannot repopulate current
  state." For the call's own observation it holds (`OwnObservationsFresh`).

* `MCLoopsOwnProfile.cfg` (`PlansFromOwnProfile`): **a plan of the session is
  installed against a profile it was not computed from**. A nested call whose
  session remembers a plan still samples and stores a new generation when it has no
  profile (`execution/parallel.hpp:1358-1392`), and then publishes the remembered
  plan with that generation (`:1494-1497`).
  `profiling/function_profile_cache.hpp:78-79`: "Stable plans may only be installed
  against the exact profile generation used to compute them." What holds is
  `PlansMatchProfiles`: plan and profile are then of one root call.
* `MCAlgorithmsStableAfterBoth.cfg` (`StableAfterBoth`): **a dispatch entry is made
  stable with one observation**. When the scheduled route took longer than the limit
  of a probe, `select` and `complete` settle on it without measuring the sequential
  one (`algorithm_dispatch.hpp:198-203,258-265`). `docs/v1.4/architecture.md:50`: "the
  cache selects a stable route only after both observations exist". What holds is
  `RoutesEarned`: the route that is settled on was measured, and a sequential one
  only after both were.
* `MCExperienceForgotten.cfg` (`NothingForgotten`): **`load_once` of a missing file
  forgets unsaved samples** (`experience/experience_database.hpp:319`). If the database
  is cleared between an execution's load and its record, the sample is in a database
  that is not loaded; the next execution finds no file, sets `dirty_records_` to 0 and
  keeps the sample. The autosave then comes later than its interval, and a crash
  loses more. `AutosaveKeepsUp` has this as its exception.

Met while modelling, without a configuration of their own:

* Whether a sum that overflows shows it depends on where the leaves are cut
  (`canonical_reduction.hpp:190-196`): with a `-inf` in a leaf of its own and two
  numbers of 1e308 in the next the result is NaN, in one leaf it is `-inf`. The result
  is a function of the leaf size and the operands, not of the operands alone.
* A save whose last lines fail to be written when the stream is destroyed has
  already returned true and reset the counter (`experience_database.hpp:561-563`).
* A nested operation may use more workers than the operation that calls it, if that
  one is nested too (`src/operation.cpp:386-391`).
* If `make_shared<LeaseControl>` throws after a grant, nothing returns the permits
  (`src/resource_governor.cpp:764`).

* An entry that has learned has a new hash and warms a call again
  (`docs/v1.7/warm-start.md:7`); an entry whose warm start was refused is marked and
  not warmed again (`src/operation.cpp:553`).
* A plan learned with fewer jobs than the budget is later found incompatible.
* Two writers of the same content and path share the name of the temporary file
  (`src/profile.cpp:831`).
* `conservative_nested_learning` of a nested cold call is overwritten when its
  lineage is inherited (`execution_context.hpp:216`, `parallel.hpp:1012`).
* A call that selected its backend before a new generation of the calibration
  resets the newer evidence (`backend_calibration.hpp:51,96`).
* The database's `clear()` is undone by the next execution, which loads the file
  again; the learner's is not. `ResidualLoadState` is one per process although
  learners belong to a Runtime. A torn residual file is restored up to the cut
  (`hierarchical_residual_model.hpp:435`).
* Whether the database was saved is read from its counter after the save
  (`runtime_experience.hpp:146`); a record of another thread in between suppresses
  the save of the learner.
* `OnlineExplorationPolicy::select` has no caller and `exploration_applied` is never
  set.
* Pool jobs that call `ThreadPool::wait()` reentrantly wait for each other
  (`src/thread_pool.cpp:308`).

## 5. Proofs

TLAPS proves the 45 theorems of `PROJECT.json` for every value of the constants:
any number of calls, threads, workers, regions, loops, routes and files, any budget
and limit, and any nesting that has no cycle. Each proof module `USE`s the named
`ASSUME`s of the module it is about, which TLC evaluates in every run: finite sets
of calls, workers, regions and selector threads; positive budgets and limits;
model values that differ; inputs of their types. Three of them say more than
types: regions, and operations, nest without a cycle (a `NestingAssumption` in
`ThreadPool` and one in `ReproducibleRuntime`: a callback cannot execute a call it
is inside of), and there is at least one image (`VisionAssumption`).

Three hypotheses appear in statements, because without them the code does
otherwise: section 4 has the traces for the first two, section 2 describes the
third.

* `ProbedProfilesStay`: no eviction and no clear takes a profile from under a running
  probe. `HoldoutProved`, `ABBAProved` and `ConvergenceProved` assume it.
* `HoldoutFits`: the sample window has room for a holdout (`ConvergenceProved`).
* `LoadsAtHome`: the application's own `load_experience` names the configured path
  (`LoadsProved`). It may save anywhere.

**Governor** (`ResourceGovernorProofs`). `TypeOK` is inductive only together with
`HolderHasHandle`: otherwise `DropHandle` could take a handle count below zero.
The layers, each using the ones before:

* `TypeInv`: `TypeOK` and `HolderHasHandle`.
* `LifeInv`: `Locking` (a thread inside the pass holds the mutex, and only one),
  `Lifecycle` (place, status and result of a call agree), `QueueMembers` (who can
  be in the deque), `SweptQueue` (in a pass, the entries not yet scanned are
  unflagged). It gives `LosersLeaveNothing` and
  `PermitsOutliveHandles`.
* `PermitInv`: `PermitConservation`, `BudgetRespected` and `GrantsFit` (no grant is
  larger than the budget). Conservation counts pairs (call, permit), so
  that a grant or a release changes the count by a disjoint union of known size.
* `QueueInv`: `Ordered` (sequence numbers of the deque are distinct and below the
  next one), `ReservedIsOldest`, `ScanJustified` (during a scan the oldest is under its
  limit and has no reservation, and every request already passed does not fit
  the permits that are free *now*), `BypassBounded`. From it
  follow the action properties `ReservationProtected` and
  `OnlyBlockedAreOvertaken`.
* `WaitersFitIdleGovernor` follows from the validation that precedes the queue, and
  `NoStall` from it: if nobody holds permits or is awake, the last pass would have
  granted the oldest request, which fits.
* `CountInv` gives every counter of `snapshot()` the set of calls it counts; each
  exit moves one call from one set to another (`CountersBalance`).
* `RefinementProved`: with the mapping of `ImplementsPool`, the initial state maps to
  one of `PermitPool`, `GrantOne`, the losing exits and `Release` to its steps, and
  all others to stutters.

**Pool** (`ThreadPoolProofs`, `PoolStackProofs`).
`PoolTypeCorrect` includes that a chunk ends within its region. `LifeInv` has
`PlacesApart` (callers and jobs are at places of their own), `Submission` (the loop
counter agrees with the jobs that exist) and `Departure` (a region whose wait has
ended has no live job); `RemainingExact` says that the completion count is the
number of helpers published and not yet reported, plus one between registration
and publication. It is what makes `Departure` inductive: the wait ends when the
count is zero, and only exactness turns zero into "no job is left". The lease part
adds who may hold a lease and that the session's counter is the number of holders.

The refinement adds who owns which index (`OwnInv`): chunks are disjoint, lie
below the offset, and what was called of a chunk is its beginning; a region that
returns normally has handed out everything. With it every step of `ThreadPool` is
one of `ParallelRegions` or a stutter (`PromiseProved`). `PoolStackProofs` is
about threads: because callbacks execute nested regions and a waiting caller runs
its own helpers, a thread is inside several consumers, and `StackInv` says that
they are a stack whose levels rise with the nesting. That is what
`NestingAssumption` is for. From the stack follow `PoolCountersExact`,
`NoSleeperBesideJobs` and `ParticipantsAreLeased`: each callback entered by a
thread that was not already in the session is paired with a lease or a fallback.

**Vision routes** (`VisionRoutesProofs`). `SlotInv` types the entries and contains
`ProbeSlotOwned`; it needs no hypothesis, and `SingleFlight` follows. `LearnedInv` adds
that every entry is `Sound` (each phase has the samples the phases before it took)
and that the selection of a probing call is `Attached` to the entry as it still is;
the second is what an eviction under a probe would break, hence
`ProbedProfilesStay`. Convergence is a well-founded order: every completed probe
makes the entry stable, spends one of finitely many verification failures, or adds
an observation below a bound.

**Operations** (`ReproducibleRuntimeProofs`). `CallsInv` has a part for each
property: `PermitsInv` (permits are with active top-level calls; a nested call is inside
a running one and has its lease, so that the lease is a top-level call's at every
depth, and no more workers than that lease), `ReplayInv` (the plan, contract and
grant of a call come from the Approved entry it found), `WarmInv` (who was
warm-started since the last load is in `warm_started_entries`), `SampleInv` (a recorded
sample is at most the entry's count). `FilesInv` says whose temporaries are
whose and that a complete one loads; the rename of a complete temporary is what keeps
`SavedFilesWhole`.

**Experience** (`ExperienceStoreProofs`). `SavedInv`: the samples in memory that
`home` lacks are finitely many and at most `dirty` (`KeepsUp`), and an execution that is
not interrupted records in a loaded database (`OnTime`). The second part is what
makes the first inductive: `load_once` of a missing file resets the counter, and
`OnTime` says that it is then 0 already. The exceptions `torn` and `interrupted` are in
the statement, and end with the next whole save or load. `LoadedInv`: until the learner's
or the database's file counts as loaded, what is in memory is in that file or
there is nothing, also if the file was torn.

**Algorithms** (`ParallelAlgorithmsProofs`). `CacheInv`: nonces of probes are
distinct and below the next one, and an entry that waits for a probe is held by the
call with its nonce. `BoundInv` bounds a shard: an insertion evicts enough entries, or
all that are not probed, and the probed ones have different callers other than the
one that inserts (`ProbedFew`, an injection). Last uses are a relation, not a
sequence, so that a use needs no recursive filter. `ResultsInv` relates chunks, the shared atomic, visits and
result of each call. The lemmas below it (`EvenCut`, `LeafCut`, `ChunksCut`) show
that `algorithm_chunk_range` and the canonical leaves cut the range into
non-empty, disjoint, covering intervals for all sizes and chunk counts. From them
`SearchesExact` follows: `find_if` has the smallest match, because the atomic never
rises and a chunk stops early only at an index that is not below it.

`ReductionsInv`, beside `ResultsInv`, says what a reduction has combined so far.
Each chunk begins where the one before it ends (`ChunksFollow`, from the cut); a
partial result is that of its chunk, whichever order the chunks ended in; while
`step` of them are added the result is `init` and every element below chunk `step`
(`SumOf`, `SumGrows`). For the canonical tree, `TreeOK` describes the states before
a pass of a width: at each multiple of the width stands the block of that many
leaves, or the shorter last one, with exactly the pairs whose split lies inside it.
`TreeGrows` shows that a pass doubles the width: a state whose partner is beyond
the last leaf stays, and is already the block of twice the width. Widths are powers
of two (`WidthOK`, `WidthDoubles`), so that the splits that a pass adds are exactly
those of the definition at that width (`SplitsDouble`), and once the width reaches
the number of leaves the first state has all of them (`TreeEnds`). The same
invariant bounds the flags of special values from both sides (`Sees`): they are those
of all elements of the block, and beyond these only infinities that the call's
finite numbers may overflow to. The
passes are steps of the model, which is what makes this an induction over steps and
not over data.

**parallel_for** (`ParallelForProofs`). The inductive invariant has four parts.

* `CallsInv` describes one call at a time (`CallOK`) and relates it to its parent
  only. `Counted`: the callback was called once with every index except those in
  `Left`, the indices that are still to come at this place; a pilot leaves all but
  index 0, samples leave the gaps, a return leaves nothing, and `ExactlyOnce` is
  the last of these cases. `Lined`: a context carries on that something above it is
  parallel, and with the frontier a plan below it is sequential. `Inside`: a nested
  call runs inside the callback of its parent that made it, and no other call does;
  without it, a parent could end or change its context under its children.
  `OneFrontier` is about all calls around a call (`Around`, the least set closed under
  `Parent`); the calls that run and have nothing parallel at or above them are
  such a closed set, so that no induction over the depth is needed.
* `GlobalInv` is about the caches: every profile is typed and comes from the current
  epoch (`Fresh`); every calibration has evidence of one generation and a winner
  only after measuring both backends. `OwnObservationsFresh` follows; the
  lemmas about `find`, `store`, `make_room_for`, `store_stable_plan`, `select` and
  `record` show that each of these functions preserves it for any cache.
* `BasisInv` is about where plans come from. A call has the root and a session of the
  calls around it (`Line`), a session remembers plans of its root call (`SessionsOK`), a
  plan that a call is about to install is of its root call and, unless remembered, of
  the generation it goes with (`Recalled`), and the generation that goes with a
  remembered plan was made by the same root call (`Measured`). With `GlobalInv` this is
  `PlansMatchProfiles`. That all calls around one have its root again needs `Around`.
* `MarkersInv`: the calls that hold a marker and the markers in the cache are in
  one-to-one correspondence (`Owned`), although a clear keeps the markers and
  drops the entries they were taken for. With `Cardinality` this is `MarkersOwned`.

Every step is reduced to one of a few shapes (`Own`: a call moves itself; a
callback enters or leaves a nested call; a call ends), for which preservation is
proved once.

**Only model-checked**:

* `AcquireReturns`, `RegionsEnd`, `AdmissionEnds`: liveness under fairness.
* `TypeOK` of `VisionRoutes` and `ParallelFor`, checked by adding it to their
  configurations.

## 6. What is not modelled

* Prediction, ranking and residual formulas, and the statistics of calibration and
  profiling: floating-point functions without protocol state. `DecisionEngine`
  enters `ParallelFor` as the set of plans it may return.
* Pixel kernels, the arithmetic of linear algebra and stencils, view extents and
  overlap checks: data of one call.
* `ThreadPool::submit`, `wait` and `execute_visible_work`: not used by parallel
  regions. The static engines run a fixed partition on fresh threads and join them;
  oneTBB and OpenMP engines hand the loop to a library.
* OpenCV thread-count containment (`vision/src/opencv_provider.cpp`) and the explicit
  vision routes.
* Hardware detection and the printing command-line tools: input and output.
* Allocation failure, except where the code handles it at a submission.
* In the thread pool, the moment between the publication of a job and its
  `notify_one`, in which a worker may sleep beside the job (section 2).
* Two writers of one profile path (section 2, `Designated`).

Of the repository's C++ lines the larger part is not the library: copies of its
headers and sources under `validation/output` (about 21,000 lines), benchmarks
(about 12,000), validation programs, tests and examples. The models map the part
with state and control, about 8,100 lines of the library's 29,000.

## 7. Plan

Done: models and runs of all components of section 2; the theorems of section 5,
among them both refinements and every safety invariant and safety action property
of the passing runs.

Left: the type invariants of `VisionRoutes` and `ParallelFor`, whose orders of access are
sequences filtered with `SelectSeq`; as relations, like the one of
`ParallelAlgorithms`, they could be reasoned about. Liveness stays with TLC.
