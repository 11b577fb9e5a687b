----------------------------- MODULE ParallelFor -----------------------------
(***************************************************************************)
(* smart::parallel_for (parallel.hpp): how a call, at the root or in the   *)
(* callback of another, gets its plan from the session, the profile cache, *)
(* a cold execution or the decision engine, how it executes its indices,   *)
(* and what it learns.  Calls of several threads share the caches.         *)
(*                                                                         *)
(* The backends (execute_workload) are modelled by what they promise:      *)
(* every index is executed once, in order by a sequential plan, and a      *)
(* failed execution ends after the callbacks that have begun.  Measured    *)
(* times, the decision engine and the granularity limits are inputs.       *)
(* Sessions, the profile cache and plan memos are enabled, as by default.  *)
(***************************************************************************)
EXTENDS FunctionProfileCache

CONSTANTS
    Loops,          \* the calls of parallel_for: roots and the calls nested
    NoLoop,         \* in their callbacks
    Parent, At,     \* the call, and the index, whose callback makes a call
    Site,           \* callsite and iteration bucket
    NoSite,
    Total,          \* the number of iterations, at least 1
    Configs,        \* the configurations of a process; with each, its inputs
                    \* (the roots it calls, the workers they are granted, the
                    \* costs that are measured, the <<call, index>> whose
                    \* callback may throw) and its bounds (calls of roots, how
                    \* many of these, first, are made one at a time, clears)
    MaxSnapshots,   \* nested_plan_snapshot_max_entries
    profile_regions, profile_max_samples,
    MaxCalls        \* bound on the calls of roots

ASSUME LoopAssumption ==
    /\ NoLoop \notin Loops
    /\ Parent \in [Loops -> Loops \cup {NoLoop}]
    /\ Total \in [Loops -> Nat \ {0}]
    /\ \A l \in Loops : Parent[l] # NoLoop => At[l] \in 0..(Total[Parent[l]] - 1)
    /\ \A x \in Configs : /\ \A l \in x.roots : l \in Loops /\ Parent[l] = NoLoop
                          /\ x.grants \subseteq Nat \ {0}
                          /\ x.costs \subseteq Costs
                          /\ x.signals \subseteq BOOLEAN
                          /\ {x.frontier, x.online, x.sampling} \subseteq BOOLEAN
                          /\ x.calls <= MaxCalls
    /\ profile_regions \in Nat /\ profile_max_samples \in Nat \ {0}

VARIABLES
    config,         \* the configuration, fixed for a process
    cache,          \* global_function_profile_cache
    calibration,    \* global_backend_calibration_cache
    calibration_frozen,
    snapshots,      \* plan_snapshots_ of the session a call created
    traces,         \* calls with a pending trace in their session
    pc, ctx, loc,   \* where a call is, its ExecutionContext, its locals
    todo,           \* indices to execute in this phase
    running,        \* indices whose callback is inside a nested call
    failed,         \* a callback has thrown
    count,          \* how often the callback was called with an index
    calls, clears

shared == <<cache, calibration, calibration_frozen>>
local  == <<pc, ctx, loc, todo, running, failed, count>>
vars   == <<config, shared, snapshots, traces, local, calls, clears>>

Roots     == {l \in Loops : Parent[l] = NoLoop}
Items(l)  == 0..(Total[l] - 1)
Child(l, i) == {c \in Loops : Parent[c] = l /\ At[c] = i}
Lesser(a, b)  == IF a <= b THEN a ELSE b
Greater(a, b) == IF a >= b THEN a ELSE b

NoContext ==
    [parallel |-> FALSE, engine |-> "Auto", conservative |-> FALSE,
     sealed |-> FALSE, ancestor |-> FALSE, session |-> NoLoop, budget |-> 1,
     grant |-> 1, site |-> NoSite, collects |-> FALSE, nested |-> FALSE,
     root |-> 0]

\* A plan a session remembers, with its basis.
NoMemo == [plan |-> NoPlan, basis |-> NoBasis]

NoLocals ==
    [path |-> "none", began |-> 0, since |-> 0, entry |-> NoEntry,
     generation |-> 0, revalidates |-> FALSE, builds |-> FALSE,
     stores |-> TRUE, cost |-> "none", plan |-> NoPlan, basis |-> NoBasis,
     memo |-> NoMemo, stable |-> FALSE, calibrates |-> FALSE, sampled |-> {}]

Init ==
    /\ config \in Configs
    /\ cache = EmptyCache
    /\ calibration = <<>> /\ calibration_frozen = FALSE
    /\ snapshots = [l \in Loops |-> <<>>]
    /\ traces = {}
    /\ pc = [l \in Loops |-> "idle"]
    /\ ctx = [l \in Loops |-> NoContext]
    /\ loc = [l \in Loops |-> NoLocals]
    /\ todo = [l \in Loops |-> {}]
    /\ running = [l \in Loops |-> {}]
    /\ failed = [l \in Loops |-> FALSE]
    /\ count = [l \in Loops |-> [i \in Items(l) |-> 0]]
    /\ calls = 0 /\ clears = 0

-----------------------------------------------------------------------------
(* Contexts.                                                               *)

\* The context active where a call is made; a root's carries its grant.
Up(l) == IF Parent[l] = NoLoop THEN [NoContext EXCEPT !.grant = ctx[l].grant]
         ELSE ctx[Parent[l]]

Nested(l)        == Parent[l] # NoLoop

\* Mutant: only the direct parent is asked.
UnderParallelParent(l) == Up(l).parallel

UnderParallel(l) == Up(l).parallel \/ Up(l).ancestor

\* inherit_execution_lineage: a nested call takes over, and overwrites its own,
\* conservative_nested_learning.
inherit_execution_lineage(l, c) ==
    IF ~Nested(l) THEN c
    ELSE [c EXCEPT !.ancestor = UnderParallel(l),
                   !.conservative = Up(l).conservative,
                   !.sealed = @ \/ Up(l).sealed,
                   !.collects = @ \/ Up(l).collects,
                   !.session = IF @ = NoLoop THEN Up(l).session ELSE @]

make_execution_context(l) ==
    [NoContext EXCEPT !.site = Site[l], !.grant = Up(l).grant,
                      !.root = IF Nested(l) THEN Up(l).root ELSE ctx[l].root]

\* The fields of a FunctionProfileKey that differ between calls.
Key(l) == <<Site[l], Up(l).site, Up(l).grant>>

\* Calls of a tree keep their session and their pending traces in it.
Tracing(l) == config.trace /\ ctx[l].session # NoLoop

-----------------------------------------------------------------------------
(* Calls.                                                                  *)

\* Root admission is refused: an exception, before anything is touched.
AdmissionRefused ==
    /\ calls < config.calls
    /\ \A l \in Roots : pc[l] = "idle"
    /\ calls' = calls + 1
    /\ UNCHANGED <<config, shared, snapshots, traces, local, clears>>

\* A thread calls parallel_for and is admitted with g workers.
CallRoot(l) ==
    /\ l \in config.roots /\ pc[l] = "idle" /\ calls < config.calls
    /\ calls < config.alone => \A r \in Roots : pc[r] = "idle"
    /\ \E g \in config.grants :
         ctx' = [ctx EXCEPT ![l] = [NoContext EXCEPT !.grant = g, !.root = calls + 1]]
    /\ pc' = [pc EXCEPT ![l] = "called"]
    /\ calls' = calls + 1
    /\ UNCHANGED <<config, shared, snapshots, traces, loc, todo, running, failed,
                   count, clears>>

Plans == [parallel : BOOLEAN, engine : Engines, jobs : Nat \ {0}]

Parallel(e, n) == [parallel |-> TRUE, engine |-> e, jobs |-> n]

\* The context in which a plan is executed.
Planned(c, plan) ==
    [c EXCEPT !.parallel = plan.parallel, !.budget = plan.jobs,
              !.engine = IF plan.parallel THEN plan.engine ELSE "Auto"]

Executes(l, phase, c, items) ==
    /\ pc' = [pc EXCEPT ![l] = phase]
    /\ ctx' = [ctx EXCEPT ![l] = c]
    /\ todo' = [todo EXCEPT ![l] = items]

\* An exact plan is installed around a root: no session, no learning.  It is
\* suspended while callbacks run.
exact_plan(l) ==
    /\ pc[l] = "called" /\ ~Nested(l)
    /\ \E plan \in {Sequential} \cup {Parallel(e, ctx[l].grant) : e \in Engines} :
         /\ Executes(l, "direct",
                     [Planned(make_execution_context(l), plan) EXCEPT !.site = NoSite],
                     Items(l))
         /\ loc' = [loc EXCEPT ![l].path = "exact", ![l].plan = plan]
    /\ UNCHANGED <<config, shared, snapshots, traces, running, failed, count,
                   calls, clears>>

SealedDirect(l) ==
    /\ Nested(l) /\ Up(l).session # NoLoop /\ Up(l).sealed
    /\ ~Up(l).conservative /\ ~config.trace

\* A descendant of a sealed frontier runs in its parent's context.
sealed_descendant_direct(l) ==
    /\ pc[l] = "called" /\ SealedDirect(l)
    /\ pc' = [pc EXCEPT ![l] = "direct"]
    /\ ctx' = [ctx EXCEPT ![l] = Up(l), ![Parent[l]].nested = @ \/ Up(l).collects]
    /\ todo' = [todo EXCEPT ![l] = Items(l)]
    /\ loc' = [loc EXCEPT ![l].path = "sealed", ![l].plan = Sequential]
    /\ UNCHANGED <<config, shared, snapshots, traces, running, failed, count,
                   calls, clears>>

InheritsFrontier(l) ==
    /\ Nested(l) /\ Up(l).session # NoLoop
    /\ \/ Up(l).conservative
       \/ Up(l).sealed
       \/ config.frontier /\ UnderParallel(l)

\* Any other descendant of a parallel or of a learning call is sequential too.
inherited_parallel_frontier(l) ==
    /\ pc[l] = "called" /\ ~SealedDirect(l) /\ InheritsFrontier(l)
    /\ Executes(l, "direct",
                inherit_execution_lineage(l, make_execution_context(l)),
                Items(l))
    /\ loc' = [loc EXCEPT ![l].path = "inherited", ![l].plan = Sequential,
                          ![l].began = cache.epoch]
    /\ traces' = IF config.trace THEN traces \cup {l} ELSE traces
    /\ UNCHANGED <<config, shared, snapshots, running, failed, count, calls, clears>>

\* Every other call decides for itself; without a session it creates one.
\* find_plan_snapshot is part of this step.
Decides(l) ==
    /\ pc[l] = "called" /\ ~SealedDirect(l) /\ ~InheritsFrontier(l)
    /\ LET new == Up(l).session = NoLoop
           s   == IF new THEN l ELSE Up(l).session
           own == [make_execution_context(l) EXCEPT !.session = s]
           hit == ~new /\ Key(l) \in DOMAIN snapshots[s]
       IN  /\ ctx' = [ctx EXCEPT ![l] = inherit_execution_lineage(l, own)]
           /\ snapshots' = IF new THEN [snapshots EXCEPT ![l] = <<>>] ELSE snapshots
           /\ loc' = [loc EXCEPT ![l].path = "main",
                        ![l].memo = IF hit THEN snapshots[s][Key(l)] ELSE NoMemo]
    /\ pc' = [pc EXCEPT ![l] = "epoch"]
    /\ UNCHANGED <<config, shared, traces, todo, running, failed, count, calls, clears>>

-----------------------------------------------------------------------------
(* Looking up what is known: one locked access of the cache per step.      *)

Elsewhere == UNCHANGED <<config, calibration, calibration_frozen, snapshots,
                         running, failed, count, calls, clears>>

\* A call with a plan of its session asks the cache for nothing.
Remembers(l) == loc[l].memo.plan # NoPlan

SampleOrDecide == IF config.sampling THEN "sample" ELSE "decide"

ReadEpoch(l) ==
    /\ pc[l] = "epoch"
    /\ loc' = [loc EXCEPT ![l].since = cache.epoch, ![l].began = cache.epoch]
    /\ pc' = [pc EXCEPT ![l] = IF Remembers(l) THEN SampleOrDecide ELSE "find"]
    /\ UNCHANGED <<cache, traces, ctx, todo>>
    /\ Elsewhere

\* Where a call without a usable profile goes on.
Unprofiled(found) ==
    CASE config.online /\ ~found   -> "build"
      [] config.online /\ found    -> "cold"
      [] ~config.online            -> SampleOrDecide

RevalidationDue(e, aged) ==
    LET predicts_sequential == e.cost # "Above" IN
    \/ (predicts_sequential \/ ~e.reliable) /\ e.observations < MinObservations
    \/ predicts_sequential /\ e.fast_uses >= FastPathInterval
    \/ e.plan # NoPlan /\ e.plan_uses >= StablePlanInterval
    \/ aged

FindProfile(l) ==
    /\ pc[l] = "find"
    /\ cache' = find(cache, Key(l))
    /\ LET e == Found(cache, Key(l)) IN
         \E aged \in BOOLEAN :
           LET due == e # NoEntry /\ RevalidationDue(e, aged)
               hit == e # NoEntry /\ ~due
           IN  /\ aged => e # NoEntry /\ config.ages
               /\ loc' = [loc EXCEPT ![l].entry = e, ![l].generation = e.generation,
                            ![l].cost = IF hit THEN e.cost ELSE "none"]
               /\ pc' = [pc EXCEPT ![l] = CASE hit -> "chosen"
                                            [] due -> "revalidate"
                                            [] OTHER -> Unprofiled(FALSE)]
    /\ UNCHANGED <<traces, ctx, todo>>
    /\ Elsewhere

\* Single flight: whoever does not get the marker uses the cached profile.
Revalidate(l) ==
    /\ pc[l] = "revalidate"
    /\ cache' = try_acquire_revalidation(cache, Key(l))
    /\ LET owns == MayRevalidate(cache, Key(l)) IN
         /\ loc' = [loc EXCEPT ![l].revalidates = owns,
                               ![l].cost = IF owns THEN "none" ELSE loc[l].entry.cost]
         /\ pc' = [pc EXCEPT ![l] = IF owns THEN Unprofiled(TRUE) ELSE "chosen"]
    /\ UNCHANGED <<traces, ctx, todo>>
    /\ Elsewhere

\* Only the owner of the marker publishes what a first execution measures.
BuildProfile(l) ==
    /\ pc[l] = "build"
    /\ cache' = try_acquire_profile_build(cache, Key(l))
    /\ loc' = [loc EXCEPT ![l].builds = MayBuild(cache, Key(l)),
                          ![l].stores = MayBuild(cache, Key(l))]
    /\ pc' = [pc EXCEPT ![l] = "cold"]
    /\ UNCHANGED <<traces, ctx, todo>>
    /\ Elsewhere

-----------------------------------------------------------------------------
(* Cold executions: learning from the real, only execution.                *)

Threshold(l)  == ctx[l].grant * config.per_worker
Analytical(l) == ~Nested(l) /\ ctx[l].grant > 1 /\ Total[l] >= Threshold(l)
Pilot(l)      == /\ ~Nested(l) /\ ctx[l].grant > 1
                 /\ Total[l] >= ctx[l].grant /\ Total[l] < Threshold(l)

\* A cold call runs with `plan'; unless that is parallel its descendants learn
\* sequentially, except that a nested call inherits its parent's setting.
ColdContext(l, plan) ==
    [Planned(ctx[l], plan) EXCEPT
       !.conservative = ~plan.parallel, !.collects = TRUE,
       !.sealed = plan.parallel /\ config.frontier]

begin_trace(l) == traces' = IF Tracing(l) THEN traces \cup {l} ELSE traces

\* A large root starts in parallel.
AnalyticalCold(l) ==
    /\ pc[l] = "cold" /\ Analytical(l)
    /\ LET plan == Parallel("ThreadPool", Lesser(ctx[l].grant, Total[l])) IN
         /\ Executes(l, "learning", ColdContext(l, plan), Items(l))
         /\ loc' = [loc EXCEPT ![l].plan = plan]
    /\ begin_trace(l)
    /\ UNCHANGED cache
    /\ Elsewhere

\* A coarse root executes its first index alone ...
PilotCold(l) ==
    /\ pc[l] = "cold" /\ Pilot(l)
    /\ Executes(l, "pilot", ColdContext(l, Sequential), {0})
    /\ loc' = [loc EXCEPT ![l].plan = Sequential]
    /\ UNCHANGED <<cache, traces>>
    /\ Elsewhere

\* ... and all others sequentially.
DirectCold(l) ==
    /\ pc[l] = "cold" /\ ~Analytical(l) /\ ~Pilot(l)
    /\ Executes(l, "learning",
                inherit_execution_lineage(l, ColdContext(l, Sequential)),
                Items(l))
    /\ loc' = [loc EXCEPT ![l].plan = Sequential]
    /\ begin_trace(l)
    /\ UNCHANGED cache
    /\ Elsewhere

Executed(l) == todo[l] = {} /\ running[l] = {} /\ ~failed[l]

\* The remaining indices, in parallel if the first one was expensive.
AfterPilot(l) ==
    /\ pc[l] = "pilot" /\ Executed(l)
    /\ \E promoted \in BOOLEAN :
         LET rest == Total[l] - 1
             plan == IF promoted THEN Parallel("ThreadPool", Lesser(ctx[l].grant, rest))
                     ELSE Sequential
         IN  /\ promoted => rest > 1
             /\ Executes(l, "learning", ColdContext(l, plan), Items(l) \ {0})
             /\ loc' = [loc EXCEPT ![l].plan = plan]
    /\ begin_trace(l)
    /\ UNCHANGED cache
    /\ Elsewhere

\* What an execution or a sample of it may have measured.
Observation(l, c, r) ==
    [cost |-> c, reliable |-> r, nested |-> ctx[l].nested, group |-> ctx[l].root,
     since |-> loc[l].began, lax |-> loc[l].path = "inherited"]

Stores(l, c, r, next) ==
    /\ cache' = store(cache, Key(l), Observation(l, c, r), loc[l].since)
    /\ loc' = [loc EXCEPT ![l].cost = c,
                 ![l].generation = StoredGeneration(cache, Key(l), loc[l].since)]
    /\ pc' = [pc EXCEPT ![l] = next]
    /\ UNCHANGED <<traces, ctx, todo>>
    /\ Elsewhere

\* What a parallel or a promoted execution tells of one iteration is not
\* reliable.
LearnCold(l) ==
    /\ pc[l] = "learning" /\ Executed(l)
    /\ IF loc[l].stores
       THEN \E c \in config.costs, r \in config.signals :
              Stores(l, c, r /\ ~loc[l].plan.parallel, "done")
       ELSE /\ pc' = [pc EXCEPT ![l] = "done"]
            /\ UNCHANGED <<cache, loc, traces, ctx, todo>>
            /\ Elsewhere

\* A descendant of a learning call publishes what it measured, too; it reads
\* the epoch after its execution.
LearnEpoch(l) ==
    /\ pc[l] = "direct" /\ Executed(l)
    /\ loc[l].path = "inherited" /\ Up(l).conservative
    /\ loc' = [loc EXCEPT ![l].since = cache.epoch]
    /\ pc' = [pc EXCEPT ![l] = "learned"]
    /\ UNCHANGED <<cache, traces, ctx, todo>>
    /\ Elsewhere

LearnDescendant(l) ==
    /\ pc[l] = "learned"
    /\ \E c \in config.costs, r \in config.signals : Stores(l, c, r, "done")

DirectEnds(l) ==
    /\ pc[l] = "direct" /\ Executed(l)
    /\ ~(loc[l].path = "inherited" /\ Up(l).conservative)
    /\ pc' = [pc EXCEPT ![l] = "done"]
    /\ UNCHANGED <<cache, loc, traces, ctx, todo>>
    /\ Elsewhere

-----------------------------------------------------------------------------
(* Fast path and sampling.                                                 *)

SeesNested(l) == loc[l].entry # NoEntry /\ loc[l].entry.nested # "none"

TinyWork(l) ==
    /\ ~Nested(l) /\ Total[l] = 1 /\ SeesNested(l)
    /\ loc[l].cost = "Below" /\ loc[l].entry.observations >= MinObservations

Unprofitable(l) ==
    /\ loc[l].cost = "Below" /\ ~SeesNested(l)
    /\ loc[l].entry.observations >= MinObservations /\ loc[l].entry.high

\* Cheap callbacks run at once; tiny work seals its descendants.
FastPath(l) ==
    /\ pc[l] = "chosen" /\ (TinyWork(l) \/ Unprofitable(l))
    /\ cache' = note_sequential_fast_path_use(cache, Key(l))
    /\ Executes(l, "fast",
         inherit_execution_lineage(l,
           [Planned(ctx[l], Sequential) EXCEPT
              !.sealed = TinyWork(l) /\ config.frontier]),
         Items(l))
    /\ loc' = [loc EXCEPT ![l].plan = Sequential]
    /\ begin_trace(l)
    /\ Elsewhere

\* Tiny work is below an absolute limit, too, or goes on to a decision.
NoFastPath(l) ==
    /\ pc[l] = "chosen" /\ ~Unprofitable(l)
    /\ pc' = [pc EXCEPT ![l] = "decide"]
    /\ UNCHANGED <<cache, loc, traces, ctx, todo>>
    /\ Elsewhere

FastEnds(l) ==
    /\ pc[l] = "fast" /\ Executed(l)
    /\ pc' = [pc EXCEPT ![l] = "done"]
    /\ UNCHANGED <<cache, loc, traces, ctx, todo>>
    /\ Elsewhere

\* parallel_for_sample_indices: round robin over the regions of the range, an
\* index at most once.
SampleCount(total) == Lesser(total, profile_max_samples)
Regions(total)     == Greater(1, Lesser(profile_regions, SampleCount(total)))

SampleAt(total, s) ==
    LET region == s % Regions(total)
        first  == (total * region) \div Regions(total)
        last   == (total * (region + 1)) \div Regions(total)
        width  == Greater(1, last - first)
    IN  first + Lesser(s \div Regions(total), width - 1)

sample_indices(total, n) == {SampleAt(total, q) : q \in 0..(n - 1)}

\* Sampling executes callbacks before the plan is made, until the time spent
\* is a signal or all samples are taken.
Sample(l) ==
    /\ pc[l] = "sample"
    /\ \E n \in 1..SampleCount(Total[l]) :
         LET s == sample_indices(Total[l], n) IN
           /\ todo' = [todo EXCEPT ![l] = s]
           /\ loc' = [loc EXCEPT ![l].plan = Sequential, ![l].sampled = s]
    /\ pc' = [pc EXCEPT ![l] = "sampling"]
    /\ UNCHANGED <<cache, traces, ctx>>
    /\ Elsewhere

LearnSample(l) ==
    /\ pc[l] = "sampling" /\ Executed(l)
    /\ \E c \in config.costs, r \in config.signals : Stores(l, c, r, "decide")

-----------------------------------------------------------------------------
(* The plan.                                                               *)

\* One frontier: descendants of a parallel loop are sequential; a level with
\* nested calls is deferred if it is too short for the workers, and promoted
\* if it is long enough and the work is worth it.
NestedFrontier(l, plan, worthwhile) ==
    LET nests == SeesNested(l) \/ ctx[l].nested IN
    CASE ~config.frontier                            -> plan
      [] config.frontier /\ UnderParallel(l)         -> Sequential
      [] config.frontier /\ ~UnderParallel(l) /\ nests
         /\ Total[l] < ctx[l].grant                  -> Sequential
      [] config.frontier /\ ~UnderParallel(l) /\ nests
         /\ Total[l] >= ctx[l].grant /\ worthwhile   -> Parallel("ThreadPool", ctx[l].grant)
      [] OTHER                                       -> plan

Limited(l, plan) ==
    IF plan.parallel
    THEN [plan EXCEPT !.jobs = Greater(1, Lesser(@, Lesser(ctx[l].grant, Total[l])))]
    ELSE Sequential

Profiled(l)  == loc[l].cost # "none"

StableHit(l) ==
    /\ ~Remembers(l) /\ Profiled(l) /\ ~loc[l].revalidates
    /\ loc[l].entry # NoEntry /\ loc[l].entry.plan # NoPlan

\* The plans a call may start from: the session's, the cached one, or what
\* the decision engine says.
Requested(l) ==
    CASE Remembers(l)  -> {loc[l].memo.plan}
      [] StableHit(l)  -> {loc[l].entry.plan}
      [] OTHER         -> {Sequential} \cup {Parallel(e, ctx[l].grant) : e \in Engines}

Basis(l) == IF Remembers(l) THEN loc[l].memo.basis
            ELSE [of |-> loc[l].generation, by |-> ctx[l].root]

Eligible(l, plan) ==
    config.calibrate /\ ~Nested(l) /\ plan.parallel /\ Profiled(l)
    /\ loc[l].generation # 0

AfterDecision(l, plan) == IF Eligible(l, plan) THEN "select" ELSE "prepare"

Decide(l) ==
    /\ pc[l] = "decide"
    /\ cache' = IF StableHit(l) THEN note_stable_plan_use(cache, Key(l)) ELSE cache
    /\ \E requested \in Requested(l), worthwhile \in BOOLEAN :
         LET plan == Limited(l, NestedFrontier(l, requested, worthwhile)) IN
           /\ worthwhile => Profiled(l)
           /\ loc[l].cost = "Above" => worthwhile
           /\ loc' = [loc EXCEPT ![l].plan = plan, ![l].basis = Basis(l),
                                 ![l].stable = StableHit(l),
                                 ![l].calibrates = Eligible(l, plan)]
           /\ pc' = [pc EXCEPT ![l] =
                       IF Profiled(l) /\ ~StableHit(l) /\ loc[l].generation # 0
                       THEN "publish" ELSE AfterDecision(l, plan)]
    /\ UNCHANGED <<traces, ctx, todo>>
    /\ Elsewhere

PublishPlan(l) ==
    /\ pc[l] = "publish"
    /\ cache' = store_stable_plan(cache, Key(l), loc[l].plan, loc[l].generation,
                                  loc[l].basis)
    /\ pc' = [pc EXCEPT ![l] = AfterDecision(l, loc[l].plan)]
    /\ UNCHANGED <<loc, traces, ctx, todo>>
    /\ Elsewhere

SelectBackend(l) ==
    /\ pc[l] = "select"
    /\ LET k == Key(l)
           known == k \in DOMAIN calibration
                    /\ calibration[k].generation = loc[l].generation
                    /\ calibration[k].winner # "none"
       IN  IF calibration_frozen
           THEN /\ loc' = [loc EXCEPT ![l].plan.engine =
                             IF known THEN calibration[k].winner ELSE @]
                /\ UNCHANGED calibration
           ELSE \E faster \in Engines :
                  \E r \in select(calibration, k, loc[l].generation,
                                  loc[l].plan.engine, faster) :
                    /\ calibration' = r[1]
                    /\ loc' = [loc EXCEPT ![l].plan.engine = r[2]]
    /\ pc' = [pc EXCEPT ![l] = "prepare"]
    /\ UNCHANGED <<config, cache, calibration_frozen, snapshots, traces, ctx, todo,
                   running, failed, count, calls, clears>>

\* NestedExecutionCoordinator::coordinate: under a parallel parent, the same
\* backend within the parent's budget, or sequential.
coordinate(l, plan) ==
    CASE ~plan.parallel                   -> Sequential
      [] plan.parallel /\ ~Up(l).parallel -> plan
      [] OTHER -> IF Up(l).budget <= 1 \/ Up(l).engine # plan.engine THEN Sequential
                  ELSE [plan EXCEPT !.jobs = Lesser(@, Up(l).budget)]

\* enforce_constraints: fewer workers if there is too little for each of them.
enforce_constraints(l, plan) ==
    LET left == Total[l] - Cardinality(loc[l].sampled)
        most == Lesser(plan.jobs, IF left = 0 THEN Total[l] ELSE left)
    IN  IF ~plan.parallel \/ Remembers(l) THEN {plan}
        ELSE {Sequential} \cup {[plan EXCEPT !.jobs = n] : n \in 2..most}

\* Mutant: samples are executed again.
RemainingAll(l) == Items(l)

Remaining(l) == Items(l) \ loc[l].sampled

\* store_plan_snapshot keeps the first plan of a key.
Remember(s, k, memo) ==
    IF k \in DOMAIN snapshots[s] \/ Cardinality(DOMAIN snapshots[s]) >= MaxSnapshots
    THEN snapshots
    ELSE [snapshots EXCEPT ![s] = [x \in DOMAIN @ \cup {k} |->
                                     IF x = k THEN memo ELSE @[x]]]

Prepare(l) ==
    /\ pc[l] = "prepare"
    /\ \E plan \in enforce_constraints(l, coordinate(l, loc[l].plan)) :
         /\ Executes(l, "execute",
              inherit_execution_lineage(l,
                [Planned(ctx[l], plan) EXCEPT !.sealed = plan.parallel /\ config.frontier]),
              Remaining(l))
         /\ loc' = [loc EXCEPT ![l].plan = plan]
         /\ snapshots' = IF Remembers(l) \/ loc[l].stable THEN snapshots
                         ELSE Remember(ctx[l].session, Key(l),
                                       [plan |-> plan, basis |-> loc[l].basis])
    /\ begin_trace(l)
    /\ UNCHANGED <<config, shared, running, failed, count, calls, clears>>

ExecutionEnds(l) ==
    /\ pc[l] = "execute" /\ Executed(l)
    /\ pc' = [pc EXCEPT ![l] =
                IF loc[l].calibrates /\ loc[l].plan.parallel THEN "record" ELSE "done"]
    /\ UNCHANGED <<cache, loc, traces, ctx, todo>>
    /\ Elsewhere

RecordBackend(l) ==
    /\ pc[l] = "record"
    /\ IF calibration_frozen THEN UNCHANGED calibration
       ELSE \E faster \in Engines :
              calibration' \in record(calibration, Key(l), loc[l].generation,
                                      loc[l].plan.engine, faster)
    /\ pc' = [pc EXCEPT ![l] = "done"]
    /\ UNCHANGED <<config, cache, calibration_frozen, snapshots, traces, ctx, loc,
                   todo, running, failed, count, calls, clears>>

-----------------------------------------------------------------------------
(* Callbacks, returns and exceptions.                                      *)

Executing == {"direct", "pilot", "learning", "fast", "sampling", "execute"}

\* Indices are taken in ascending order, samples in that of their first place
\* in the round robin.
Precedes(l, i, j) ==
    IF pc[l] # "sampling" THEN i <= j
    ELSE \E n \in 1..SampleCount(Total[l]) :
           /\ i \in sample_indices(Total[l], n)
           /\ j \notin sample_indices(Total[l], n - 1)

\* The indices a backend may start next.
Startable(l) ==
    IF loc[l].plan.parallel
    THEN {i \in todo[l] : Cardinality(running[l]) < loc[l].plan.jobs}
    ELSE {i \in todo[l] : /\ running[l] = {} /\ ~failed[l]
                          /\ \A j \in todo[l] : Precedes(l, i, j)}

Starts(l, i) ==
    /\ pc[l] \in Executing /\ i \in Startable(l)
    /\ todo' = [todo EXCEPT ![l] = @ \ {i}]
    /\ count' = [count EXCEPT ![l][i] = @ + 1]
    /\ UNCHANGED <<config, shared, snapshots, traces, ctx, loc, calls, clears>>

\* A callback that ends at once, possibly with an exception.
Callback(l) ==
    \E i \in Items(l) :
      /\ Child(l, i) = {}
      /\ Starts(l, i)
      /\ \/ UNCHANGED failed
         \/ <<l, i>> \in config.throwing /\ failed' = [failed EXCEPT ![l] = TRUE]
      /\ UNCHANGED <<pc, running>>

\* A callback that calls parallel_for.
CallNested(l) ==
    \E i \in Items(l) : \E c \in Child(l, i) :
      /\ Starts(l, i)
      /\ running' = [running EXCEPT ![l] = @ \cup {i}]
      /\ pc' = [pc EXCEPT ![c] = "called"]
      /\ UNCHANGED failed

\* Guards, the pending trace and the session end with the call; the caller's
\* telemetry has seen a nested call that took the detailed path.
Ends(l, ok) ==
    LET p == Parent[l]
        detailed == loc[l].path \in {"main", "inherited"}
    IN  /\ cache' = Released(cache, IF loc[l].builds THEN {Key(l)} ELSE {},
                             IF loc[l].revalidates THEN {Key(l)} ELSE {})
        /\ traces' = traces \ {l}
        /\ snapshots' = [snapshots EXCEPT ![l] = <<>>]
        /\ pc' = [pc EXCEPT ![l] = "idle"]
        /\ ctx' = [c \in Loops |->
                     CASE c = l -> NoContext
                       [] c = p -> [ctx[c] EXCEPT !.nested = @ \/ detailed]
                       [] OTHER -> ctx[c]]
        /\ loc' = [loc EXCEPT ![l] = NoLocals]
        /\ todo' = [todo EXCEPT ![l] = {}]
        /\ running' = [c \in Loops |-> IF c = p THEN running[c] \ {At[l]} ELSE running[c]]
        /\ failed' = [c \in Loops |-> CASE c = l -> FALSE
                                        [] c = p -> failed[c] \/ ~ok
                                        [] OTHER -> failed[c]]
        /\ count' = [count EXCEPT ![l] = [i \in Items(l) |-> 0]]
        /\ UNCHANGED <<config, calibration, calibration_frozen, calls, clears>>

Return(l) == pc[l] = "done" /\ Ends(l, TRUE)

\* An exception leaves the call once the callbacks that began have ended.
Unwind(l) ==
    /\ pc[l] \in Executing /\ failed[l] /\ running[l] = {}
    /\ Ends(l, FALSE)

-----------------------------------------------------------------------------
(* Resets and freezes of the caches, from any thread.                      *)

Administers == UNCHANGED <<config, snapshots, traces, local, calls>>

ClearProfiles ==
    /\ clears < config.clears /\ clears' = clears + 1
    /\ cache' = clear(cache)
    /\ UNCHANGED <<calibration, calibration_frozen>>
    /\ Administers

ClearCalibration ==
    /\ clears < config.clears /\ clears' = clears + 1
    /\ config.calibrate
    /\ calibration' = <<>> /\ calibration_frozen' = FALSE
    /\ UNCHANGED cache
    /\ Administers

FreezeRevalidation ==
    /\ config.freezes /\ cache' = [cache EXCEPT !.frozen = ~@]
    /\ UNCHANGED <<calibration, calibration_frozen, clears>>
    /\ Administers

FreezeCalibration ==
    /\ config.freezes /\ config.calibrate
    /\ calibration_frozen' = ~calibration_frozen
    /\ UNCHANGED <<cache, calibration, clears>>
    /\ Administers

\* All calls have returned and the bound on calls is reached.
Terminated ==
    /\ calls = config.calls /\ \A l \in Loops : pc[l] = "idle"
    /\ UNCHANGED vars

-----------------------------------------------------------------------------
Entry(l)  == \/ CallRoot(l) \/ exact_plan(l) \/ sealed_descendant_direct(l)
             \/ inherited_parallel_frontier(l) \/ Decides(l)

Lookup(l) == ReadEpoch(l) \/ FindProfile(l) \/ Revalidate(l) \/ BuildProfile(l)

Learn(l)  == \/ AnalyticalCold(l) \/ PilotCold(l) \/ DirectCold(l) \/ AfterPilot(l)
             \/ LearnCold(l) \/ LearnEpoch(l) \/ LearnDescendant(l)
             \/ Sample(l) \/ LearnSample(l)

Plan(l)   == \/ FastPath(l) \/ NoFastPath(l) \/ Decide(l) \/ PublishPlan(l)
             \/ SelectBackend(l) \/ Prepare(l)

Finish(l) == \/ DirectEnds(l) \/ FastEnds(l) \/ ExecutionEnds(l) \/ RecordBackend(l)
             \/ Return(l) \/ Unwind(l)

Next ==
    \/ AdmissionRefused
    \/ \E l \in Loops : Entry(l) \/ Lookup(l) \/ Learn(l) \/ Plan(l) \/ Finish(l)
    \/ \E l \in Loops : Callback(l) \/ CallNested(l)
    \/ ClearProfiles \/ ClearCalibration \/ FreezeRevalidation \/ FreezeCalibration
    \/ Terminated

Spec == Init /\ [][Next]_vars

-----------------------------------------------------------------------------
(* Properties.                                                             *)

Entries ==
    [cost : Costs, reliable : BOOLEAN, high : BOOLEAN,
     observations : 1..MinObservations, fast_uses : 0..FastPathInterval,
     nested : {"always", "recent", "none"}, plan : Plans \cup {NoPlan},
     plan_uses : 0..StablePlanInterval, group : 1..MaxCalls,
     generation : Nat \ {0}, since : Nat \ {0}, lax : BOOLEAN, basis : [of : Nat, by : Nat]]

\* Types; the cache is within its bound and its order lists its keys once.
TypeOK ==
    /\ \A k \in Known(cache) : cache.entries[k] \in Entries
    /\ Cardinality(Known(cache)) <= MaxEntries
    /\ Len(cache.order) = Cardinality(Known(cache))
    /\ {cache.order[i] : i \in 1..Len(cache.order)} = Known(cache)
    /\ Cardinality(DOMAIN calibration) <= MaxCalibrations
    /\ \A l \in Loops :
         /\ Cardinality(DOMAIN snapshots[l]) <= MaxSnapshots
         /\ loc[l].plan \in Plans \cup {NoPlan}
         /\ running[l] \subseteq Items(l)
    /\ traces \subseteq Loops

\* A callback is called at most once with an index, and exactly once with each
\* when the call returns, whether the index was a pilot, a sample or in a gap
\* between samples, executed in order or in parallel.
ExactlyOnce ==
    \A l \in Loops :
      /\ \A i \in Items(l) : count[l][i] <= 1
      /\ pc[l] \in {"learned", "record", "done"} =>
           \A i \in Items(l) : count[l][i] = 1

\* The calls around a call: the least set that contains the parents of all its
\* members and of the call itself.
Around ==
    [l \in Loops |->
       {a \in Loops : \A s \in SUBSET Loops :
          (\A x \in s \cup {l} : Nested(x) => Parent[x] \in s) => a \in s}]

\* With the frontier enabled no loop runs in parallel below another loop that
\* does, at any distance and whatever plan was cached, remembered or promoted;
\* without it, a parallel loop stays within the budget of its parallel parent.
OneFrontier ==
    \A l \in Loops :
      pc[l] \in Executing /\ loc[l].plan.parallel =>
        /\ config.frontier => \A a \in Around[l] : ~loc[a].plan.parallel
        /\ Nested(l) /\ loc[Parent[l]].plan.parallel =>
             loc[l].plan.jobs <= ctx[Parent[l]].budget

\* The markers of builds and revalidations, and the pending traces, belong to
\* calls that are still running, one call per key, across clears and
\* exceptions: nothing is left behind and nobody's marker is taken away.
MarkersOwned ==
    LET Builders(k)     == {l \in Loops : pc[l] # "idle" /\ loc[l].builds /\ Key(l) = k}
        Revalidators(k) == {l \in Loops : pc[l] # "idle" /\ loc[l].revalidates /\ Key(l) = k}
        keys == {Key(l) : l \in {x \in Loops : pc[x] # "idle"}}
                \cup cache.builds \cup cache.revalidations
    IN  /\ \A k \in keys :
             /\ Cardinality(Builders(k)) = (IF k \in cache.builds THEN 1 ELSE 0)
             /\ Cardinality(Revalidators(k)) = (IF k \in cache.revalidations THEN 1 ELSE 0)
        /\ \A l \in traces : pc[l] # "idle"

\* A stable plan was computed from the profile beside it or, if the call that
\* installed it had it from its session, in the same root call that made the
\* profile's last observation: it never outlives that observation and never
\* comes from another root call's.  A backend is chosen only by measurements of
\* its profile generation.
PlansMatchProfiles ==
    /\ \A k \in Known(cache) :
         LET e == cache.entries[k] IN
           e.plan # NoPlan => e.basis.of = e.generation \/ e.basis.by = e.group
    /\ \A k \in DOMAIN calibration :
         /\ calibration[k].from \subseteq {calibration[k].generation}
         /\ calibration[k].winner # "none" => Compared(calibration[k])

\* No observation of a call that began before a clear is in the cache after
\* it, except those of descendants of learning calls (see ClearIsBarrier).
OwnObservationsFresh ==
    \A k \in Known(cache) :
      cache.entries[k].lax \/ cache.entries[k].since = cache.epoch

\* function_profile_cache.hpp:78-79: "Stable plans may only be installed against
\* the exact profile generation used to compute them."  It does not hold of a
\* plan from the session, which goes with the generation that the call has just
\* sampled (MCLoopsOwnProfile.cfg).
PlansFromOwnProfile ==
    \A k \in Known(cache) :
      cache.entries[k].plan # NoPlan =>
        cache.entries[k].basis.of = cache.entries[k].generation

\* "Cache clear is an epoch barrier: pre-clear observations cannot repopulate
\* current state."
ClearIsBarrier == \A k \in Known(cache) : cache.entries[k].since = cache.epoch
=============================================================================
