-------------------------- MODULE ParallelAlgorithms -------------------------
(***************************************************************************)
(* The algorithms on top of parallel_for (algorithms.hpp), the canonical   *)
(* reductions and pointwise loops (canonical_reduction.hpp,                *)
(* canonical_pointwise.hpp) with the linear algebra built from them, and   *)
(* the cache that learns whether a small call is worth scheduling          *)
(* (algorithm_dispatch.hpp).                                               *)
(*                                                                         *)
(* A call is cut into chunks.  parallel_for executes every chunk once, in  *)
(* any order and several at a time, or, if it decides for a sequential     *)
(* plan before any chunk has run, the whole range at once; after an        *)
(* exception it ends with the chunks that have begun.  A chunk that        *)
(* touches only its own output or partial result is one step; the searches *)
(* share an atomic and take one step per access to it.                     *)
(*                                                                         *)
(* The operation of a reduction is concatenation, the most general         *)
(* associative one: its result shows what was combined, in which order.    *)
(* That of a canonical reduction records the ranges it is applied to,      *)
(* which shows the tree.  The caller combines the partial results once all *)
(* chunks are done, one step per partial result or merge pass.  Times are  *)
(* inputs: which route is faster, and whether the scheduled one is slow,   *)
(* above probe_max_ms.                                                     *)
(***************************************************************************)
EXTENDS Naturals, Sequences, FiniteSets

CONSTANTS
    Callers,          \* threads that call algorithms
    ChunksPerWorker,  \* max(4, nested_target_chunks_per_worker), scaled down
    LeafSize,         \* canonical_reduction_leaf_size and the grain of the
                      \* canonical pointwise loops, scaled down
    PerShard,         \* entries a shard of the dispatch cache may hold
    Interval,         \* ..._hot_dispatch_revalidate_interval
    SearchInterval,   \* ..._hot_dispatch_search_revalidate_interval
    MaxJobs,          \* chunks that run at a time
    Scenarios         \* what is called in a process: kinds, callsites, sizes,
                      \* worker counts, the plans parallel_for decides for,
                      \* whether numbers are so large that sums overflow, the
                      \* dispatch cache is enabled and callbacks throw, and
                      \* the bounds on calls and resets

ASSUME AlgorithmAssumption ==
    /\ ChunksPerWorker \in Nat \ {0} /\ LeafSize \in Nat \ {0}
    /\ PerShard \in Nat \ {0} /\ MaxJobs \in Nat \ {0}
    /\ Interval \in Nat /\ SearchInterval \in Nat

ASSUME CallersAssumption == IsFiniteSet(Callers)

VARIABLES
    scenario,
    entries,     \* one shard of the dispatch cache: key -> Entry
    order,       \* last_access_epoch: which keys were used before which
    nonce,       \* next_probe_nonce_
    epoch,       \* cache_epoch of the profile cache, part of every key
    pc, task,    \* where a caller is, and the call it makes
    sel,         \* AlgorithmDispatchSelection
    chunk,       \* per chunk: where it is, its index, the value it has read
    atomic,      \* `best' of a search, `result' of a predicate
    part,        \* partial results, one per chunk
    step,        \* how many of them are added, or `width' of the merge pass
    visits,      \* how often the callback has been called with an index
    failed,      \* a callback has thrown
    result,
    calls, resets

cached == <<entries, order, nonce, epoch>>
local  == <<pc, task, sel, chunk, atomic, part, step, visits, failed, result>>
vars   == <<scenario, cached, local, calls, resets>>

Lesser(a, b)  == IF a <= b THEN a ELSE b
Greater(a, b) == IF a >= b THEN a ELSE b

-----------------------------------------------------------------------------
(* Kinds of calls.  for_each stands for the loops that write one element   *)
(* per index, transform_reduce for all reductions without dispatch.        *)

Loops      == {"for_each", "copy", "pointwise"}
Sums       == {"reduce", "transform_reduce"}
Predicates == {"any_of", "all_of", "none_of"}
Searches   == Predicates \cup {"find_if"}
Canonical  == {"pointwise", "pairwise", "compensated", "scaled"}
Kinds      == Loops \cup Sums \cup Searches \cup Canonical

algorithm_hot_dispatch_family         == {"copy", "reduce"} \cup Searches
algorithm_search_or_predicate_family  == Searches

ASSUME ScenarioAssumption ==
    \A s \in Scenarios :
      s.kinds \subseteq Kinds /\ s.totals \subseteq Nat /\ s.workers \subseteq Nat

\* What is told apart of an element: whether the predicate holds, or how a
\* floating-point number is special.
Elements(kind) ==
    CASE kind \in Searches    -> BOOLEAN
      [] kind = "compensated" -> {"finite", "+inf", "-inf", "nan"}
      [] kind = "scaled"      -> {"zero", "finite", "inf", "nan"}
      [] OTHER                -> {"element"}

\* The `init' of a compensated sum is a number like its elements.
Inits(kind) == IF kind = "compensated" THEN Elements(kind) ELSE {"init"}

\* The infinities that finite operands may add up to, for some magnitudes of
\* them: a sum overflows on both sides, a norm to infinity.  It takes two.
Overflows(kind, input, init) ==
    LET finite == Cardinality({i \in DOMAIN input : input[i] = "finite"})
                  + (IF init = "finite" THEN 1 ELSE 0)
    IN  CASE kind = "compensated" /\ finite > 1 /\ scenario.large -> SUBSET {"+inf", "-inf"}
          [] kind = "scaled" /\ finite > 1 /\ scenario.large      -> SUBSET {"inf"}
          [] OTHER                                                -> {{}}

-----------------------------------------------------------------------------
(* Chunks.                                                                 *)

algorithm_chunk_count(total, workers) ==
    IF total = 0 THEN 0
    ELSE Greater(1, Lesser(total, workers * ChunksPerWorker))

\* <<begin, end>>
algorithm_chunk_range(total, chunks, k) ==
    LET base  == total \div chunks
        rest  == total % chunks
        begin == k * base + Lesser(k, rest)
    IN  <<begin, begin + base + (IF k < rest THEN 1 ELSE 0)>>

canonical_leaf_count(total) ==
    IF total = 0 THEN 0 ELSE 1 + (total - 1) \div LeafSize

canonical_leaf_range(total, k) ==
    <<k * LeafSize, Lesser(total, (k + 1) * LeafSize)>>

ChunkCount(t) ==
    IF t.kind \in Canonical THEN canonical_leaf_count(t.total)
    ELSE algorithm_chunk_count(t.total, t.workers)

ChunkRange(t, k) ==
    IF t.kind \in Canonical THEN canonical_leaf_range(t.total, k)
    ELSE algorithm_chunk_range(t.total, ChunkCount(t), k)

ChunkIds(t)   == 0..(ChunkCount(t) - 1)
Indices(t)    == 0..(t.total - 1)
Between(r)    == r[1]..(r[2] - 1)
Ascending(r)  == [i \in 1..(r[2] - r[1]) |-> r[1] + i - 1]

-----------------------------------------------------------------------------
(* Results.                                                                *)

\* What the standard algorithm returns for the whole range.
Sequentially(t) ==
    CASE t.kind \in Loops    -> [i \in Indices(t) |-> 1]
      [] t.kind \in Sums     -> <<"init">> \o Ascending(<<0, t.total>>)
      [] t.kind = "any_of"   -> \E i \in Indices(t) : t.input[i]
      [] t.kind = "all_of"   -> \A i \in Indices(t) : t.input[i]
      [] t.kind = "none_of"  -> \A i \in Indices(t) : ~t.input[i]
      [] t.kind = "find_if"  ->
           CHOOSE n \in 0..t.total :
             /\ \A i \in 0..(n - 1) : ~t.input[i]
             /\ n < t.total => t.input[n]

\* What one addition may come to beyond a finite sum: nothing, or an overflow.
Spills(t) == {{}} \cup {{o} : o \in t.overflows}

\* compensated_add to a state that has seen something special adds nothing;
\* otherwise the sum may overflow.
Spilled(seen, o) ==
    IF seen \cap {"nan", "inf", "+inf", "-inf"} = {} THEN seen \cup o ELSE seen

\* The caller's operation joins two ranges that it has reduced, and records
\* both; merge_compensated and merge_scaled_sumsq keep what either side has seen,
\* and the first adds the sums, which may overflow.
Merge(kind, left, right, o) ==
    CASE kind = "pairwise" ->
           [range |-> <<left.range[1], right.range[2]>>,
            pairs |-> left.pairs \cup right.pairs \cup {<<left.range, right.range>>}]
      [] kind = "compensated" -> Spilled(left \cup right, o)
      [] kind = "scaled"      -> left \cup right

\* finish_compensated and finish_scaled_sumsq.
finish_compensated(seen) ==
    CASE "nan" \in seen \/ {"+inf", "-inf"} \subseteq seen -> "nan"
      [] "nan" \notin seen /\ "-inf" \notin seen /\ "+inf" \in seen -> "+inf"
      [] "nan" \notin seen /\ "+inf" \notin seen /\ "-inf" \in seen -> "-inf"
      [] OTHER -> "finite"

finish_scaled_sumsq(seen) ==
    CASE "nan" \in seen                        -> "nan"
      [] "nan" \notin seen /\ "inf" \in seen   -> "inf"
      [] seen \cap {"nan", "inf"} = {}         ->
           IF "finite" \in seen THEN "finite" ELSE "zero"

\* compensated_add and scaled_sumsq_add over a leaf: zero leaves no trace.  The
\* sum overflows if two finite numbers come first; what follows is still seen.
LeafState(t, k, o) ==
    LET r == ChunkRange(t, k)
        seen == {t.input[i] : i \in Between(r)} \ {"zero"}
        sums == {r[1], r[1] + 1} \subseteq {i \in Between(r) : t.input[i] = "finite"}
    IN  IF t.kind = "compensated" /\ sums THEN seen \cup o ELSE seen

\* A chunk of a reduction; a leaf of a canonical one is reduced from left to right.
Partial(t, k, o) ==
    CASE t.kind \in {"compensated", "scaled"} -> LeafState(t, k, o)
      [] t.kind = "pairwise" -> [range |-> ChunkRange(t, k), pairs |-> {}]
      [] OTHER               -> Ascending(ChunkRange(t, k))

\* Mutant: a pass merges full blocks only and drops a shorter last one.
MergedFull(kind, states, width, spill) ==
    LET n == Cardinality(DOMAIN states)
    IN  [l \in DOMAIN states |->
           IF l % (2 * width) = 0 /\ 2 * width <= n - l
           THEN Merge(kind, states[l], states[l + width], spill[l]) ELSE states[l]]

\* A pass of canonical_merge_tree, in place: each state at a multiple of twice
\* the width is merged with the one a width further.
Merged(kind, states, width, spill) ==
    LET n == Cardinality(DOMAIN states)
    IN  [l \in DOMAIN states |->
           IF l % (2 * width) = 0 /\ width < n - l
           THEN Merge(kind, states[l], states[l + width], spill[l]) ELSE states[l]]

\* An empty range is answered at once.
Empty(t) ==
    CASE t.kind \in Loops \cup Searches \cup Sums -> Sequentially(t)
      [] t.kind = "pairwise"    -> <<"init">>
      [] t.kind = "compensated" -> finish_compensated({t.init})
      [] t.kind = "scaled"      -> "zero"

-----------------------------------------------------------------------------
(* The dispatch cache.                                                     *)

Routes == {"Scheduled", "Sequential"}

NewEntry ==
    [stable |-> FALSE, route |-> "Scheduled", sequential |-> FALSE,
     scheduled |-> FALSE, slow |-> FALSE, uses |-> 0, probe |-> 0]

NotEnabled == [enabled |-> FALSE, route |-> "Scheduled", probe |-> 0,
               fresh |-> FALSE, key |-> <<>>]

make_key(t) == <<t.kind, t.site, epoch>>

revalidation_interval(kind) ==
    IF kind \in algorithm_search_or_predicate_family THEN SearchInterval ELSE Interval

choose_stable_route(e, faster) ==
    IF e.sequential /\ e.scheduled
    THEN [e EXCEPT !.stable = TRUE, !.route = faster, !.uses = 0]
    ELSE e

\* make_room_for_insert_locked erases entries until the shard has room for one.
Idle == {k \in DOMAIN entries : entries[k].probe = 0}
Surplus(key) ==
    LET n == Cardinality(DOMAIN entries)
    IN  IF key \in DOMAIN entries \/ n < PerShard THEN 0 ELSE n - PerShard + 1

\* Mutant: a full shard is not emptied.
EvictsNothing(key) == {{}}

\* The entries it erases, as the one element of a set: the least recently used,
\* never one that is being probed.
Evicted(key) ==
    {s \in SUBSET Idle : /\ Cardinality(s) = Lesser(Surplus(key), Cardinality(Idle))
                         /\ \A j \in s, k \in Idle \ s : <<j, k>> \in order}

\* The key has been used last.
Touched(key, gone) ==
    LET rest == DOMAIN entries \ (gone \cup {key})
    IN  (order \cap (rest \X rest)) \cup (rest \X {key})

\* The probe an entry is due for after this use, with the entry and whether
\* the scheduled route is probed with a fresh callsite; or none.
Due(e, kind) ==
    LET count == revalidation_interval(kind) > 0
        used  == IF count THEN e.uses + 1 ELSE e.uses
    IN  IF ~count \/ used < revalidation_interval(kind)
        THEN [entry |-> [e EXCEPT !.uses = used], probe |-> "none", fresh |-> FALSE]
        ELSE [entry |-> [e EXCEPT !.uses = 0],
              probe |-> CASE e.route = "Sequential"            -> "Scheduled"
                          [] e.route = "Scheduled" /\ ~e.slow  -> "Sequential"
                          [] e.route = "Scheduled" /\ e.slow   -> "none",
              fresh |-> e.route = "Sequential"]

\* What select makes of an entry that is not being probed.
Considered(e, kind, faster) ==
    CASE ~e.stable /\ ~e.scheduled -> [entry |-> e, probe |-> "Scheduled", fresh |-> FALSE]
      [] ~e.stable /\ e.scheduled /\ ~e.sequential ->
           IF e.slow
           THEN [entry |-> [e EXCEPT !.stable = TRUE, !.route = "Scheduled", !.uses = 0],
                 probe |-> "none", fresh |-> FALSE]
           ELSE [entry |-> e, probe |-> "Sequential", fresh |-> FALSE]
      [] ~e.stable /\ e.scheduled /\ e.sequential ->
           Due(choose_stable_route(e, faster), kind)
      [] e.stable -> Due(e, kind)

-----------------------------------------------------------------------------
(* Calls.                                                                  *)

NoTask  == [kind |-> "none", site |-> 0, total |-> 0, workers |-> 1,
            nested |-> FALSE, input |-> <<>>, init |-> "init", overflows |-> {}]
NoChunk == [at |-> "todo", i |-> 0, seen |-> 0]

Init ==
    /\ scenario \in Scenarios
    /\ entries = <<>> /\ order = {} /\ nonce = 1 /\ epoch = 1
    /\ pc = [c \in Callers |-> "idle"]
    /\ task = [c \in Callers |-> NoTask]
    /\ sel = [c \in Callers |-> NotEnabled]
    /\ chunk = [c \in Callers |-> <<>>] /\ part = [c \in Callers |-> <<>>]
    /\ step = [c \in Callers |-> 0]
    /\ atomic = [c \in Callers |-> 0] /\ visits = [c \in Callers |-> <<>>]
    /\ failed = [c \in Callers |-> FALSE] /\ result = [c \in Callers |-> <<>>]
    /\ calls = 0 /\ resets = 0

UsesCache(t) ==
    scenario.hot /\ ~t.nested /\ t.kind \in algorithm_hot_dispatch_family

Begin(c) ==
    /\ pc[c] = "idle" /\ calls < scenario.calls
    /\ calls' = calls + 1
    /\ \E kind \in scenario.kinds, site \in scenario.sites, total \in scenario.totals,
          workers \in scenario.workers, nested \in scenario.nested :
         \E input \in [0..(total - 1) -> Elements(kind)], init \in Inits(kind) :
         \E overflows \in Overflows(kind, input, init) :
           LET t == [kind |-> kind, site |-> site, total |-> total,
                     workers |-> workers, nested |-> nested, input |-> input,
                     init |-> init, overflows |-> overflows]
           IN  /\ task' = [task EXCEPT ![c] = t]
               /\ result' = [result EXCEPT ![c] = IF total = 0 THEN Empty(t) ELSE <<>>]
               /\ pc' = [pc EXCEPT ![c] = CASE total = 0                 -> "return"
                                            [] total > 0 /\ UsesCache(t)  -> "select"
                                            [] total > 0 /\ ~UsesCache(t) -> "scheduled"]
    /\ UNCHANGED <<scenario, cached, sel, chunk, atomic, part, step, visits, failed,
                   resets>>

\* AlgorithmDispatchCache::select, under the lock of the shard.
Select(c) ==
    /\ pc[c] = "select"
    /\ LET key == make_key(task[c])
           e   == IF key \in DOMAIN entries THEN entries[key] ELSE NewEntry
       IN  \E gone \in Evicted(key), faster \in Routes :
             LET keep == (DOMAIN entries \ gone) \cup {key}
                 d == IF e.probe # 0 THEN [entry |-> e, probe |-> "none", fresh |-> FALSE]
                      ELSE Considered(e, task[c].kind, faster)
                 probes == d.probe # "none"
                 new == IF probes THEN [d.entry EXCEPT !.probe = nonce] ELSE d.entry
                 route == CASE probes                   -> d.probe
                            [] ~probes /\ new.stable    -> new.route
                            [] ~probes /\ ~new.stable   -> "Scheduled"
             IN  /\ entries' = [k \in keep |-> IF k = key THEN new ELSE entries[k]]
                 /\ order' = Touched(key, gone)
                 /\ nonce' = IF probes THEN nonce + 1 ELSE nonce
                 /\ sel' = [sel EXCEPT ![c] =
                              [enabled |-> TRUE, route |-> route, fresh |-> d.fresh,
                               probe |-> IF probes THEN nonce ELSE 0, key |-> key]]
                 /\ pc' = [pc EXCEPT ![c] = IF route = "Sequential" THEN "sequential"
                                            ELSE "scheduled"]
    /\ UNCHANGED <<scenario, epoch, task, chunk, atomic, part, step, visits, failed,
                   result, calls, resets>>

AfterWork(c) == IF sel[c].enabled THEN "complete" ELSE "return"

\* The standard algorithm over the whole range: as the sequential route, or
\* where parallel_for decides for a sequential plan.
RunsWhole(c) ==
    /\ \/ /\ result' = [result EXCEPT ![c] = Sequentially(task[c])]
          /\ pc' = [pc EXCEPT ![c] = AfterWork(c)]
       \/ /\ scenario.throws
          /\ pc' = [pc EXCEPT ![c] = "cancel"]
          /\ UNCHANGED result
    /\ UNCHANGED <<scenario, cached, task, sel, chunk, atomic, part, step, visits,
                   failed, calls, resets>>

RunSequential(c) == pc[c] = "sequential" /\ RunsWhole(c)

RunDirect(c) ==
    /\ pc[c] = "scheduled" /\ "whole" \in scenario.plans
    /\ task[c].kind \notin Canonical
    /\ RunsWhole(c)

\* The shared value of a search before any chunk runs.
Undecided(t) ==
    CASE t.kind = "find_if"              -> t.total
      [] t.kind = "any_of"               -> FALSE
      [] t.kind \in {"all_of", "none_of"} -> TRUE
      [] OTHER                           -> 0

StartChunks(c) ==
    /\ pc[c] = "scheduled" /\ "chunks" \in scenario.plans
    /\ LET t == task[c] IN
         /\ chunk' = [chunk EXCEPT ![c] = [k \in ChunkIds(t) |-> NoChunk]]
         /\ part' = [part EXCEPT ![c] = [k \in ChunkIds(t) |-> <<>>]]
         /\ atomic' = [atomic EXCEPT ![c] = Undecided(t)]
         /\ visits' = [visits EXCEPT ![c] = [i \in Indices(t) |-> 0]]
    /\ pc' = [pc EXCEPT ![c] = "chunks"]
    /\ UNCHANGED <<scenario, cached, task, sel, step, failed, result, calls, resets>>

Running(c) == {k \in DOMAIN chunk[c] : chunk[c][k].at \notin {"todo", "done"}}

OnlyLocal(c) == UNCHANGED <<scenario, cached, pc, task, sel, step, result, calls, resets>>

\* A chunk of a loop or of a reduction.
RunChunk(c) ==
    \E k \in DOMAIN chunk[c] :
      /\ pc[c] = "chunks" /\ chunk[c][k].at = "todo"
      /\ task[c].kind \notin Searches
      /\ chunk' = [chunk EXCEPT ![c][k].at = "done"]
      /\ \/ /\ \E o \in Spills(task[c]) : part' = [part EXCEPT ![c][k] = Partial(task[c], k, o)]
            /\ visits' = [visits EXCEPT ![c] =
                 [i \in Indices(task[c]) |->
                    IF i \in Between(ChunkRange(task[c], k)) THEN @[i] + 1 ELSE @[i]]]
            /\ UNCHANGED failed
         \/ /\ scenario.throws
            /\ failed' = [failed EXCEPT ![c] = TRUE]
            /\ UNCHANGED <<part, visits>>
      /\ UNCHANGED atomic
      /\ OnlyLocal(c)

\* The value that ends a search for every index from i on.
Decided(t, value, i) ==
    CASE t.kind = "find_if"               -> i >= value
      [] t.kind = "any_of"                -> value
      [] t.kind \in {"all_of", "none_of"} -> ~value

Hit(t, i) == IF t.kind = "all_of" THEN ~t.input[i] ELSE t.input[i]

\* A chunk of a search begins; find_if looks at `best' before it does.
StartSearch(c) ==
    \E k \in DOMAIN chunk[c] :
      LET begin == ChunkRange(task[c], k)[1] IN
      /\ pc[c] = "chunks" /\ chunk[c][k].at = "todo" /\ task[c].kind \in Searches
      /\ Cardinality(Running(c)) < MaxJobs
      /\ chunk' = [chunk EXCEPT ![c][k] =
           [NoChunk EXCEPT !.i = begin,
              !.at = IF task[c].kind = "find_if" /\ begin >= atomic[c] THEN "done"
                     ELSE "look"]]
      /\ UNCHANGED <<atomic, part, visits, failed>>
      /\ OnlyLocal(c)

\* It reads the shared value and, unless that ends the search, tests an index.
Look(c) ==
    \E k \in DOMAIN chunk[c] :
      LET t == task[c]
          i == chunk[c][k].i
          last == i + 1 = ChunkRange(t, k)[2]
      IN
      /\ pc[c] = "chunks" /\ chunk[c][k].at = "look"
      /\ \/ /\ Decided(t, atomic[c], i)
            /\ chunk' = [chunk EXCEPT ![c][k].at = "done"]
            /\ UNCHANGED <<visits, failed>>
         \/ /\ ~Decided(t, atomic[c], i)
            /\ visits' = [visits EXCEPT ![c][i] = @ + 1]
            /\ chunk' = [chunk EXCEPT ![c][k] =
                 [@ EXCEPT !.at = CASE Hit(t, i)           -> "hit"
                                    [] ~Hit(t, i) /\ last  -> "done"
                                    [] ~Hit(t, i) /\ ~last -> "look",
                           !.i = IF Hit(t, i) \/ last THEN i ELSE i + 1]]
            /\ UNCHANGED failed
         \/ /\ ~Decided(t, atomic[c], i) /\ scenario.throws
            /\ chunk' = [chunk EXCEPT ![c][k].at = "done"]
            /\ failed' = [failed EXCEPT ![c] = TRUE]
            /\ UNCHANGED visits
      /\ UNCHANGED <<atomic, part>>
      /\ OnlyLocal(c)

\* A predicate stores what it has found.
StoreHit(c) ==
    \E k \in DOMAIN chunk[c] :
      /\ pc[c] = "chunks" /\ chunk[c][k].at = "hit" /\ task[c].kind \in Predicates
      /\ atomic' = [atomic EXCEPT ![c] = task[c].kind = "any_of"]
      /\ chunk' = [chunk EXCEPT ![c][k].at = "done"]
      /\ UNCHANGED <<part, visits, failed>>
      /\ OnlyLocal(c)

\* find_if reads `best' ...
LoadBest(c) ==
    \E k \in DOMAIN chunk[c] :
      /\ pc[c] = "chunks" /\ chunk[c][k].at = "hit" /\ task[c].kind = "find_if"
      /\ chunk' = [chunk EXCEPT ![c][k] = [@ EXCEPT !.at = "swap", !.seen = atomic[c]]]
      /\ UNCHANGED <<atomic, part, visits, failed>>
      /\ OnlyLocal(c)

\* Mutant: the exchange does not compare.
SwapAlways(c) ==
    \E k \in DOMAIN chunk[c] :
      LET x == chunk[c][k] IN
      /\ pc[c] = "chunks" /\ x.at = "swap"
      /\ atomic' = [atomic EXCEPT ![c] = IF x.i < x.seen THEN x.i ELSE @]
      /\ chunk' = [chunk EXCEPT ![c][k].at = "done"]
      /\ UNCHANGED <<part, visits, failed>>
      /\ OnlyLocal(c)

\* ... and exchanges it while its own index is smaller.
SwapBest(c) ==
    \E k \in DOMAIN chunk[c] :
      LET x == chunk[c][k] IN
      /\ pc[c] = "chunks" /\ x.at = "swap"
      /\ \/ /\ x.i < x.seen /\ atomic[c] = x.seen
            /\ atomic' = [atomic EXCEPT ![c] = x.i]
            /\ chunk' = [chunk EXCEPT ![c][k].at = "done"]
         \/ /\ x.i < x.seen /\ atomic[c] # x.seen
            /\ chunk' = [chunk EXCEPT ![c][k].seen = atomic[c]]
            /\ UNCHANGED atomic
         \/ /\ x.i >= x.seen
            /\ chunk' = [chunk EXCEPT ![c][k].at = "done"]
            /\ UNCHANGED atomic
      /\ UNCHANGED <<part, visits, failed>>
      /\ OnlyLocal(c)

\* All chunks are done, and so is a loop or a search.
Join(c) ==
    /\ pc[c] = "chunks" /\ ~failed[c] /\ task[c].kind \in Loops \cup Searches
    /\ \A k \in DOMAIN chunk[c] : chunk[c][k].at = "done"
    /\ result' = [result EXCEPT ![c] = IF task[c].kind \in Loops THEN visits[c] ELSE atomic[c]]
    /\ pc' = [pc EXCEPT ![c] = AfterWork(c)]
    /\ UNCHANGED <<scenario, cached, task, sel, chunk, atomic, part, step, visits,
                   failed, calls, resets>>

\* A reduction has its partial results left to combine.
JoinParts(c) ==
    /\ pc[c] = "chunks" /\ ~failed[c] /\ task[c].kind \notin Loops \cup Searches
    /\ \A k \in DOMAIN chunk[c] : chunk[c][k].at = "done"
    /\ pc' = [pc EXCEPT ![c] = "combine"]
    /\ result' = [result EXCEPT ![c] = <<"init">>]
    /\ step' = [step EXCEPT ![c] = IF task[c].kind \in Sums THEN 0 ELSE 1]
    /\ UNCHANGED <<scenario, cached, task, sel, chunk, atomic, part, visits, failed,
                   calls, resets>>

OnlyCombining(c) ==
    UNCHANGED <<scenario, cached, task, sel, chunk, atomic, visits, failed, calls, resets>>

\* The caller's operation throws while the partial results are combined.
CombineThrows(c) ==
    /\ scenario.throws
    /\ pc' = [pc EXCEPT ![c] = "cancel"]
    /\ UNCHANGED <<part, step, result>>

\* The next partial result is added, in the order of the chunks.
Accumulate(c) ==
    /\ pc[c] = "combine" /\ task[c].kind \in Sums /\ step[c] < ChunkCount(task[c])
    /\ \/ /\ result' = [result EXCEPT ![c] = @ \o part[c][step[c]]]
          /\ step' = [step EXCEPT ![c] = @ + 1]
          /\ UNCHANGED <<pc, part>>
       \/ CombineThrows(c)
    /\ OnlyCombining(c)

\* The next pass of canonical_merge_tree; only the caller's operation can throw.
MergePass(c) ==
    /\ pc[c] = "combine" /\ task[c].kind \notin Sums /\ step[c] < ChunkCount(task[c])
    /\ \/ /\ \E spill \in [ChunkIds(task[c]) -> Spills(task[c])] :
               part' = [part EXCEPT ![c] = Merged(task[c].kind, @, step[c], spill)]
          /\ step' = [step EXCEPT ![c] = 2 * @]
          /\ UNCHANGED <<pc, result>>
       \/ task[c].kind = "pairwise" /\ CombineThrows(c)
    /\ OnlyCombining(c)

\* Everything is combined.  A canonical reduction is left with its first state,
\* which it combines with `init'; the last operation may overflow too.
Finish(c) ==
    LET t == task[c] IN
    /\ pc[c] = "combine" /\ step[c] >= ChunkCount(t)
    /\ \/ /\ \E o \in Spills(t) :
               result' = [result EXCEPT ![c] =
                 CASE t.kind \in Sums        -> @
                   [] t.kind = "pairwise"    -> <<"init", part[c][0]>>
                   [] t.kind = "compensated" ->
                        finish_compensated(Merge(t.kind, {t.init}, part[c][0], o))
                   [] t.kind = "scaled"      -> finish_scaled_sumsq(Spilled(part[c][0], o))]
          /\ pc' = [pc EXCEPT ![c] = AfterWork(c)]
          /\ UNCHANGED <<part, step>>
       \/ t.kind = "pairwise" /\ CombineThrows(c)
    /\ OnlyCombining(c)

JoinFailed(c) ==
    /\ pc[c] = "chunks" /\ failed[c] /\ Running(c) = {}
    /\ pc' = [pc EXCEPT ![c] = "cancel"]
    /\ UNCHANGED <<scenario, cached, task, sel, chunk, atomic, part, step, visits,
                   failed, result, calls, resets>>

Measured(e, route, slow) ==
    IF route = "Sequential" THEN [e EXCEPT !.sequential = TRUE]
    ELSE [e EXCEPT !.scheduled = TRUE, !.slow = slow]

\* Mutant: the first measurement settles the route.
ProbeEndsEarly(e, faster) ==
    [e EXCEPT !.probe = 0, !.stable = TRUE, !.route = faster, !.uses = 0]

\* The end of the probe that an entry is waiting for.
ProbeEnds(e, faster) ==
    LET f == [e EXCEPT !.probe = 0] IN
    CASE f.scheduled /\ f.sequential             -> choose_stable_route(f, faster)
      [] f.scheduled /\ ~f.sequential /\ f.slow  ->
           [f EXCEPT !.stable = TRUE, !.route = "Scheduled", !.uses = 0]
      [] OTHER                                   -> f

\* AlgorithmDispatchCache::complete.
Complete(c) ==
    /\ pc[c] = "complete"
    /\ pc' = [pc EXCEPT ![c] = "return"]
    /\ LET k == sel[c].key IN
         IF k \notin DOMAIN entries THEN UNCHANGED <<entries, order>>
         ELSE \E faster \in Routes, slow \in BOOLEAN :
                LET e == Measured(entries[k], sel[c].route, slow)
                    mine == sel[c].probe # 0 /\ e.probe = sel[c].probe
                IN  /\ entries' = [entries EXCEPT ![k] =
                                     IF mine THEN ProbeEnds(e, faster) ELSE e]
                    /\ order' = Touched(k, {})
    /\ UNCHANGED <<scenario, nonce, epoch, task, sel, chunk, atomic, part, step, visits,
                   failed, result, calls, resets>>

Forgotten(c) ==
    /\ task' = [task EXCEPT ![c] = NoTask] /\ sel' = [sel EXCEPT ![c] = NotEnabled]
    /\ chunk' = [chunk EXCEPT ![c] = <<>>] /\ part' = [part EXCEPT ![c] = <<>>]
    /\ step' = [step EXCEPT ![c] = 0]
    /\ atomic' = [atomic EXCEPT ![c] = 0] /\ visits' = [visits EXCEPT ![c] = <<>>]
    /\ failed' = [failed EXCEPT ![c] = FALSE] /\ result' = [result EXCEPT ![c] = <<>>]
    /\ pc' = [pc EXCEPT ![c] = "idle"]
    /\ UNCHANGED <<scenario, nonce, epoch, calls, resets>>

Return(c) == pc[c] = "return" /\ Forgotten(c) /\ UNCHANGED <<entries, order>>

\* Mutant: the exception leaves the probe behind.
CancelNothing(c) == pc[c] = "cancel" /\ Forgotten(c) /\ UNCHANGED <<entries, order>>

\* An exception: AlgorithmDispatchCache::cancel gives a probe up.
Cancel(c) ==
    /\ pc[c] = "cancel"
    /\ LET k == sel[c].key
           mine == sel[c].probe # 0 /\ k \in DOMAIN entries
                   /\ entries[k].probe = sel[c].probe
       IN  entries' = IF mine THEN [entries EXCEPT ![k].probe = 0] ELSE entries
    /\ Forgotten(c)
    /\ UNCHANGED order

-----------------------------------------------------------------------------
(* Resets, from any thread.                                                *)

\* AlgorithmDispatchCache::clear.
ClearDispatch ==
    /\ resets < scenario.resets /\ resets' = resets + 1
    /\ entries' = <<>> /\ order' = {}
    /\ UNCHANGED <<scenario, nonce, epoch, local, calls>>

\* Clearing the profile cache gives every later call a new key.
ClearProfiles ==
    /\ resets < scenario.resets /\ resets' = resets + 1
    /\ epoch' = epoch + 1
    /\ UNCHANGED <<scenario, entries, order, nonce, local, calls>>

\* All callers have returned and the bound on calls is reached.
Terminated ==
    /\ calls = scenario.calls /\ \A c \in Callers : pc[c] = "idle"
    /\ UNCHANGED vars

Next ==
    \/ \E c \in Callers :
         \/ Begin(c) \/ Select(c) \/ RunSequential(c) \/ RunDirect(c) \/ StartChunks(c)
         \/ RunChunk(c) \/ StartSearch(c) \/ Look(c) \/ StoreHit(c) \/ LoadBest(c)
         \/ SwapBest(c) \/ Join(c) \/ JoinParts(c) \/ JoinFailed(c)
         \/ Accumulate(c) \/ MergePass(c) \/ Finish(c)
         \/ Complete(c) \/ Return(c) \/ Cancel(c)
    \/ ClearDispatch \/ ClearProfiles
    \/ Terminated

Spec == Init /\ [][Next]_vars

-----------------------------------------------------------------------------
(* Properties.                                                             *)

\* Only 1 divides it among the odd numbers.
PowerOfTwo(w) == \A d \in 2..w : w % d = 0 => d % 2 = 0

\* The elements of the leaves l..(r - 1).
Block(t, l, r) == <<ChunkRange(t, l)[1], ChunkRange(t, r - 1)[2]>>

\* The tree of a canonical reduction, from the number of leaves only: for each
\* power of two w, each block of 2w leaves, or its part that there is, is split
\* after its first w.
CanonicalPairs(t) ==
    LET n == ChunkCount(t)
        splits == {s \in (1..n) \X (0..n) :
                     /\ PowerOfTwo(s[1])
                     /\ s[2] % (2 * s[1]) = 0 /\ s[2] + s[1] < n}
    IN  {<<Block(t, s[2], s[2] + s[1]),
           Block(t, s[2] + s[1], Lesser(n, s[2] + 2 * s[1]))>> : s \in splits}

Expected(t) ==
    CASE t.total = 0 -> Empty(t)
      [] t.total > 0 /\ t.kind \in Loops \cup Sums \cup Searches -> Sequentially(t)
      [] t.total > 0 /\ t.kind = "pairwise" ->
           <<"init", [range |-> <<0, t.total>>, pairs |-> CanonicalPairs(t)]>>

\* The results a reduction may have: for special values, that of all of them at
\* once, with the infinities, if any, that finite numbers overflowed to.
Results(t) ==
    LET all == {t.input[i] : i \in Indices(t)} IN
    CASE t.kind = "compensated" ->
           {finish_compensated(all \cup {t.init} \cup o) : o \in SUBSET t.overflows}
      [] t.kind = "scaled" ->
           {finish_scaled_sumsq(all \cup o) : o \in SUBSET t.overflows}
      [] t.kind \notin {"compensated", "scaled"} -> {Expected(t)}

\* A loop or search that returns has the result of the standard algorithm,
\* whichever route it took and however its chunks were interleaved: every
\* element is visited once, and find_if has the first match, not just any.
SearchesExact ==
    \A c \in Callers :
      pc[c] \in {"complete", "return"} /\ task[c].kind \in Loops \cup Searches =>
        result[c] = Expected(task[c])

\* So has a reduction, with its operands in order; a canonical one has the tree
\* that the number of elements determines.  Where finite numbers cannot overflow,
\* a sum or norm has the NaN, infinity or finite value that its operands give in
\* any order; where they can, no special value is lost either, and what is added
\* is an infinity they overflowed to.  (Whether they do depends on where the
\* leaves are cut: compensated_add adds nothing to a state that has seen a
\* special value.)
ReductionsExact ==
    \A c \in Callers :
      pc[c] \in {"complete", "return"} /\ task[c].kind \notin Loops \cup Searches =>
        result[c] \in Results(task[c])

\* An entry that waits for a probe waits for a call that is still running, and
\* no two entries for the same: exceptions, resets and evictions leave no entry
\* that can neither learn nor be evicted.
ProbesOwned ==
    \A k \in DOMAIN entries :
      entries[k].probe # 0 =>
        Cardinality({c \in Callers : sel[c].probe = entries[k].probe /\ sel[c].key = k}) = 1

\* A call is made sequential for good only after both routes were measured, and
\* scheduled for good only after that route was: select and complete settle a
\* slow scheduled route on its one measurement, against StableAfterBoth below.
RoutesEarned ==
    \A k \in DOMAIN entries :
      /\ entries[k].stable => entries[k].scheduled
      /\ entries[k].stable /\ entries[k].route = "Sequential" => entries[k].sequential

\* docs/v1.4/architecture.md:50: "the cache selects a stable route only after both
\* observations exist".  It does not hold: an entry whose scheduled route took
\* longer than probe_max_ms is stable without a sequential observation
\* (MCAlgorithmsStableAfterBoth.cfg).
StableAfterBoth ==
    \A k \in DOMAIN entries :
      entries[k].stable => entries[k].scheduled /\ entries[k].sequential

\* A shard holds more than its limit only for entries that were probed when
\* it was full: at most one for each other caller. Its entries are in a linear
\* order of their last uses, so that eviction has a choice whenever it may erase
\* something, and only one.
ShardBounded ==
    /\ Cardinality(DOMAIN entries) <= Greater(PerShard, Cardinality(Callers))
    /\ order \subseteq (DOMAIN entries) \X (DOMAIN entries)
    /\ \A j, k \in DOMAIN entries :
         /\ <<j, k>> \in order => <<k, j>> \notin order
         /\ j # k => <<j, k>> \in order \/ <<k, j>> \in order
         /\ \A i \in DOMAIN entries :
              <<i, j>> \in order /\ <<j, k>> \in order => <<i, k>> \in order
=============================================================================
