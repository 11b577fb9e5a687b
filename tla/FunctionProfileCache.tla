------------------------ MODULE FunctionProfileCache -------------------------
(***************************************************************************)
(* The caches the adaptive loop learns into, as values and what the        *)
(* operations make of them: FunctionProfileCache                           *)
(* (function_profile_cache.hpp) and BackendCalibrationCache                *)
(* (backend_calibration.hpp).  Each operation holds the cache's mutex, so  *)
(* each is one step of whoever calls it.                                   *)
(*                                                                         *)
(* A measured cost is one of three classes: Below the margin of the        *)
(* sequential fast path, Near the predicted-speedup threshold but under    *)
(* it, or Above it.  The share of calls in which nested loops were seen    *)
(* halves with each observation; only its class matters: always (1),       *)
(* recent (from one half to 1) or none.  Access epochs are modelled by the *)
(* order they establish, the least recently used key first.                *)
(***************************************************************************)
EXTENDS Naturals, Sequences, FiniteSets

CONSTANTS
    MinObservations,      \* ..._sequential_fast_path_min_observations
    FastPathInterval,     \* ..._sequential_fast_path_revalidate_interval
    StablePlanInterval,   \* ..._stable_plan_revalidate_interval
    MaxEntries,           \* ..._profile_cache_max_entries
    MinSamples,           \* ..._backend_calibration_min_samples
    MaxCalibrations,      \* ..._backend_calibration_max_entries
    NoKey

ASSUME CacheAssumption ==
    /\ MinObservations \in Nat \ {0}
    /\ FastPathInterval \in Nat \ {0} /\ StablePlanInterval \in Nat \ {0}
    /\ MaxEntries \in Nat \ {0}
    /\ MinSamples \in Nat \ {0} /\ MaxCalibrations \in Nat \ {0}

Costs   == {"Below", "Near", "Above"}
Engines == {"ThreadPool", "OneTbb"}

Sequential == [parallel |-> FALSE, engine |-> "ThreadPool", jobs |-> 1]
NoPlan     == [parallel |-> FALSE, engine |-> "none", jobs |-> 0]
NoEntry    == [generation |-> 0]

\* What a plan was decided from: the generation of the profile (0: none) and
\* the root call.  Kept beside plans for the properties only.
NoBasis    == [of |-> 0, by |-> 0]

\* Counters are compared with one bound only and are cut there.
Cut(n, bound) == IF n < bound THEN n + 1 ELSE bound

-----------------------------------------------------------------------------
(* Profiles.                                                               *)

EmptyCache ==
    [entries |-> <<>>, order |-> <<>>, epoch |-> 1, generation |-> 0,
     frozen |-> FALSE, builds |-> {}, revalidations |-> {}]

Known(c) == DOMAIN c.entries

touch(c, k) ==
    [c EXCEPT !.order = Append(SelectSeq(@, LAMBDA x : x # k), k)]

find(c, k) == IF k \in Known(c) THEN touch(c, k) ELSE c

Found(c, k) == IF k \in Known(c) THEN c.entries[k] ELSE NoEntry

note_sequential_fast_path_use(c, k) ==
    IF k \in Known(c)
    THEN touch([c EXCEPT !.entries[k].fast_uses = Cut(@, FastPathInterval)], k)
    ELSE c

note_stable_plan_use(c, k) ==
    IF k \in Known(c) /\ c.entries[k].plan # NoPlan
    THEN touch([c EXCEPT !.entries[k].plan_uses = Cut(@, StablePlanInterval)], k)
    ELSE c

\* The guards are markers of a key in a set; destroying a guard removes it.
MayBuild(c, k) == k \notin Known(c) /\ k \notin c.builds

MayRevalidate(c, k) ==
    ~c.frozen /\ k \in Known(c) /\ k \notin c.revalidations

try_acquire_profile_build(c, k) ==
    IF MayBuild(c, k) THEN [c EXCEPT !.builds = @ \cup {k}] ELSE c

try_acquire_revalidation(c, k) ==
    IF MayRevalidate(c, k) THEN [c EXCEPT !.revalidations = @ \cup {k}] ELSE c

Released(c, builds, revalidations) ==
    [c EXCEPT !.builds = @ \ builds, !.revalidations = @ \ revalidations]

\* Mutant: the markers are dropped with the profiles.
ClearMarkers(c) ==
    [c EXCEPT !.entries = <<>>, !.order = <<>>, !.frozen = FALSE,
              !.epoch = @ + 1, !.builds = {}, !.revalidations = {}]

\* Markers survive: their guards still exist on other threads.
clear(c) ==
    [c EXCEPT !.entries = <<>>, !.order = <<>>, !.frozen = FALSE,
              !.epoch = @ + 1]

\* make_room_for: keys in flight are never evicted; without a victim the
\* publication is rejected.
Full(c, k)      == k \notin Known(c) /\ Cardinality(Known(c)) >= MaxEntries
Evictable(c)    == SelectSeq(c.order,
                             LAMBDA x : x \notin c.builds \cup c.revalidations)
make_room_for(c, k) == Full(c, k) => Evictable(c) # <<>>

Victim(c, k) == IF Full(c, k) THEN Head(Evictable(c)) ELSE NoKey

\* What of an observation decides how it changes an entry.
FirstEntry(p, g) ==
    [cost |-> p.cost, reliable |-> p.reliable, high |-> FALSE,
     observations |-> 1, fast_uses |-> 0,
     nested |-> IF p.nested THEN "always" ELSE "none",
     plan |-> NoPlan, plan_uses |-> 0, group |-> p.group,
     generation |-> g, since |-> p.since, lax |-> p.lax, basis |-> NoBasis]

NestedEvidence(old, seen) ==
    CASE old = "always" /\ seen  -> "always"
      [] old = "always" /\ ~seen -> "recent"
      [] old # "always" /\ seen  -> "recent"
      [] OTHER                   -> "none"

\* Mutant: the plan computed from the older profile is kept.
BlendedKeepsPlan(e, p, g) ==
    [e EXCEPT !.cost = p.cost, !.observations = Cut(@, MinObservations),
              !.fast_uses = 0, !.generation = g]

\* One observation group, a root call, counts once.
Blended(e, p, g) ==
    LET n == IF e.group # p.group THEN Cut(e.observations, MinObservations)
             ELSE e.observations
    IN  [e EXCEPT !.cost = p.cost, !.observations = n, !.group = p.group,
                  !.high = n >= MinObservations, !.fast_uses = 0,
                  !.nested = NestedEvidence(@, p.nested),
                  !.plan = NoPlan, !.plan_uses = 0, !.generation = g,
                  !.since = IF p.since < @ THEN p.since ELSE @,
                  !.lax = @ \/ p.lax]

Contradicts(e, p) == (e.cost = "Above") # (p.cost = "Above")

NextEntry(c, k, p) ==
    LET g == c.generation + 1
    IN  IF k \notin Known(c) \/ Contradicts(Found(c, k), p) THEN FirstEntry(p, g)
        ELSE Blended(c.entries[k], p, g)

\* Mutant: the epoch is not compared.
AcceptedLate(c, k, expected_epoch) == make_room_for(c, k)

\* An observation that read the epoch before a clear is rejected.
Accepted(c, k, expected_epoch) ==
    expected_epoch = c.epoch /\ make_room_for(c, k)

store(c, k, p, expected_epoch) ==
    IF ~Accepted(c, k, expected_epoch) THEN c
    ELSE LET v    == Victim(c, k)
             keep == (Known(c) \ {v}) \cup {k}
         IN  [c EXCEPT
                !.entries = [x \in keep |-> IF x = k THEN NextEntry(c, k, p)
                                            ELSE c.entries[x]],
                !.order = Append(SelectSeq(@, LAMBDA x : x \notin {k, v}), k),
                !.generation = @ + 1]

\* What store returns: the generation published, or 0.
StoredGeneration(c, k, expected_epoch) ==
    IF Accepted(c, k, expected_epoch) THEN c.generation + 1 ELSE 0

\* A plan is installed only while the profile has generation g.
store_stable_plan(c, k, plan, g, basis) ==
    IF k \in Known(c) /\ g # 0 /\ c.entries[k].generation = g
    THEN touch([c EXCEPT !.entries[k] = [@ EXCEPT !.plan = plan, !.plan_uses = 0,
                                                  !.basis = basis]], k)
    ELSE c

-----------------------------------------------------------------------------
(* Calibration of the two interchangeable backends, per profile generation. *)
(* The evicted entry is the least recently used one in the code and any     *)
(* other one here; which mean is smaller is an input.                       *)

other_backend(b) == IF b = "OneTbb" THEN "ThreadPool" ELSE "OneTbb"

NoCalibration(g) ==
    [generation |-> g, samples |-> [b \in Engines |-> 0], winner |-> "none",
     from |-> {}]

\* The caches find_or_create may leave, with the entry for this generation.
find_or_create(cal, k, g) ==
    LET fresh == k \notin DOMAIN cal
        full  == fresh /\ Cardinality(DOMAIN cal) >= MaxCalibrations
        entry == IF ~fresh /\ cal[k].generation = g THEN cal[k]
                 ELSE NoCalibration(g)
        With(s) == [x \in s \cup {k} |-> IF x = k THEN entry ELSE cal[x]]
    IN  IF full THEN {With(DOMAIN cal \ {v}) : v \in DOMAIN cal}
        ELSE {With(DOMAIN cal)}

Compared(e) == \A b \in Engines : e.samples[b] >= MinSamples

\* <<cache, backend>> after select; `faster' is the backend with the smaller
\* mean.
select(cal, k, g, requested, faster) ==
    {LET e == c[k] IN
        CASE e.winner # "none"                   -> <<c, e.winner>>
          [] e.winner = "none" /\ e.samples[requested] < MinSamples ->
                <<c, requested>>
          [] e.winner = "none" /\ e.samples[requested] >= MinSamples
             /\ ~Compared(e)                      -> <<c, other_backend(requested)>>
          [] OTHER                                -> <<[c EXCEPT ![k].winner = faster],
                                                       faster>>
     : c \in find_or_create(cal, k, g)}

record(cal, k, g, backend, faster) ==
    {LET s == [c EXCEPT ![k].samples[backend] = Cut(@, MinSamples),
                        ![k].from = @ \cup {g}]
     IN  IF Compared(s[k]) THEN [s EXCEPT ![k].winner = faster] ELSE s
     : c \in find_or_create(cal, k, g)}
=============================================================================
