--------------------------- MODULE RouteSelector ---------------------------
(***************************************************************************)
(* One profile of the adaptive route selector of the vision layer: the     *)
(* Entry of adaptive_route_selector.hpp and the functions that the         *)
(* selector applies to it under the shard's mutex.                         *)
(*                                                                         *)
(* Measured times are left out.  Of a Measurement only the number of its   *)
(* samples remains, and wherever the code compares times both outcomes are *)
(* possible, so that an operation maps an entry to the set of entries it   *)
(* can leave behind.  The candidates are numbered in the order of          *)
(* automatic_candidates; 0 is NativeSequential, which is always one.       *)
(*                                                                         *)
(* The nonce of a probe is the thread that runs it: a thread runs one call *)
(* at a time, so its next probe begins after the last one has ended.       *)
(***************************************************************************)
EXTENDS Naturals, FiniteSets

CONSTANTS
    Threads, NoThread,
    route_count,                    \* candidates.size()
    warmup_samples, minimum_samples, sample_window, holdout_samples,
    maximum_verification_failures, initial_revalidate_interval,
    revalidate_interval, drift_required_samples     \* RouteSelectorSettings

Routes == 0 .. route_count - 1

NoIndex == route_count              \* invalid_index()

ASSUME SelectorAssumption ==
    /\ IsFiniteSet(Threads) /\ NoThread \notin Threads
    /\ route_count \in Nat \ {0}
    /\ warmup_samples \in Nat /\ minimum_samples \in Nat
    /\ sample_window \in Nat /\ holdout_samples \in Nat
    /\ maximum_verification_failures \in Nat
    /\ initial_revalidate_interval \in Nat /\ revalidate_interval \in Nat
    /\ drift_required_samples \in Nat

-----------------------------------------------------------------------------
(* Settings.                                                               *)

Least(m, n) == IF m <= n THEN m ELSE n
Most(m, n) == IF m >= n THEN m ELSE n

maximum_sample_window == 15

normalized_minimum ==
    Most(1, Least(minimum_samples,
                  Most(1, Least(sample_window, maximum_sample_window))))

normalized_window ==
    Most(normalized_minimum,
         Least(IF sample_window = 0 THEN normalized_minimum ELSE sample_window,
               maximum_sample_window))

normalized_initial_interval ==
    IF revalidate_interval = 0 THEN 0
    ELSE Most(1, Least(IF initial_revalidate_interval = 0
                         THEN revalidate_interval
                         ELSE initial_revalidate_interval,
                       revalidate_interval))

required_strikes == Most(1, drift_required_samples)

-----------------------------------------------------------------------------
(* The entry.                                                              *)

Phases == {"Learning", "Holdout", "Stable"}
RevalidationPhases == {"Idle", "StableA", "ChallengerA", "ChallengerB",
                       "StableB"}

Entry ==
    [warmups : [Routes -> Nat],     \* Measurement::warmups
     samples : [Routes -> Nat],     \* sample_count of `measurements'
     holdouts : [Routes -> Nat],    \* sample_count of `holdouts'
     active : SUBSET Routes,
     stable_route : Routes, phase : Phases, stable : BOOLEAN,
     probe : Threads \cup {NoThread},   \* active_probe_nonce, if in progress
     provisional : Routes, runner_up : Routes,
     learning_target : Nat, verification_failures : Nat,
     uses : Nat,                    \* uses_since_revalidation
     interval : Nat,                \* current_revalidate_interval
     next_alternative : Routes,     \* next_revalidation_index
     revalidation : RevalidationPhases,
     stable_index : Routes, challenger_index : Routes,
     stable_samples : Nat, challenger_samples : Nat,
     drift_strikes : Nat,
     baseline : BOOLEAN]            \* there is a time to measure drift against

Nothing == [i \in Routes |-> 0]

reset_entry ==
    [warmups |-> Nothing, samples |-> Nothing, holdouts |-> Nothing,
     active |-> Routes,
     stable_route |-> 0, phase |-> "Learning", stable |-> FALSE,
     probe |-> NoThread, provisional |-> 0, runner_up |-> 0,
     learning_target |-> normalized_minimum, verification_failures |-> 0,
     uses |-> 0, interval |-> normalized_initial_interval,
     next_alternative |-> 0, revalidation |-> "Idle",
     stable_index |-> 0, challenger_index |-> 0,
     stable_samples |-> 0, challenger_samples |-> 0,
     drift_strikes |-> 0, baseline |-> FALSE]

\* The number of samples after one or more were added to a bounded window.
add_samples(n, more, requested_window) ==
    LET window == Most(1, Least(IF requested_window = 0
                                  THEN maximum_sample_window
                                  ELSE requested_window,
                                maximum_sample_window))
    IN  IF n < window THEN Least(window, n + more) ELSE n
add_sample(n, requested_window) == add_samples(n, 1, requested_window)

\* Faulty variant: the slot is released whoever holds it.
ReleaseAny(e, t) == [e EXCEPT !.probe = NoThread]

release_probe(e, t) ==
    IF e.probe = t THEN [e EXCEPT !.probe = NoThread] ELSE e

\* The first of the routes in S, going round from `start'.
FirstFrom(S, start) ==
    CHOOSE i \in S : \A j \in S :
        (i + route_count - start) % route_count
            <= (j + route_count - start) % route_count

LeastOf(f, S) == CHOOSE n \in {f[i] : i \in S} : \A i \in S : n <= f[i]

\* The least observed of the routes in S, when it still needs observations.
\* `seed' is the rotation_seed.
Balanced(counts, S, required, seed) ==
    LET least == LeastOf(counts, S)
    IN  IF S = {} \/ least >= required THEN NoIndex
        ELSE FirstFrom({i \in S : counts[i] = least},
                       (seed + least) % route_count)

next_warmup_index(e, seed) ==
    IF warmup_samples = 0 THEN NoIndex
    ELSE Balanced(e.warmups, Routes, warmup_samples, seed)

next_learning_index(e, seed) ==
    IF e.phase # "Learning" THEN NoIndex
    ELSE Balanced(e.samples, e.active, e.learning_target, seed)

-----------------------------------------------------------------------------
(* Learning and holdout verification.                                      *)

\* The assignments that lock a route in.
Stabilize(e, route) ==
    [e EXCEPT !.stable_route = route, !.stable = TRUE, !.phase = "Stable",
              !.uses = 0, !.interval = normalized_initial_interval]

\* Any active route can be the preferred of those equivalent to the fastest,
\* and any other measured route, active or not, its runner-up.
start_holdout_or_stabilize(e) ==
    UNION {LET runners == {i \in Routes \ {p} : e.samples[i] > 0}
               f == [e EXCEPT !.provisional = p, !.holdouts = Nothing]
           IN  IF runners = {} \/ holdout_samples = 0
                 THEN {Stabilize(f, p)}
                 ELSE {[f EXCEPT !.runner_up = r, !.phase = "Holdout"] :
                         r \in runners}
           : p \in {i \in e.active : e.samples[i] > 0}}

active_round_complete(e) ==
    \A i \in e.active : e.samples[i] >= e.learning_target

\* After a complete round, clearly slower routes are eliminated; if some route
\* is neither clearly slower nor equivalent, the next round is longer.
prepare_learning_state(e) ==
    IF e.stable \/ e.phase # "Learning" \/ ~active_round_complete(e)
      THEN {e}
      ELSE UNION {LET f == [e EXCEPT !.active = kept] IN
                  start_holdout_or_stabilize(f)
                  \cup IF Cardinality(kept) > 1
                            /\ e.learning_target < normalized_window
                         THEN {[f EXCEPT !.learning_target =
                                  Least(normalized_window, @ + 2)]}
                         ELSE {}
                  : kept \in (SUBSET e.active) \ {{}}}

next_holdout_index(e) ==
    LET even == e.verification_failures % 2 = 0
        first  == IF even THEN e.provisional ELSE e.runner_up
        second == IF even THEN e.runner_up ELSE e.provisional
        m == e.holdouts[first]
        n == e.holdouts[second]
    IN  IF e.phase # "Holdout" \/ holdout_samples = 0 THEN NoIndex
        ELSE IF m < holdout_samples /\ m <= n THEN first
        ELSE IF n < holdout_samples THEN second
        ELSE IF m < holdout_samples THEN first
        ELSE NoIndex

\* Faulty variant: one side of the comparison is enough.
HoldoutOneSided(e) ==
    /\ e.phase = "Holdout"
    /\ e.holdouts[e.provisional] >= holdout_samples

holdout_complete(e) ==
    /\ e.phase = "Holdout"
    /\ e.holdouts[e.provisional] >= holdout_samples
    /\ e.holdouts[e.runner_up] >= holdout_samples

\* Faulty variant: a failed holdout leaves no trace.
HoldoutForgotten(e) ==
    {[e EXCEPT !.phase = "Learning", !.active = {e.provisional, e.runner_up},
               !.holdouts = Nothing]}

\* A failed holdout: its samples join the training samples, and learning is
\* reopened for the two routes unless the evidence is exhausted.  The holdout
\* failed by more than the margin, so that the winner is then the runner-up.
HoldoutFailed(e) ==
    LET pair == {e.provisional, e.runner_up}
        merged == [i \in Routes |->
                     IF i \in pair
                       THEN add_samples(e.samples[i], e.holdouts[i],
                                        normalized_window)
                       ELSE e.samples[i]]
        current == LeastOf(merged, pair)
        f == [e EXCEPT !.verification_failures = @ + 1, !.samples = merged]
    IN  IF \/ f.verification_failures >= maximum_verification_failures
           \/ current >= normalized_window
          THEN {Stabilize(f, e.runner_up)}
          ELSE {[f EXCEPT !.phase = "Learning", !.active = pair,
                          !.learning_target =
                              Least(normalized_window,
                                    Most(normalized_minimum, current + 2)),
                          !.holdouts = Nothing]}

finalize_holdout(e) ==
    IF ~holdout_complete(e) THEN {e}
    ELSE {Stabilize(e, e.provisional)} \cup HoldoutFailed(e)

\* The fallback for learning that ends without a decision.
choose_stable_from_training(e) ==
    {Stabilize(e, i) : i \in {j \in Routes : e.samples[j] > 0}}

\* What select does to an entry without a stable route before it looks for a
\* probe: finish a round, decide a holdout, finish a round again.
Learn(e) ==
    LET decided(f) == IF f.phase = "Holdout" /\ next_holdout_index(f) = NoIndex
                        THEN finalize_holdout(f) ELSE {f}
    IN  UNION {prepare_learning_state(g) :
                 g \in UNION {decided(f) : f \in prepare_learning_state(e)}}

-----------------------------------------------------------------------------
(* Revalidation of a stable route and drift.                               *)

\* Faulty variant: the candidate in turn may be the stable route itself.
AlternativeUnchecked(e, stable) == e.next_alternative

\* next_alternative: the next candidate in turn, skipping the stable one.
Alternative(e, stable) ==
    IF e.next_alternative # stable THEN e.next_alternative
    ELSE (e.next_alternative + 1) % route_count

initialize_revalidation(e) ==
    LET challenger == Alternative(e, e.stable_route) IN
    [e EXCEPT !.stable_samples = 0, !.challenger_samples = 0,
              !.stable_index = e.stable_route,
              !.challenger_index = challenger,
              !.next_alternative = (challenger + 1) % route_count,
              !.uses = 0]

\* The route and the stage of the next probe of a revalidation.
RevalidationProbe(e) ==
    CASE e.revalidation = "StableA"     -> <<e.stable_index, 1>>
      [] e.revalidation = "ChallengerA" -> <<e.challenger_index, 2>>
      [] e.revalidation = "ChallengerB" -> <<e.challenger_index, 3>>
      [] e.revalidation = "StableB"     -> <<e.stable_index, 4>>

\* The decision takes the challenger or keeps the stable route; a route that
\* is kept is trusted for twice as long.
finalize_revalidation(e) ==
    LET f == [e EXCEPT !.revalidation = "Idle", !.stable_samples = 0,
                       !.challenger_samples = 0, !.drift_strikes = 0,
                       !.uses = 0, !.baseline = TRUE]
        current == Most(1, e.interval)
        longer == IF current > revalidate_interval \div 2
                    THEN revalidate_interval ELSE current * 2
    IN  {[f EXCEPT !.stable_route = e.challenger_index,
                   !.interval = normalized_initial_interval],
         [f EXCEPT !.interval =
                       IF revalidate_interval = 0 THEN @ ELSE longer]}

advance_revalidation(e, stage) ==
    CASE stage = 1 -> {[e EXCEPT !.revalidation = "ChallengerA"]}
      [] stage = 2 -> {[e EXCEPT !.revalidation = "ChallengerB"]}
      [] stage = 3 -> {[e EXCEPT !.revalidation = "StableB"]}
      [] stage = 4 -> finalize_revalidation(e)

\* A sample of the stable route is a strike or ends the row of strikes; enough
\* strikes start a revalidation in which this sample is stable A.
process_drift_sample(e, index) ==
    LET strikes == Least(e.drift_strikes + 1, required_strikes)
        struck == [e EXCEPT !.drift_strikes = strikes]
    IN  {[e EXCEPT !.drift_strikes = 0]}
        \cup IF ~e.baseline THEN {}
             ELSE IF strikes < required_strikes \/ route_count < 2 THEN {struck}
             ELSE {[initialize_revalidation(struck) EXCEPT
                      !.stable_index = index, !.stable_samples = 1,
                      !.revalidation = "ChallengerA"]}

-----------------------------------------------------------------------------
(* AdaptiveRouteSelector::select and ::complete on the entry of the key.   *)

Kinds == {"none", "warmup", "learning", "holdout", "revalidation", "drift"}

\* RouteSelection: the entry left behind and the caller's orders.
Selection(e, route, kind, stage) ==
    [entry |-> e, route |-> route, kind |-> kind, stage |-> stage,
     stable |-> e.stable]

begin_probe(e, t, route, kind, stage) ==
    Selection([e EXCEPT !.probe = t], route, kind, stage)

Busy(e) == e.probe # NoThread

\* While another call probes, a call runs the best route known so far.
SelectFallback(e) ==
    Selection(e, IF e.stable THEN e.stable_route
                 ELSE IF e.phase = "Holdout" THEN e.provisional ELSE 0,
              "none", 0)

\* An entry with a stable route: continue a revalidation, sample the route for
\* drift, begin a revalidation that is due, or just use the route.
SelectStable(e, t, force) ==
    LET f == [e EXCEPT !.baseline = @ \/ e.samples[e.stable_route] > 0]
        used == [f EXCEPT !.uses = IF f.interval = 0 THEN @
                                   ELSE Least(f.interval, @ + 1)]
        due == \/ force = "revalidation"
               \/ used.interval > 0 /\ used.uses >= used.interval
        started == [initialize_revalidation(used) EXCEPT
                      !.revalidation = "StableA"]
        Probe(g) == begin_probe(g, t, RevalidationProbe(g)[1], "revalidation",
                                RevalidationProbe(g)[2])
    IN  IF f.revalidation # "Idle" THEN Probe(f)
        ELSE IF force = "drift" THEN begin_probe(f, t, f.stable_route, "drift", 0)
        ELSE IF route_count > 1 /\ due THEN Probe(started)
        ELSE Selection(used, f.stable_route, "none", 0)

\* An entry that still learns: the next probe, or the decision to stop.
SelectLearning(e, t, seed, force) ==
    UNION {LET index == IF next_holdout_index(f) # NoIndex
                          THEN next_holdout_index(f)
                          ELSE next_learning_index(f, seed)
           IN  IF f.stable THEN {SelectStable(f, t, force)}
               ELSE IF index # NoIndex
                 THEN {begin_probe(f, t, index,
                                   IF f.phase = "Holdout" THEN "holdout"
                                                          ELSE "learning", 0)}
               ELSE {SelectStable(g, t, force) :
                       g \in choose_stable_from_training(f)}
           : f \in Learn(e)}

select(e, t, seed, force) ==
    IF Busy(e) THEN {SelectFallback(e)}
    ELSE IF next_warmup_index(e, seed) # NoIndex
      THEN {begin_probe(e, t, next_warmup_index(e, seed), "warmup", 0)}
    ELSE IF e.stable THEN {SelectStable(e, t, force)}
    ELSE SelectLearning(e, t, seed, force)

\* complete, for a call that was a probe.
complete(e, t, route, kind, stage) ==
    LET f == release_probe(e, t) IN
    CASE kind = "revalidation" ->
           advance_revalidation(
             IF stage \in {1, 4}
               THEN [f EXCEPT !.stable_samples = add_sample(@, 2)]
               ELSE [f EXCEPT !.challenger_samples = add_sample(@, 2)], stage)
      [] kind = "drift"   -> process_drift_sample(f, route)
      [] kind = "warmup"  -> {[f EXCEPT !.warmups[route] = @ + 1]}
      [] kind = "holdout" ->
           finalize_holdout([f EXCEPT
             !.holdouts[route] = add_sample(@, sample_window)])
      [] kind = "learning" ->
           prepare_learning_state([f EXCEPT
             !.samples[route] = add_sample(@, sample_window)])
=============================================================================
