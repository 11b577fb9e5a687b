------------------------- MODULE VisionRoutesProofs -------------------------
(***************************************************************************)
(* Proofs about the adaptive routes of the vision layer: the probe slot of *)
(* a profile, the verification of stable routes, the order of the samples  *)
(* of a revalidation and the convergence of learning, for any number of    *)
(* threads, images and routes and for all settings.                        *)
(***************************************************************************)
EXTENDS VisionRoutes, FiniteSetTheorems, WellFoundedInduction, TLAPS

USE SelectorAssumption, VisionAssumption

-----------------------------------------------------------------------------
(* Numbers.                                                                *)

\* A set of natural numbers that is not empty has a least element.
LEMMA Smallest ==
    ASSUME NEW S \in SUBSET Nat, S # {}
    PROVE  \E n \in S : \A m \in S : n <= m
<1>1. \E n \in S : \A m \in S : ~(<<m, n>> \in OpToRel(<, Nat))
    BY NatLessThanWellFounded, WFMin
<1>2. PICK n \in S : \A m \in S : ~(<<m, n>> \in OpToRel(<, Nat))
    BY <1>1
<1>3. ASSUME NEW m \in S
      PROVE  n <= m
    <2>1. m \in Nat /\ n \in Nat
        BY <1>3
    <2>2. ~(m < n)
        BY <1>2, <1>3, <2>1, Zenon DEF OpToRel
    <2> QED BY <2>1, <2>2
<1> QED BY <1>3

\* The settings after normalisation.
LEMMA Settings ==
    /\ normalized_minimum \in Nat /\ 1 <= normalized_minimum
    /\ normalized_window \in Nat /\ normalized_minimum <= normalized_window
    /\ normalized_window <= maximum_sample_window
    /\ normalized_initial_interval \in Nat
    /\ required_strikes \in Nat
    /\ 0 \in Routes /\ NoIndex \notin Routes
BY DEF normalized_minimum, normalized_window, normalized_initial_interval,
       required_strikes, Least, Most, maximum_sample_window, Routes, NoIndex

\* Going round the candidates stays among them.
LEMMA Round ==
    ASSUME NEW n \in Nat
    PROVE  n % route_count \in Routes
BY DEF Routes

\* The candidate after n is another one, unless n is alone.
LEMMA After ==
    ASSUME NEW n \in Routes, route_count > 1
    PROVE  (n + 1) % route_count # n
<1>1. CASE n + 1 = route_count
    BY <1>1 DEF Routes
<1>2. CASE n + 1 < route_count
    <2>1. (n + 1) % route_count = n + 1
        BY <1>2 DEF Routes
    <2> QED BY <2>1 DEF Routes
<1> QED BY <1>1, <1>2 DEF Routes

\* The window of add_sample: the most samples it keeps.
SampleWindow(requested) ==
    Most(1, Least(IF requested = 0 THEN maximum_sample_window ELSE requested,
                  maximum_sample_window))

\* add_samples adds, up to the window.
LEMMA Adds ==
    ASSUME NEW n \in Nat, NEW more \in Nat, NEW window \in Nat
    PROVE  /\ add_samples(n, more, window) \in Nat
           /\ n <= add_samples(n, more, window)
           /\ n <= SampleWindow(window)
                => add_samples(n, more, window) <= SampleWindow(window)
           /\ add_samples(n, more, window) <= n + more
           /\ n < SampleWindow(window) /\ more > 0
                => n < add_samples(n, more, window)
BY DEF add_samples, SampleWindow, Least, Most, maximum_sample_window

-----------------------------------------------------------------------------
(* Choosing a candidate.                                                   *)

\* LeastOf is the least count of the routes in S.
LEMMA LeastCount ==
    ASSUME NEW f \in [Routes -> Nat], NEW S \in SUBSET Routes, S # {}
    PROVE  /\ LeastOf(f, S) \in Nat
           /\ \E i \in S : f[i] = LeastOf(f, S)
           /\ \A i \in S : LeastOf(f, S) <= f[i]
<1> DEFINE C == {f[i] : i \in S}
<1>1. C \in SUBSET Nat /\ C # {}
    OBVIOUS
<1>2. \E n \in C : \A m \in C : n <= m
    BY <1>1, Smallest
<1>3. \E n \in C : \A i \in S : n <= f[i]
    BY <1>2
<1>4. LeastOf(f, S) \in C /\ \A i \in S : LeastOf(f, S) <= f[i]
    BY <1>3 DEF LeastOf
<1> QED BY <1>1, <1>4

\* FirstFrom is a route of S.
LEMMA FirstOf ==
    ASSUME NEW S \in SUBSET Routes, S # {}, NEW start \in Routes
    PROVE  FirstFrom(S, start) \in S
<1> DEFINE D(i) == (i + route_count - start) % route_count
           C == {D(i) : i \in S}
<1>1. \A i \in S : i + route_count - start \in Nat
    BY DEF Routes
<1>2. \A i \in S : D(i) \in Nat
    BY <1>1, Round DEF Routes
<1>3. C \in SUBSET Nat /\ C # {}
    BY <1>2
<1>4. \E n \in C : \A m \in C : n <= m
    BY <1>3, Smallest
<1>5. \E i \in S : \A j \in S : D(i) <= D(j)
    BY <1>4
<1> QED BY <1>5 DEF FirstFrom

\* Balanced is one of the routes in S that need observations, if any does.
LEMMA BalancedChoice ==
    ASSUME NEW counts \in [Routes -> Nat], NEW S \in SUBSET Routes,
           NEW required \in Nat, NEW seed \in Routes
    PROVE  LET b == Balanced(counts, S, required, seed) IN
           /\ b \in Routes \cup {NoIndex}
           /\ b # NoIndex => b \in S /\ counts[b] < required
           /\ b = NoIndex => \A i \in S : required <= counts[i]
<1>1. CASE S = {}
    BY <1>1 DEF Balanced
<1>2. CASE S # {}
    <2> DEFINE least == LeastOf(counts, S)
               T == {i \in S : counts[i] = least}
    <2>1. /\ least \in Nat /\ T # {} /\ T \in SUBSET Routes
          /\ \A i \in S : least <= counts[i]
        BY <1>2, LeastCount
    <2>2. (seed + least) % route_count \in Routes
        <3>1. seed + least \in Nat
            BY <2>1 DEF Routes
        <3> QED BY <3>1, Round
    <2>3. FirstFrom(T, (seed + least) % route_count) \in T
        BY <2>1, <2>2, FirstOf
    <2>4. CASE least >= required
        <3>1. Balanced(counts, S, required, seed) = NoIndex
            BY <2>4 DEF Balanced
        <3> HIDE DEF least
        <3>2. \A i \in S : required <= counts[i]
            BY <2>1, <2>4
        <3> QED BY <3>1, <3>2, Zenon
    <2>5. CASE ~(least >= required)
        <3>1. Balanced(counts, S, required, seed)
                = FirstFrom(T, (seed + least) % route_count)
            BY <1>2, <2>5 DEF Balanced
        <3> QED BY <2>1, <2>3, <2>5, <3>1, Settings
    <2> QED BY <2>4, <2>5
<1> QED BY <1>1, <1>2

-----------------------------------------------------------------------------
(* Types of the operations on an entry, and what they do to its slot.      *)

\* A later state of the entry, with the same call in its probe slot.
Kin(e, f) == f \in Entry /\ f.probe = e.probe

LEMMA NothingTyped == Nothing \in [Routes -> Nat]
BY DEF Nothing

LEMMA ResetTyped == reset_entry \in Entry /\ reset_entry.probe = NoThread
BY Settings, NothingTyped DEF reset_entry, Entry, Phases, RevalidationPhases

LEMMA StabilizeTyped ==
    ASSUME NEW e \in Entry, NEW i \in Routes
    PROVE  Kin(e, Stabilize(e, i))
BY Settings DEF Entry, Stabilize, Phases, Kin

LEMMA StartTyped ==
    ASSUME NEW e \in Entry, NEW f \in start_holdout_or_stabilize(e)
    PROVE  Kin(e, f)
<1> DEFINE runners(p) == {i \in Routes \ {p} : e.samples[i] > 0}
           h(p) == [e EXCEPT !.provisional = p, !.holdouts = Nothing]
<1>1. PICK p \in {i \in e.active : e.samples[i] > 0} :
        f \in IF runners(p) = {} \/ holdout_samples = 0
                THEN {Stabilize(h(p), p)}
                ELSE {[h(p) EXCEPT !.runner_up = r, !.phase = "Holdout"] :
                        r \in runners(p)}
    BY DEF start_holdout_or_stabilize
<1>2. p \in Routes /\ Kin(e, h(p))
    BY NothingTyped DEF Entry, Kin
<1> HIDE DEF h
<1>3. CASE f = Stabilize(h(p), p)
    BY <1>2, <1>3, StabilizeTyped DEF Kin
<1>4. ASSUME NEW r \in Routes,
             f = [h(p) EXCEPT !.runner_up = r, !.phase = "Holdout"]
      PROVE  Kin(e, f)
    BY <1>2, <1>4 DEF Kin, Entry, Phases
<1> QED BY <1>1, <1>3, <1>4

LEMMA PrepareTyped ==
    ASSUME NEW e \in Entry, NEW f \in prepare_learning_state(e)
    PROVE  Kin(e, f)
<1> DEFINE h(kept) == [e EXCEPT !.active = kept]
<1>1. CASE f = e
    BY <1>1 DEF Kin
<1>2. CASE f # e
    <2>1. PICK kept \in SUBSET e.active :
            \/ f \in start_holdout_or_stabilize(h(kept))
            \/ f = [h(kept) EXCEPT !.learning_target =
                                     Least(normalized_window, @ + 2)]
        BY <1>2 DEF prepare_learning_state
    <2>2. Kin(e, h(kept)) /\ h(kept).learning_target \in Nat
        BY DEF Entry, Kin
    <2> HIDE DEF h
    <2>3. CASE f \in start_holdout_or_stabilize(h(kept))
        BY <2>2, <2>3, StartTyped DEF Kin
    <2>4. CASE f = [h(kept) EXCEPT !.learning_target =
                                     Least(normalized_window, @ + 2)]
        <3>1. Least(normalized_window, h(kept).learning_target + 2) \in Nat
            BY <2>2, Settings DEF Least
        <3> QED BY <2>2, <2>4, <3>1 DEF Kin, Entry
    <2> QED BY <2>1, <2>3, <2>4
<1> QED BY <1>1, <1>2

\* The training samples after a failed holdout.
Merged(e) ==
    [i \in Routes |-> IF i \in {e.provisional, e.runner_up}
                        THEN add_samples(e.samples[i], e.holdouts[i],
                                         normalized_window)
                        ELSE e.samples[i]]

LEMMA MergedTyped ==
    ASSUME NEW e \in Entry
    PROVE  /\ Merged(e) \in [Routes -> Nat]
           /\ \A i \in Routes : e.samples[i] <= Merged(e)[i]
           /\ LeastOf(Merged(e), {e.provisional, e.runner_up}) \in Nat
<1>1. \A i \in Routes : e.samples[i] \in Nat /\ e.holdouts[i] \in Nat
    BY DEF Entry
<1>2. Merged(e) \in [Routes -> Nat]
    BY <1>1, Adds, Settings DEF Merged
<1>3. ASSUME NEW i \in Routes
      PROVE  e.samples[i] <= Merged(e)[i]
    <2>1. \/ Merged(e)[i] = e.samples[i]
          \/ Merged(e)[i] = add_samples(e.samples[i], e.holdouts[i],
                                       normalized_window)
        BY DEF Merged
    <2>2. e.samples[i] <= add_samples(e.samples[i], e.holdouts[i],
                                      normalized_window)
        BY <1>1, Adds, Settings
    <2> QED BY <1>1, <2>1, <2>2
<1>4. LeastOf(Merged(e), {e.provisional, e.runner_up}) \in Nat
    <2>1. {e.provisional, e.runner_up} \in SUBSET Routes
        BY DEF Entry
    <2> QED BY <1>2, <2>1, LeastCount
<1> QED BY <1>2, <1>3, <1>4

\* The two outcomes of a failed holdout.
Failed(e) ==
    [e EXCEPT !.verification_failures = @ + 1, !.samples = Merged(e)]
Reopened(e) ==
    [Failed(e) EXCEPT
       !.phase = "Learning", !.active = {e.provisional, e.runner_up},
       !.learning_target =
           Least(normalized_window,
                 Most(normalized_minimum,
                      LeastOf(Merged(e), {e.provisional, e.runner_up}) + 2)),
       !.holdouts = Nothing]

LEMMA FailedOutcomes ==
    ASSUME NEW e \in Entry
    PROVE  HoldoutFailed(e) =
             IF \/ Failed(e).verification_failures
                     >= maximum_verification_failures
                \/ LeastOf(Merged(e), {e.provisional, e.runner_up})
                     >= normalized_window
               THEN {Stabilize(Failed(e), e.runner_up)} ELSE {Reopened(e)}
BY Zenon DEF HoldoutFailed, Failed, Reopened, Merged

LEMMA FailedTyped ==
    ASSUME NEW e \in Entry
    PROVE  Kin(e, Failed(e)) /\ Kin(e, Reopened(e))
<1>1. Kin(e, Failed(e))
    <2>1. Merged(e) \in [Routes -> Nat]
        BY MergedTyped
    <2>2. e.verification_failures + 1 \in Nat
        BY DEF Entry
    <2> QED BY <2>1, <2>2 DEF Kin, Failed, Entry
<1>2. Least(normalized_window,
            Most(normalized_minimum,
                 LeastOf(Merged(e), {e.provisional, e.runner_up}) + 2)) \in Nat
    BY MergedTyped, Settings DEF Least, Most
<1>3. {e.provisional, e.runner_up} \in SUBSET Routes
    BY DEF Entry
<1>4. Kin(e, Reopened(e))
    BY <1>1, <1>2, <1>3, NothingTyped DEF Kin, Reopened, Entry, Phases
<1> QED BY <1>1, <1>4

LEMMA FinalizeTyped ==
    ASSUME NEW e \in Entry, NEW f \in finalize_holdout(e)
    PROVE  Kin(e, f)
<1>1. \/ f = e \/ f = Stabilize(e, e.provisional)
      \/ f = Stabilize(Failed(e), e.runner_up) \/ f = Reopened(e)
    BY FailedOutcomes DEF finalize_holdout
<1>2. e.provisional \in Routes /\ e.runner_up \in Routes
    BY DEF Entry
<1>3. Kin(e, Stabilize(e, e.provisional))
    BY <1>2, StabilizeTyped
<1>4. Kin(e, Failed(e)) /\ Kin(e, Reopened(e))
    BY FailedTyped
<1>5. Kin(e, Stabilize(Failed(e), e.runner_up))
    BY <1>2, <1>4, StabilizeTyped DEF Kin
<1> QED BY <1>1, <1>3, <1>4, <1>5 DEF Kin

\* The states that Learn passes through.
LEMMA LearnPath ==
    ASSUME NEW e, NEW h \in Learn(e)
    PROVE  \E f \in prepare_learning_state(e) :
             \E g : /\ h \in prepare_learning_state(g)
                    /\ \/ g = f
                       \/ /\ f.phase = "Holdout"
                          /\ next_holdout_index(f) = NoIndex
                          /\ g \in finalize_holdout(f)
                    /\ f.phase = "Holdout" /\ next_holdout_index(f) = NoIndex
                         => g \in finalize_holdout(f)
<1> DEFINE decided(f) == IF f.phase = "Holdout"
                              /\ next_holdout_index(f) = NoIndex
                           THEN finalize_holdout(f) ELSE {f}
<1>1. PICK g \in UNION {decided(f) : f \in prepare_learning_state(e)} :
        h \in prepare_learning_state(g)
    BY DEF Learn
<1>2. PICK f \in prepare_learning_state(e) : g \in decided(f)
    BY <1>1
<1> QED BY <1>1, <1>2

LEMMA LearnTyped ==
    ASSUME NEW e \in Entry, NEW h \in Learn(e)
    PROVE  Kin(e, h)
<1>1. PICK f \in prepare_learning_state(e) :
        \E g : /\ h \in prepare_learning_state(g)
               /\ g = f \/ g \in finalize_holdout(f)
    BY LearnPath
<1>2. PICK g : /\ h \in prepare_learning_state(g)
               /\ g = f \/ g \in finalize_holdout(f)
    BY <1>1
<1>3. Kin(e, f)
    BY PrepareTyped
<1>4. Kin(e, g)
    BY <1>2, <1>3, FinalizeTyped DEF Kin
<1> QED BY <1>2, <1>4, PrepareTyped DEF Kin

LEMMA ChooseTyped ==
    ASSUME NEW e \in Entry, NEW f \in choose_stable_from_training(e)
    PROVE  Kin(e, f)
BY StabilizeTyped DEF choose_stable_from_training

LEMMA AlternativeTyped ==
    ASSUME NEW e \in Entry
    PROVE  /\ Alternative(e, e.stable_route) \in Routes
           /\ (Alternative(e, e.stable_route) + 1) % route_count \in Routes
           /\ route_count > 1
                => Alternative(e, e.stable_route) # e.stable_route
<1>1. e.next_alternative \in Routes
    BY DEF Entry
<1>2. e.next_alternative + 1 \in Nat
    BY <1>1 DEF Routes
<1>3. Alternative(e, e.stable_route) \in Routes
    BY <1>1, <1>2, Round DEF Alternative
<1>4. Alternative(e, e.stable_route) + 1 \in Nat
    BY <1>3 DEF Routes
<1>5. (Alternative(e, e.stable_route) + 1) % route_count \in Routes
    BY <1>4, Round
<1>6. ASSUME route_count > 1
      PROVE  Alternative(e, e.stable_route) # e.stable_route
    BY <1>1, <1>6, After DEF Alternative
<1> QED BY <1>3, <1>5, <1>6

LEMMA InitializeTyped ==
    ASSUME NEW e \in Entry
    PROVE  Kin(e, initialize_revalidation(e))
<1>1. e.stable_route \in Routes
    BY DEF Entry
<1> QED BY <1>1, AlternativeTyped DEF initialize_revalidation, Kin, Entry

\* The entry after a revalidation, before its decision.
Settled(e) ==
    [e EXCEPT !.revalidation = "Idle", !.stable_samples = 0,
              !.challenger_samples = 0, !.drift_strikes = 0,
              !.uses = 0, !.baseline = TRUE]

LEMMA SettledTyped ==
    ASSUME NEW e \in Entry
    PROVE  Kin(e, Settled(e))
BY DEF Settled, Kin, Entry, RevalidationPhases

\* The two decisions of a revalidation.
LEMMA Decisions ==
    ASSUME NEW e \in Entry, NEW f \in finalize_revalidation(e)
    PROVE  \E n \in Nat : \/ f = [Settled(e) EXCEPT
                                    !.stable_route = e.challenger_index,
                                    !.interval = n]
                          \/ f = [Settled(e) EXCEPT !.interval = n]
<1> DEFINE current == Most(1, e.interval)
           longer == IF current > revalidate_interval \div 2
                       THEN revalidate_interval ELSE current * 2
           kept == IF revalidate_interval = 0 THEN Settled(e).interval
                   ELSE longer
<1>1. e.interval \in Nat /\ Settled(e).interval = e.interval
    BY DEF Entry, Settled
<1>2. current \in Nat
    BY <1>1 DEF Most
<1>3. longer \in Nat
    <2> HIDE DEF current
    <2>1. current * 2 \in Nat
        BY <1>2
    <2> QED BY <2>1
<1>4. kept \in Nat
    BY <1>1, <1>3
<1>5. \/ f = [Settled(e) EXCEPT !.stable_route = e.challenger_index,
                                !.interval = normalized_initial_interval]
      \/ f = [Settled(e) EXCEPT !.interval = kept]
    BY DEF finalize_revalidation, Settled
<1> QED BY <1>4, <1>5, Settings, Zenon

LEMMA AdvanceTyped ==
    ASSUME NEW e \in Entry, NEW stage \in 1 .. 4,
           NEW f \in advance_revalidation(e, stage)
    PROVE  Kin(e, f)
<1>1. CASE stage \in 1 .. 3
    <2>1. PICK p \in RevalidationPhases : f = [e EXCEPT !.revalidation = p]
        BY <1>1 DEF advance_revalidation, RevalidationPhases
    <2> QED BY <2>1 DEF Kin, Entry
<1>2. CASE stage = 4
    <2>1. f \in finalize_revalidation(e)
        BY <1>2 DEF advance_revalidation
    <2>2. e.challenger_index \in Routes
        BY DEF Entry
    <2>3. PICK n \in Nat : \/ f = [Settled(e) EXCEPT
                                     !.stable_route = e.challenger_index,
                                     !.interval = n]
                           \/ f = [Settled(e) EXCEPT !.interval = n]
        BY <2>1, Decisions
    <2>4. Kin(e, Settled(e))
        BY SettledTyped
    <2>5. Kin(e, [Settled(e) EXCEPT !.interval = n])
        BY <2>4 DEF Kin, Entry
    <2>6. Kin(e, [Settled(e) EXCEPT !.stable_route = e.challenger_index,
                                    !.interval = n])
        BY <2>2, <2>4 DEF Kin, Entry
    <2> QED BY <2>3, <2>5, <2>6
<1> QED BY <1>1, <1>2

\* The entry after one more strike.
Struck(e) ==
    [e EXCEPT !.drift_strikes = Least(e.drift_strikes + 1, required_strikes)]

\* The outcomes of a drift sample.
LEMMA DriftOutcomes ==
    ASSUME NEW e, NEW i, NEW f \in process_drift_sample(e, i)
    PROVE  \/ f = [e EXCEPT !.drift_strikes = 0]
           \/ f = Struck(e)
           \/ /\ ~(route_count < 2)
              /\ f = [initialize_revalidation(Struck(e)) EXCEPT
                        !.stable_index = i, !.stable_samples = 1,
                        !.revalidation = "ChallengerA"]
BY DEF process_drift_sample, Struck

LEMMA StruckTyped ==
    ASSUME NEW e \in Entry
    PROVE  Kin(e, Struck(e))
<1>1. Least(e.drift_strikes + 1, required_strikes) \in Nat
    BY Settings DEF Least, Entry
<1> QED BY <1>1 DEF Struck, Kin, Entry

LEMMA DriftTyped ==
    ASSUME NEW e \in Entry, NEW i \in Routes,
           NEW f \in process_drift_sample(e, i)
    PROVE  Kin(e, f)
<1>1. CASE f = [e EXCEPT !.drift_strikes = 0]
    BY <1>1 DEF Kin, Entry
<1>2. CASE f = Struck(e)
    BY <1>2, StruckTyped
<1>3. CASE f = [initialize_revalidation(Struck(e)) EXCEPT
                  !.stable_index = i, !.stable_samples = 1,
                  !.revalidation = "ChallengerA"]
    <2>1. Kin(e, initialize_revalidation(Struck(e)))
        BY StruckTyped, InitializeTyped DEF Kin
    <2> QED BY <1>3, <2>1 DEF Kin, Entry, RevalidationPhases
<1> QED BY <1>1, <1>2, <1>3, DriftOutcomes

\* What select leaves behind and orders, for a call of thread t: a probe takes
\* the slot, which was free, and other calls leave it alone.
Ordered(e, t, s) ==
    /\ s.entry \in Entry /\ s.route \in Routes /\ s.kind \in Kinds
    /\ s.stage \in 0 .. 4 /\ s.stable \in BOOLEAN
    /\ s.kind = "revalidation" => s.stage \in 1 .. 4
    /\ s.kind = "none" => s.entry.probe = e.probe
    /\ s.kind # "none" => s.entry.probe = t /\ e.probe = NoThread

LEMMA BeginTyped ==
    ASSUME NEW e \in Entry, NEW t \in Threads, NEW i \in Routes,
           NEW kind \in Kinds \ {"none"}, NEW stage \in 0 .. 4,
           kind = "revalidation" => stage \in 1 .. 4,
           NEW d, d.probe = NoThread
    PROVE  Ordered(d, t, begin_probe(e, t, i, kind, stage))
<1>1. [e EXCEPT !.probe = t] \in Entry
    BY DEF Entry
<1>2. [e EXCEPT !.probe = t].probe = t
    BY DEF Entry
<1>3. [e EXCEPT !.probe = t].stable \in BOOLEAN
    BY DEF Entry
<1> QED BY <1>1, <1>2, <1>3 DEF Ordered, begin_probe, Selection

\* The entry of SelectStable after the use is counted, and its revalidation.
Based(e) == [e EXCEPT !.baseline = @ \/ e.samples[e.stable_route] > 0]
Counted(e) ==
    [Based(e) EXCEPT !.uses = IF Based(e).interval = 0 THEN @
                              ELSE Least(Based(e).interval, @ + 1)]
Started(e) ==
    [initialize_revalidation(Counted(e)) EXCEPT !.revalidation = "StableA"]
ProbeNext(g, t) ==
    begin_probe(g, t, RevalidationProbe(g)[1], "revalidation",
                RevalidationProbe(g)[2])

LEMMA StableOutcomes ==
    ASSUME NEW e, NEW t, NEW why
    PROVE  \/ /\ Based(e).revalidation # "Idle"
              /\ SelectStable(e, t, why) = ProbeNext(Based(e), t)
           \/ /\ Based(e).revalidation = "Idle"
              /\ SelectStable(e, t, why)
                   = begin_probe(Based(e), t, Based(e).stable_route, "drift", 0)
           \/ /\ Based(e).revalidation = "Idle" /\ route_count > 1
              /\ SelectStable(e, t, why) = ProbeNext(Started(e), t)
           \/ /\ Based(e).revalidation = "Idle"
              /\ SelectStable(e, t, why)
                   = Selection(Counted(e), Based(e).stable_route, "none", 0)
BY Zenon DEF SelectStable, Based, Counted, Started, ProbeNext

LEMMA CountedTyped ==
    ASSUME NEW e \in Entry
    PROVE  Kin(e, Based(e)) /\ Kin(e, Counted(e)) /\ Kin(e, Started(e))
<1>1. Kin(e, Based(e))
    <2>1. (e.samples[e.stable_route] > 0) \in BOOLEAN
        BY DEF Entry
    <2> QED BY <2>1 DEF Kin, Based, Entry
<1>2. Kin(e, Counted(e))
    <2>1. Based(e).uses \in Nat /\ Based(e).interval \in Nat
        BY <1>1 DEF Kin, Entry
    <2>2. Least(Based(e).interval, Based(e).uses + 1) \in Nat
        BY <2>1 DEF Least
    <2> QED BY <1>1, <2>1, <2>2 DEF Kin, Counted, Entry
<1>3. Kin(e, Started(e))
    <2>1. Kin(e, initialize_revalidation(Counted(e)))
        BY <1>2, InitializeTyped DEF Kin
    <2> QED BY <2>1 DEF Kin, Started, Entry, RevalidationPhases
<1> QED BY <1>1, <1>2, <1>3

LEMMA RevalidationProbeTyped ==
    ASSUME NEW e \in Entry, e.revalidation # "Idle"
    PROVE  RevalidationProbe(e)[1] \in Routes
           /\ RevalidationProbe(e)[2] \in 1 .. 4
<1>1. /\ e.stable_index \in Routes /\ e.challenger_index \in Routes
      /\ e.revalidation \in RevalidationPhases
    BY DEF Entry
<1> QED BY <1>1 DEF RevalidationProbe, RevalidationPhases

LEMMA SelectStableTyped ==
    ASSUME NEW e \in Entry, e.probe = NoThread, NEW t \in Threads, NEW why
    PROVE  Ordered(e, t, SelectStable(e, t, why))
<1>1. /\ Based(e) \in Entry /\ Counted(e) \in Entry /\ Started(e) \in Entry
      /\ Counted(e).probe = e.probe
    BY CountedTyped DEF Kin
<1>2. ASSUME NEW g \in Entry, g.revalidation # "Idle"
      PROVE  Ordered(e, t, ProbeNext(g, t))
    BY <1>2, RevalidationProbeTyped, BeginTyped DEF ProbeNext, Kinds
<1>3. Based(e).stable_route \in Routes /\ Counted(e).stable \in BOOLEAN
    BY <1>1 DEF Entry
<1>4. Ordered(e, t, begin_probe(Based(e), t, Based(e).stable_route, "drift", 0))
    BY <1>1, <1>3, BeginTyped DEF Kinds
<1>5. Started(e).revalidation = "StableA"
    <2>1. initialize_revalidation(Counted(e)) \in Entry
        BY <1>1, InitializeTyped DEF Kin
    <2> QED BY <2>1 DEF Started, Entry
<1>6. Ordered(e, t, Selection(Counted(e), Based(e).stable_route, "none", 0))
    BY <1>1, <1>3 DEF Ordered, Selection, Kinds
<1> QED BY <1>1, <1>2, <1>4, <1>5, <1>6, StableOutcomes

LEMMA HoldoutIndexTyped ==
    ASSUME NEW e \in Entry
    PROVE  /\ next_holdout_index(e) \in Routes \cup {NoIndex}
           /\ next_holdout_index(e) # NoIndex
                => /\ e.phase = "Holdout"
                   /\ next_holdout_index(e) \in {e.provisional, e.runner_up}
                   /\ e.holdouts[next_holdout_index(e)] < holdout_samples
<1>1. e.provisional \in Routes /\ e.runner_up \in Routes
    BY DEF Entry
<1>2. /\ e.holdouts[e.provisional] \in Nat
      /\ e.holdouts[e.runner_up] \in Nat
    BY <1>1 DEF Entry
<1> QED BY <1>1, <1>2 DEF next_holdout_index

LEMMA LearningIndexTyped ==
    ASSUME NEW e \in Entry, NEW seed \in Routes
    PROVE  /\ next_learning_index(e, seed) \in Routes \cup {NoIndex}
           /\ next_learning_index(e, seed) # NoIndex
                => /\ e.phase = "Learning"
                   /\ next_learning_index(e, seed) \in e.active
                   /\ e.samples[next_learning_index(e, seed)]
                        < e.learning_target
           /\ next_learning_index(e, seed) = NoIndex /\ e.phase = "Learning"
                => \A i \in e.active : e.learning_target <= e.samples[i]
<1>1. /\ e.samples \in [Routes -> Nat] /\ e.active \in SUBSET Routes
      /\ e.learning_target \in Nat
    BY DEF Entry
<1> QED BY <1>1, BalancedChoice DEF next_learning_index

LEMMA WarmupIndexTyped ==
    ASSUME NEW e \in Entry, NEW seed \in Routes
    PROVE  /\ next_warmup_index(e, seed) \in Routes \cup {NoIndex}
           /\ next_warmup_index(e, seed) # NoIndex
                => e.warmups[next_warmup_index(e, seed)] < warmup_samples
<1>1. e.warmups \in [Routes -> Nat] /\ Routes \in SUBSET Routes
    BY DEF Entry
<1> QED BY <1>1, BalancedChoice DEF next_warmup_index

\* The outcomes of select for a profile whose slot is free and whose routes
\* are warmed up, while it learns.
LearningOutcome(e, t, seed, why, s) ==
    \E f \in Learn(e) :
        \/ f.stable /\ s = SelectStable(f, t, why)
        \/ /\ ~f.stable /\ next_holdout_index(f) # NoIndex
           /\ s = begin_probe(f, t, next_holdout_index(f),
                              IF f.phase = "Holdout" THEN "holdout"
                                                     ELSE "learning", 0)
        \/ /\ ~f.stable /\ next_holdout_index(f) = NoIndex
           /\ next_learning_index(f, seed) # NoIndex
           /\ s = begin_probe(f, t, next_learning_index(f, seed),
                              IF f.phase = "Holdout" THEN "holdout"
                                                     ELSE "learning", 0)
        \/ /\ ~f.stable /\ next_holdout_index(f) = NoIndex
           /\ next_learning_index(f, seed) = NoIndex
           /\ \E g \in choose_stable_from_training(f) :
                s = SelectStable(g, t, why)

LEMMA LearningOutcomes ==
    ASSUME NEW e, NEW t, NEW seed, NEW why,
           NEW s \in SelectLearning(e, t, seed, why)
    PROVE  LearningOutcome(e, t, seed, why, s)
<1> DEFINE index(f) == IF next_holdout_index(f) # NoIndex
                         THEN next_holdout_index(f)
                         ELSE next_learning_index(f, seed)
<1>1. PICK f \in Learn(e) :
        s \in IF f.stable THEN {SelectStable(f, t, why)}
              ELSE IF index(f) # NoIndex
                THEN {begin_probe(f, t, index(f),
                                  IF f.phase = "Holdout" THEN "holdout"
                                                         ELSE "learning", 0)}
              ELSE {SelectStable(g, t, why) :
                      g \in choose_stable_from_training(f)}
    BY Zenon DEF SelectLearning
<1>2. CASE f.stable
    BY <1>1, <1>2 DEF LearningOutcome
<1>3. CASE ~f.stable /\ next_holdout_index(f) # NoIndex
    BY <1>1, <1>3 DEF LearningOutcome
<1>4. CASE /\ ~f.stable /\ next_holdout_index(f) = NoIndex
           /\ next_learning_index(f, seed) # NoIndex
    BY <1>1, <1>4 DEF LearningOutcome
<1>5. CASE /\ ~f.stable /\ next_holdout_index(f) = NoIndex
           /\ next_learning_index(f, seed) = NoIndex
    BY <1>1, <1>5 DEF LearningOutcome
<1> QED BY <1>2, <1>3, <1>4, <1>5

LEMMA SelectLearningTyped ==
    ASSUME NEW e \in Entry, e.probe = NoThread, NEW t \in Threads,
           NEW seed \in Routes, NEW why,
           NEW s \in SelectLearning(e, t, seed, why)
    PROVE  Ordered(e, t, s)
<1>1. PICK f \in Learn(e) :
        \/ s = SelectStable(f, t, why)
        \/ \E i \in Routes : \E kind \in {"holdout", "learning"} :
             s = begin_probe(f, t, i, kind, 0)
        \/ \E g \in choose_stable_from_training(f) : s = SelectStable(g, t, why)
    <2>1. PICK f \in Learn(e) :
        \/ f.stable /\ s = SelectStable(f, t, why)
        \/ /\ next_holdout_index(f) # NoIndex
           /\ s = begin_probe(f, t, next_holdout_index(f),
                              IF f.phase = "Holdout" THEN "holdout"
                                                     ELSE "learning", 0)
        \/ /\ next_learning_index(f, seed) # NoIndex
           /\ s = begin_probe(f, t, next_learning_index(f, seed),
                              IF f.phase = "Holdout" THEN "holdout"
                                                     ELSE "learning", 0)
        \/ \E g \in choose_stable_from_training(f) : s = SelectStable(g, t, why)
        BY LearningOutcomes DEF LearningOutcome
    <2>2. f \in Entry
        BY LearnTyped DEF Kin
    <2>3. /\ next_holdout_index(f) # NoIndex => next_holdout_index(f) \in Routes
          /\ next_learning_index(f, seed) # NoIndex
               => next_learning_index(f, seed) \in Routes
        BY <2>2, HoldoutIndexTyped, LearningIndexTyped
    <2> QED BY <2>1, <2>3
<1>2. f \in Entry /\ f.probe = NoThread
    BY LearnTyped DEF Kin
<1>3. CASE s = SelectStable(f, t, why)
    BY <1>2, <1>3, SelectStableTyped DEF Ordered
<1>4. ASSUME NEW i \in Routes, NEW kind \in {"holdout", "learning"},
             s = begin_probe(f, t, i, kind, 0)
      PROVE  Ordered(e, t, s)
    BY <1>2, <1>4, BeginTyped DEF Kinds
<1>5. ASSUME NEW g \in choose_stable_from_training(f),
             s = SelectStable(g, t, why)
      PROVE  Ordered(e, t, s)
    <2>1. g \in Entry /\ g.probe = NoThread
        BY <1>2, ChooseTyped DEF Kin
    <2> QED BY <1>5, <2>1, SelectStableTyped DEF Ordered
<1> QED BY <1>1, <1>3, <1>4, <1>5

\* select: types, and the slot.
LEMMA SelectTyped ==
    ASSUME NEW e \in Entry, NEW t \in Threads, NEW seed \in Routes, NEW why,
           NEW s \in select(e, t, seed, why)
    PROVE  Ordered(e, t, s)
<1>1. CASE e.probe # NoThread
    <2>1. s = SelectFallback(e)
        BY <1>1 DEF select, Busy
    <2>2. e.stable_route \in Routes /\ e.provisional \in Routes
          /\ e.stable \in BOOLEAN
        BY DEF Entry
    <2> QED BY <2>1, <2>2, Settings DEF SelectFallback, Selection, Ordered, Kinds
<1>2. CASE /\ e.probe = NoThread
           /\ next_warmup_index(e, seed) # NoIndex
    <2>1. s = begin_probe(e, t, next_warmup_index(e, seed), "warmup", 0)
        BY <1>2 DEF select, Busy
    <2>2. next_warmup_index(e, seed) \in Routes
        BY <1>2, WarmupIndexTyped
    <2> QED BY <1>2, <2>1, <2>2, BeginTyped DEF Kinds
<1>3. CASE /\ e.probe = NoThread /\ e.stable
           /\ next_warmup_index(e, seed) = NoIndex
    <2>1. s = SelectStable(e, t, why)
        BY <1>3 DEF select, Busy
    <2> QED BY <1>3, <2>1, SelectStableTyped
<1>4. CASE /\ e.probe = NoThread /\ ~e.stable
           /\ next_warmup_index(e, seed) = NoIndex
    <2>1. s \in SelectLearning(e, t, seed, why)
        BY <1>4 DEF select, Busy
    <2> QED BY <1>4, <2>1, SelectLearningTyped
<1> QED BY <1>1, <1>2, <1>3, <1>4

LEMMA ReleaseTyped ==
    ASSUME NEW e \in Entry, NEW t \in Threads
    PROVE  /\ release_probe(e, t) \in Entry
           /\ release_probe(e, t).probe = IF e.probe = t THEN NoThread
                                          ELSE e.probe
<1>1. [e EXCEPT !.probe = NoThread] \in Entry
      /\ [e EXCEPT !.probe = NoThread].probe = NoThread
    BY DEF Entry
<1> QED BY <1>1 DEF release_probe

\* The entry after the sample of a probe is stored, before it is used.
Stored(e, t, route, kind, stage) ==
    LET f == release_probe(e, t) IN
    CASE kind = "revalidation" ->
           IF stage \in {1, 4}
             THEN [f EXCEPT !.stable_samples = add_sample(@, 2)]
             ELSE [f EXCEPT !.challenger_samples = add_sample(@, 2)]
      [] kind = "drift"    -> f
      [] kind = "warmup"   -> [f EXCEPT !.warmups[route] = @ + 1]
      [] kind = "holdout"  ->
           [f EXCEPT !.holdouts[route] = add_sample(@, sample_window)]
      [] kind = "learning" ->
           [f EXCEPT !.samples[route] = add_sample(@, sample_window)]

LEMMA CompleteOutcomes ==
    ASSUME NEW e, NEW t, NEW route, NEW kind \in Kinds \ {"none"}, NEW stage,
           NEW f \in complete(e, t, route, kind, stage)
    PROVE  LET g == Stored(e, t, route, kind, stage) IN
           \/ kind = "revalidation" /\ f \in advance_revalidation(g, stage)
           \/ kind = "drift" /\ f \in process_drift_sample(g, route)
           \/ kind = "warmup" /\ f = g
           \/ kind = "holdout" /\ f \in finalize_holdout(g)
           \/ kind = "learning" /\ f \in prepare_learning_state(g)
<1>1. CASE kind = "revalidation"
    BY <1>1 DEF complete, Stored
<1>2. CASE kind = "drift"
    BY <1>2 DEF complete, Stored
<1>3. CASE kind = "warmup"
    BY <1>3 DEF complete, Stored
<1>4. CASE kind = "holdout"
    BY <1>4 DEF complete, Stored
<1>5. CASE kind = "learning"
    BY <1>5 DEF complete, Stored
<1> QED BY <1>1, <1>2, <1>3, <1>4, <1>5 DEF Kinds

LEMMA StoredTyped ==
    ASSUME NEW e \in Entry, NEW t \in Threads, NEW route \in Routes,
           NEW kind \in Kinds \ {"none"}, NEW stage
    PROVE  Kin(release_probe(e, t), Stored(e, t, route, kind, stage))
<1> DEFINE f == release_probe(e, t)
<1>1. f \in Entry
    BY ReleaseTyped
<1> HIDE DEF f
<1>2. /\ f.stable_samples \in Nat /\ f.challenger_samples \in Nat
      /\ f.warmups[route] \in Nat /\ f.holdouts[route] \in Nat
      /\ f.samples[route] \in Nat
    BY <1>1 DEF Entry
<1>3. /\ add_sample(f.stable_samples, 2) \in Nat
      /\ add_sample(f.challenger_samples, 2) \in Nat
      /\ add_sample(f.holdouts[route], sample_window) \in Nat
      /\ add_sample(f.samples[route], sample_window) \in Nat
    BY <1>2, Adds DEF add_sample
<1>4. CASE kind = "revalidation" /\ stage \in {1, 4}
    <2>1. Stored(e, t, route, kind, stage)
            = [f EXCEPT !.stable_samples = add_sample(@, 2)]
        BY <1>4 DEF Stored, f
    <2> QED BY <1>1, <1>3, <2>1 DEF Kin, Entry, f
<1>5. CASE kind = "revalidation" /\ stage \notin {1, 4}
    <2>1. Stored(e, t, route, kind, stage)
            = [f EXCEPT !.challenger_samples = add_sample(@, 2)]
        BY <1>5 DEF Stored, f
    <2> QED BY <1>1, <1>3, <2>1 DEF Kin, Entry, f
<1>6. CASE kind = "drift"
    <2>1. Stored(e, t, route, kind, stage) = f
        BY <1>6 DEF Stored, f
    <2> QED BY <1>1, <2>1 DEF Kin, f
<1>7. CASE kind = "warmup"
    <2>1. Stored(e, t, route, kind, stage)
            = [f EXCEPT !.warmups[route] = @ + 1]
        BY <1>7 DEF Stored, f
    <2> QED BY <1>1, <1>2, <2>1 DEF Kin, Entry, f
<1>8. CASE kind = "holdout"
    <2>1. Stored(e, t, route, kind, stage)
            = [f EXCEPT !.holdouts[route] = add_sample(@, sample_window)]
        BY <1>8 DEF Stored, f
    <2> QED BY <1>1, <1>3, <2>1 DEF Kin, Entry, f
<1>9. CASE kind = "learning"
    <2>1. Stored(e, t, route, kind, stage)
            = [f EXCEPT !.samples[route] = add_sample(@, sample_window)]
        BY <1>9 DEF Stored, f
    <2> QED BY <1>1, <1>3, <2>1 DEF Kin, Entry, f
<1> QED BY <1>4, <1>5, <1>6, <1>7, <1>8, <1>9 DEF Kinds

\* complete: types, and the slot is only freed by the call that holds it.
LEMMA CompleteTyped ==
    ASSUME NEW e \in Entry, NEW t \in Threads, NEW route \in Routes,
           NEW kind \in Kinds \ {"none"}, NEW stage,
           kind = "revalidation" => stage \in 1 .. 4,
           NEW f \in complete(e, t, route, kind, stage)
    PROVE  f \in Entry /\ f.probe = IF e.probe = t THEN NoThread ELSE e.probe
<1> DEFINE g == Stored(e, t, route, kind, stage)
<1>1. g \in Entry /\ g.probe = IF e.probe = t THEN NoThread ELSE e.probe
    BY StoredTyped, ReleaseTyped DEF Kin
<1>2. \/ kind = "revalidation" /\ f \in advance_revalidation(g, stage)
      \/ f \in process_drift_sample(g, route)
      \/ f = g
      \/ f \in finalize_holdout(g)
      \/ f \in prepare_learning_state(g)
    BY CompleteOutcomes
<1> HIDE DEF g
<1>3. Kin(g, f)
    BY <1>1, <1>2, AdvanceTyped, DriftTyped, FinalizeTyped, PrepareTyped DEF Kin
<1> QED BY <1>1, <1>3 DEF Kin

-----------------------------------------------------------------------------
(* The probe slot.                                                         *)

USE DEF vars

\* The types that the proofs need: those of TypeOK, without the order of the
\* keys, and the stage of a revalidation.
Selections ==
    {s \in [route : Routes, kind : Kinds, stage : 0 .. 4, stable : BOOLEAN] :
        s.kind = "revalidation" => s.stage \in 1 .. 4}

Typed ==
    /\ entries \in [Keys -> Entry \cup {NoEntry}]
    /\ pc \in [Threads -> Places]
    /\ key \in [Threads -> Keys]
    /\ selection \in [Threads -> Selections]
    /\ route_cache_epoch \in 0 .. MaxClears

\* The threads that are about to advance the epoch.
Clearing == {u \in Threads : pc[u] = "clear_epoch"}

\* The bound of clears covers those under way.
ClearsBounded == route_cache_epoch + Cardinality(Clearing) <= MaxClears

SlotInv == Typed /\ ClearsBounded /\ ProbeSlotOwned

LEMMA KeysTyped ==
    /\ SomeKey \in Keys
    /\ \A k \in Keys : k[1] \in Images /\ k[2] \in 0 .. MaxClears
<1>1. PICK i : i \in Images
    OBVIOUS
<1>2. <<i, 0>> \in Keys
    BY <1>1 DEF Keys
<1>3. SomeKey \in Keys
    BY <1>2 DEF SomeKey
<1>4. \A k \in Keys : k[1] \in Images /\ k[2] \in 0 .. MaxClears
    BY DEF Keys
<1> QED BY <1>3, <1>4

LEMMA NoEntryApart == NoEntry \notin Entry
<1>1. ASSUME NoEntry \in Entry PROVE FALSE
    <2>1. NoEntry.phase \in Phases
        BY <1>1 DEF Entry
    <2> QED BY <2>1 DEF NoEntry, Phases
<1> QED BY <1>1

LEMMA SlotInit == Init => SlotInv
<1> SUFFICES ASSUME Init PROVE SlotInv
    OBVIOUS
<1>1. Typed
    <2>1. NoSelection \in Selections
        BY Settings DEF NoSelection, Selections, Kinds
    <2>2. \A t \in Threads : pc[t] = "idle"
        BY DEF Init
    <2>3. entries \in [Keys -> Entry \cup {NoEntry}]
        BY DEF Init
    <2> QED BY <2>1, <2>3, KeysTyped DEF Init, Typed, Places
<1>2. Clearing = {}
    BY DEF Init, Clearing
<1>3. ClearsBounded
    <2>1. Cardinality(Clearing) = 0
        BY <1>2, FS_EmptySet
    <2> QED BY <2>1 DEF ClearsBounded, Init
<1>4. ProbeSlotOwned
    BY DEF Init, ProbeSlotOwned, Present
<1> QED BY <1>1, <1>3, <1>4 DEF SlotInv

\* A step of thread t changes the locals of t only.
Moves(t) ==
    \A u \in Threads \ {t} :
        pc'[u] = pc[u] /\ key'[u] = key[u] /\ selection'[u] = selection[u]

\* Steps that touch neither the entries nor a probe.
LEMMA SlotKept ==
    ASSUME SlotInv, NEW t \in Threads, Moves(t), UNCHANGED entries,
           pc[t] \in {"run", "complete"} /\ selection[t].kind # "none"
             /\ Present(key[t])
               => /\ pc'[t] \in {"run", "complete"}
                  /\ key'[t] = key[t] /\ selection'[t] = selection[t]
    PROVE  ProbeSlotOwned'
<1> SUFFICES ASSUME NEW k \in Keys, entries[k] # NoEntry,
                    entries[k].probe # NoThread
             PROVE  Probing(entries[k].probe, k)'
    BY DEF ProbeSlotOwned, Present
<1> DEFINE u == entries[k].probe
<1>1. Probing(u, k)
    BY DEF SlotInv, ProbeSlotOwned, Present
<1>2. u \in Threads
    BY DEF SlotInv, Typed, Entry
<1>3. CASE u # t
    BY <1>1, <1>2, <1>3 DEF Probing, Moves
<1>4. CASE u = t
    BY <1>1, <1>4 DEF Probing, Present
<1> QED BY <1>3, <1>4

\* A step of select: the entry of the key is replaced, a victim dropped.
LEMMA SelectSlot ==
    ASSUME SlotInv, NEW t \in Threads, Select(t)
    PROVE  /\ entries' \in [Keys -> Entry \cup {NoEntry}]
           /\ selection'[t] \in Selections
           /\ ProbeSlotOwned'
<1> DEFINE k == key[t]
           e == IF Present(k) THEN entries[k] ELSE reset_entry
<1>1. k \in Keys /\ rotation_seed[k[1]] \in Routes
    BY KeysTyped DEF SlotInv, Typed
<1>2. e \in Entry /\ (Present(k) => e.probe = entries[k].probe)
      /\ (~Present(k) => e.probe = NoThread)
    BY <1>1, ResetTyped DEF SlotInv, Typed, Present
<1> HIDE DEF e
<1>3. PICK s \in select(e, t, rotation_seed[k[1]], force[t]) :
         /\ entries' = [j \in Keys |-> IF j = k THEN s.entry
                                       ELSE IF j \in Victims(k) THEN NoEntry
                                       ELSE entries[j]]
         /\ selection' = [selection EXCEPT ![t] =
                            [route |-> s.route, kind |-> s.kind,
                             stage |-> s.stage, stable |-> s.stable]]
         /\ Goto(t, IF s.stable /\ s.kind = "none" THEN "publish" ELSE "run")
    BY DEF Select, e
<1>4. Ordered(e, t, s)
    BY <1>1, <1>2, <1>3, SelectTyped
<1>5. entries' \in [Keys -> Entry \cup {NoEntry}]
    BY <1>1, <1>3, <1>4 DEF SlotInv, Typed, Ordered
<1>6. selection'[t] = [route |-> s.route, kind |-> s.kind,
                       stage |-> s.stage, stable |-> s.stable]
    BY <1>3 DEF SlotInv, Typed
<1>7. selection'[t] \in Selections
    BY <1>4, <1>6 DEF Selections, Ordered
<1>8. ASSUME NEW j \in Keys, entries'[j] # NoEntry, entries'[j].probe # NoThread
      PROVE  Probing(entries[j].probe, j)'
    <2>1. pc[t] = "select" /\ key' = key
        BY DEF Select
    <2>2. \A u \in Threads \ {t} :
             pc'[u] = pc[u] /\ selection'[u] = selection[u]
        BY <1>3 DEF SlotInv, Typed, Goto
    <2>3. ASSUME NEW u \in Threads, Present(j), entries[j].probe = u
          PROVE  Probing(u, j)'
        <3>1. Probing(u, j) /\ u # t
            BY <2>1, <2>3 DEF SlotInv, ProbeSlotOwned, Probing
        <3> QED BY <2>1, <2>2, <3>1 DEF Probing
    <2>4. CASE j # k
        <3>1. entries'[j] = entries[j]
            BY <1>3, <1>8, <2>4
        <3>2. entries[j].probe \in Threads
            BY <1>8, <3>1 DEF SlotInv, Typed, Entry
        <3> QED BY <1>8, <2>3, <3>1, <3>2 DEF Present, Probing
    <2>5. CASE j = k /\ s.kind = "none"
        <3>1. entries'[j].probe = e.probe
            BY <1>1, <1>3, <1>4, <2>5 DEF Ordered
        <3>2. Present(j) /\ entries[j].probe = e.probe
            BY <1>2, <1>8, <2>5, <3>1
        <3>3. e.probe \in Threads
            BY <1>2, <1>8, <3>1 DEF Entry
        <3> QED BY <2>3, <3>1, <3>2, <3>3 DEF Probing
    <2>6. CASE j = k /\ s.kind # "none"
        <3>1. entries'[j].probe = t
            BY <1>1, <1>3, <1>4, <2>6 DEF Ordered
        <3>2. pc'[t] = "run" /\ selection'[t].kind # "none" /\ key'[t] = j
            BY <1>3, <1>6, <2>1, <2>6 DEF Goto, SlotInv, Typed
        <3> QED BY <3>1, <3>2 DEF Probing
    <2> QED BY <2>4, <2>5, <2>6
<1>9. ProbeSlotOwned'
    BY <1>8 DEF ProbeSlotOwned, Present
<1> QED BY <1>5, <1>7, <1>9

\* A step of complete or cancel: the entry of the key loses the slot if this
\* call holds it, and the call stops probing.
LEMMA ReleaseSlot ==
    ASSUME SlotInv, NEW t \in Threads, Moves(t), NEW f \in Entry,
           Present(key[t]), pc[t] \in {"run", "complete"},
           entries' = [entries EXCEPT ![key[t]] = f],
           f.probe = IF entries[key[t]].probe = t THEN NoThread
                     ELSE entries[key[t]].probe
    PROVE  /\ entries' \in [Keys -> Entry \cup {NoEntry}]
           /\ ProbeSlotOwned'
<1>1. key[t] \in Keys /\ entries \in [Keys -> Entry \cup {NoEntry}]
    BY DEF SlotInv, Typed
<1>2. entries' \in [Keys -> Entry \cup {NoEntry}]
    BY <1>1
<1>3. ASSUME NEW j \in Keys, entries'[j] # NoEntry, entries'[j].probe # NoThread
      PROVE  Probing(entries[j].probe, j)'
    <2>1. /\ entries'[j].probe = entries[j].probe /\ Present(j)
          /\ entries[j].probe = t => j # key[t]
        BY <1>1, <1>3 DEF Present
    <2>2. entries[j].probe \in Threads
        BY <1>1, <1>3, <2>1 DEF Present, Entry
    <2>3. Probing(entries[j].probe, j)
        BY <1>3, <2>1 DEF SlotInv, ProbeSlotOwned
    <2>4. entries[j].probe # t
        BY <2>1, <2>3 DEF Probing
    <2> QED BY <2>1, <2>2, <2>3, <2>4 DEF Probing, Moves
<1> QED BY <1>2, <1>3 DEF ProbeSlotOwned, Present

LEMMA FinishMoves ==
    ASSUME SlotInv, NEW t \in Threads, Finish(t), pc[t] # "clear_epoch",
           UNCHANGED route_cache_epoch
    PROVE  /\ Moves(t) /\ Clearing' = Clearing
           /\ pc' \in [Threads -> Places] /\ key' \in [Threads -> Keys]
           /\ selection' \in [Threads -> Selections]
           /\ pc'[t] = "idle"
<1>1. NoSelection \in Selections
    BY Settings DEF NoSelection, Selections, Kinds
<1>2. /\ pc' = [pc EXCEPT ![t] = "idle"] /\ key' = [key EXCEPT ![t] = SomeKey]
      /\ selection' = [selection EXCEPT ![t] = NoSelection]
    BY DEF Finish, Goto
<1>3. /\ pc \in [Threads -> Places] /\ key \in [Threads -> Keys]
      /\ selection \in [Threads -> Selections]
    BY DEF SlotInv, Typed
<1>4. /\ pc' \in [Threads -> Places] /\ key' \in [Threads -> Keys]
      /\ selection' \in [Threads -> Selections] /\ Moves(t) /\ pc'[t] = "idle"
    BY <1>1, <1>2, <1>3, KeysTyped DEF Places, Moves
<1>5. Clearing' = Clearing
    BY <1>2, <1>3 DEF Clearing
<1> QED BY <1>4, <1>5

LEMMA GotoMoves ==
    ASSUME SlotInv, NEW t \in Threads, NEW p \in Places, Goto(t, p)
    PROVE  /\ pc' \in [Threads -> Places] /\ pc'[t] = p
           /\ \A u \in Threads \ {t} : pc'[u] = pc[u]
           /\ p # "clear_epoch" /\ pc[t] # "clear_epoch"
                => Clearing' = Clearing
BY DEF SlotInv, Typed, Goto, Clearing

LEMMA ClearingCount ==
    /\ IsFiniteSet(Clearing) /\ Cardinality(Clearing) \in Nat
    /\ IsFiniteSet(Clearing') /\ Cardinality(Clearing') \in Nat
<1>1. Clearing \subseteq Threads /\ Clearing' \subseteq Threads
    BY DEF Clearing
<1>2. IsFiniteSet(Clearing) /\ IsFiniteSet(Clearing')
    BY <1>1, FS_Subset
<1> QED BY <1>2, FS_CardinalityType

\* A step that keeps the types, the clears under way and the slots.
LEMMA Together ==
    ASSUME SlotInv, UNCHANGED route_cache_epoch, Clearing' = Clearing,
           entries' \in [Keys -> Entry \cup {NoEntry}],
           pc' \in [Threads -> Places], key' \in [Threads -> Keys],
           selection' \in [Threads -> Selections], ProbeSlotOwned'
    PROVE  SlotInv'
BY DEF SlotInv, Typed, ClearsBounded

\* A step of t that ends its call, of which no probe is left.
LEMMA FinishSlot ==
    ASSUME SlotInv, NEW t \in Threads, Finish(t),
           pc[t] \in Places \ {"clear_epoch", "run", "complete"},
           UNCHANGED <<entries, route_cache_epoch>>
    PROVE  SlotInv'
<1>1. /\ Moves(t) /\ Clearing' = Clearing
      /\ pc' \in [Threads -> Places] /\ key' \in [Threads -> Keys]
      /\ selection' \in [Threads -> Selections]
    BY FinishMoves
<1>2. ProbeSlotOwned'
    BY <1>1, SlotKept
<1>3. entries' \in [Keys -> Entry \cup {NoEntry}]
    BY DEF SlotInv, Typed
<1> QED BY <1>1, <1>2, <1>3, Together

\* A step of t to another place of its call.
LEMMA GotoSlot ==
    ASSUME SlotInv, NEW t \in Threads, NEW p \in Places, Goto(t, p),
           pc[t] # "clear_epoch", p # "clear_epoch",
           pc[t] \in {"run", "complete"} /\ selection[t].kind # "none"
             /\ Present(key[t]) => p \in {"run", "complete"},
           UNCHANGED <<entries, route_cache_epoch, key, selection>>
    PROVE  SlotInv'
<1>1. /\ pc' \in [Threads -> Places] /\ pc'[t] = p /\ Clearing' = Clearing
      /\ \A u \in Threads \ {t} : pc'[u] = pc[u]
    BY GotoMoves
<1>2. Moves(t)
    BY <1>1 DEF Moves
<1>3. ProbeSlotOwned'
    BY <1>1, <1>2, SlotKept
<1>4. /\ entries' \in [Keys -> Entry \cup {NoEntry}]
      /\ key' \in [Threads -> Keys] /\ selection' \in [Threads -> Selections]
    BY DEF SlotInv, Typed
<1> QED BY <1>1, <1>3, <1>4, Together

\* Every step of a call keeps the invariant.
LEMMA CallSlot ==
    ASSUME SlotInv, NEW t \in Threads, CallStep(t)
    PROVE  SlotInv'
<1>1. CASE RunHot(t)
    BY <1>1, FinishSlot DEF RunHot, Places
<1>2. CASE LeaveHot(t)
    BY <1>2, GotoSlot DEF LeaveHot, Places
<1>3. CASE MissHot(t)
    BY <1>3, GotoSlot DEF MissHot, Places
<1>4. CASE Select(t)
    <2>1. PICK p \in Places : Goto(t, p) /\ p # "clear_epoch"
        BY <1>4 DEF Select, Places
    <2>2. /\ UNCHANGED <<route_cache_epoch, key>> /\ pc[t] = "select"
          /\ \A u \in Threads \ {t} : selection'[u] = selection[u]
        BY <1>4 DEF Select, SlotInv, Typed
    <2>3. pc' \in [Threads -> Places] /\ Clearing' = Clearing
        BY <2>1, <2>2, GotoMoves
    <2>4. /\ entries' \in [Keys -> Entry \cup {NoEntry}]
          /\ selection'[t] \in Selections /\ ProbeSlotOwned'
        BY <1>4, SelectSlot
    <2>5. \E x : selection' = [selection EXCEPT ![t] = x]
        BY <1>4 DEF Select
    <2>6. key' \in [Threads -> Keys] /\ selection' \in [Threads -> Selections]
        BY <2>2, <2>4, <2>5 DEF SlotInv, Typed
    <2> QED BY <2>2, <2>3, <2>4, <2>6, Together
<1>5. CASE Publish(t)
    BY <1>5, GotoSlot DEF Publish, Places
<1>6. CASE StoreSelected(t)
    BY <1>6, GotoSlot DEF StoreSelected, Places
<1>7. CASE RunReturns(t)
    BY <1>7, GotoSlot DEF RunReturns, Places
<1>8. CASE RunThrows(t)
    <2>1. /\ Moves(t) /\ Clearing' = Clearing /\ pc[t] = "run"
          /\ pc' \in [Threads -> Places] /\ key' \in [Threads -> Keys]
          /\ selection' \in [Threads -> Selections]
          /\ UNCHANGED route_cache_epoch
        BY <1>8, FinishMoves DEF RunThrows
    <2>2. CASE selection[t].kind # "none" /\ Present(key[t])
        <3> DEFINE f == release_probe(entries[key[t]], t)
        <3>1. entries[key[t]] \in Entry
            BY <2>2 DEF SlotInv, Typed, Present
        <3>2. f \in Entry /\ f.probe = IF entries[key[t]].probe = t
                                         THEN NoThread
                                         ELSE entries[key[t]].probe
            BY <3>1, ReleaseTyped
        <3>3. entries' = [entries EXCEPT ![key[t]] = f]
            BY <1>8, <2>2 DEF RunThrows
        <3> HIDE DEF f
        <3>4. /\ entries' \in [Keys -> Entry \cup {NoEntry}]
              /\ ProbeSlotOwned'
            BY <2>1, <2>2, <3>2, <3>3, ReleaseSlot
        <3> QED BY <2>1, <3>4, Together
    <2>3. CASE ~(selection[t].kind # "none" /\ Present(key[t]))
        <3>1. UNCHANGED entries
            BY <1>8, <2>3 DEF RunThrows
        <3>2. ProbeSlotOwned'
            BY <2>1, <2>3, <3>1, SlotKept
        <3>3. entries' \in [Keys -> Entry \cup {NoEntry}]
            BY <3>1 DEF SlotInv, Typed
        <3> QED BY <2>1, <3>2, <3>3, Together
    <2> QED BY <2>2, <2>3
<1>9. CASE CompleteProbe(t)
    <2>1. /\ pc[t] = "complete" /\ Goto(t, "after") /\ Present(key[t])
          /\ selection[t].kind # "none"
          /\ UNCHANGED <<route_cache_epoch, key, selection>>
        BY <1>9 DEF CompleteProbe
    <2>2. /\ pc' \in [Threads -> Places] /\ Clearing' = Clearing
          /\ \A u \in Threads \ {t} : pc'[u] = pc[u]
        BY <2>1, GotoMoves DEF Places
    <2>3. Moves(t)
        BY <2>1, <2>2 DEF Moves
    <2>4. PICK f \in complete(entries[key[t]], t, selection[t].route,
                              selection[t].kind, selection[t].stage) :
              entries' = [entries EXCEPT ![key[t]] = f]
        BY <1>9 DEF CompleteProbe
    <2>5. entries[key[t]] \in Entry
        BY <2>1 DEF SlotInv, Typed, Present
    <2>6. /\ selection[t].route \in Routes
          /\ selection[t].kind \in Kinds \ {"none"}
          /\ selection[t].kind = "revalidation" => selection[t].stage \in 1 .. 4
        BY <2>1 DEF SlotInv, Typed, Selections
    <2>7. /\ f \in Entry
          /\ f.probe = IF entries[key[t]].probe = t THEN NoThread
                       ELSE entries[key[t]].probe
        BY <2>4, <2>5, <2>6, CompleteTyped
    <2>8. entries' \in [Keys -> Entry \cup {NoEntry}] /\ ProbeSlotOwned'
        BY <2>1, <2>3, <2>4, <2>7, ReleaseSlot
    <2>9. key' \in [Threads -> Keys] /\ selection' \in [Threads -> Selections]
        BY <2>1 DEF SlotInv, Typed
    <2> QED BY <2>1, <2>2, <2>8, <2>9, Together
<1>10. CASE CompleteNothing(t)
    BY <1>10, GotoSlot DEF CompleteNothing, Places
<1>11. CASE SnapshotNothing(t)
    BY <1>11, FinishSlot DEF SnapshotNothing, Places
<1>12. CASE SnapshotAfter(t)
    BY <1>12, GotoSlot DEF SnapshotAfter, Places
<1>13. CASE InvalidateHotRoutes(t)
    <2>1. pc[t] = "invalidate" /\ UNCHANGED <<entries, route_cache_epoch>>
        BY <1>13 DEF InvalidateHotRoutes
    <2>2. CASE Finish(t)
        BY <2>1, <2>2, FinishSlot DEF Places
    <2>3. CASE Goto(t, "store_result") /\ UNCHANGED <<key, selection>>
        BY <2>1, <2>3, GotoSlot DEF Places
    <2> QED BY <1>13, <2>2, <2>3 DEF InvalidateHotRoutes
<1>14. CASE StoreResult(t)
    BY <1>14, FinishSlot DEF StoreResult, Places
<1> QED BY <1>1, <1>2, <1>3, <1>4, <1>5, <1>6, <1>7, <1>8, <1>9, <1>10,
           <1>11, <1>12, <1>13, <1>14 DEF CallStep

LEMMA BeginSlot ==
    ASSUME SlotInv, NEW t \in Threads, NEW i \in Images, Begin(t, i)
    PROVE  SlotInv'
<1>1. /\ pc[t] = "idle" /\ Goto(t, "lookup")
      /\ key' = [key EXCEPT ![t] = <<i, route_cache_epoch>>]
      /\ UNCHANGED <<entries, route_cache_epoch, selection>>
    BY DEF Begin
<1>2. /\ pc' \in [Threads -> Places] /\ Clearing' = Clearing
      /\ \A u \in Threads \ {t} : pc'[u] = pc[u]
    BY <1>1, GotoMoves DEF Places
<1>3. <<i, route_cache_epoch>> \in Keys
    BY DEF Keys, SlotInv, Typed
<1>4. key' \in [Threads -> Keys] /\ \A u \in Threads \ {t} : key'[u] = key[u]
    BY <1>1, <1>3 DEF SlotInv, Typed
<1>5. Moves(t)
    BY <1>1, <1>2, <1>4 DEF Moves
<1>6. ProbeSlotOwned'
    BY <1>1, <1>5, SlotKept
<1>7. /\ entries' \in [Keys -> Entry \cup {NoEntry}]
      /\ selection' \in [Threads -> Selections]
    BY <1>1 DEF SlotInv, Typed
<1> QED BY <1>1, <1>2, <1>4, <1>6, <1>7, Together

LEMMA ClearSlot ==
    ASSUME SlotInv, NEW t \in Threads, ClearStep(t)
    PROVE  SlotInv'
<1>1. CASE ClearSelector(t)
    <2>1. /\ pc[t] = "idle" /\ Goto(t, "clear_epoch")
          /\ route_cache_epoch + Cardinality(Clearing) < MaxClears
          /\ entries' = [k \in Keys |-> NoEntry]
          /\ UNCHANGED <<route_cache_epoch, key, selection>>
        BY <1>1 DEF ClearSelector, Clearing
    <2>2. pc' \in [Threads -> Places]
        BY <2>1, GotoMoves DEF Places
    <2>3. Clearing' = Clearing \cup {t} /\ t \notin Clearing
        BY <2>1 DEF Clearing, Goto, SlotInv, Typed
    <2>4. Cardinality(Clearing') = Cardinality(Clearing) + 1
        BY <2>3, ClearingCount, FS_AddElement
    <2>5. ClearsBounded'
        BY <2>1, <2>4, ClearingCount DEF ClearsBounded, SlotInv, Typed
    <2>6. ProbeSlotOwned'
        BY <2>1 DEF ProbeSlotOwned, Present
    <2>7. Typed'
        BY <2>1, <2>2 DEF SlotInv, Typed
    <2> QED BY <2>5, <2>6, <2>7 DEF SlotInv
<1>2. CASE ClearEpoch(t)
    <2>1. /\ pc[t] = "clear_epoch" /\ Goto(t, "clear_hot")
          /\ route_cache_epoch' = route_cache_epoch + 1
          /\ UNCHANGED <<entries, key, selection>>
        BY <1>2 DEF ClearEpoch
    <2>2. /\ pc' \in [Threads -> Places]
          /\ \A u \in Threads \ {t} : pc'[u] = pc[u]
        BY <2>1, GotoMoves DEF Places
    <2>3. Clearing' = Clearing \ {t} /\ t \in Clearing
        BY <2>1 DEF Clearing, Goto, SlotInv, Typed
    <2>4. Cardinality(Clearing') = Cardinality(Clearing) - 1
        BY <2>3, ClearingCount, FS_RemoveElement
    <2>5. ClearsBounded' /\ route_cache_epoch' \in 0 .. MaxClears
        BY <2>1, <2>4, ClearingCount DEF ClearsBounded, SlotInv, Typed
    <2>6. Moves(t)
        BY <2>1, <2>2 DEF Moves
    <2>7. ProbeSlotOwned'
        BY <2>1, <2>6, SlotKept
    <2>8. Typed'
        BY <2>1, <2>2, <2>5 DEF SlotInv, Typed
    <2> QED BY <2>5, <2>7, <2>8 DEF SlotInv
<1>3. CASE ClearHot(t)
    BY <1>3, GotoSlot DEF ClearHot, Places
<1> QED BY <1>1, <1>2, <1>3 DEF ClearStep

LEMMA SlotStep == SlotInv /\ [Next]_vars => SlotInv'
<1> SUFFICES ASSUME SlotInv, [Next]_vars PROVE SlotInv'
    OBVIOUS
<1>1. CASE Next
    BY <1>1, BeginSlot, CallSlot, ClearSlot DEF Next
<1>2. CASE UNCHANGED vars
    BY <1>2 DEF SlotInv, Typed, ClearsBounded, Clearing, ProbeSlotOwned,
                Present, Probing
<1> QED BY <1>1, <1>2

LEMMA SlotAlways == Spec => []SlotInv
<1>1. Init => SlotInv
    BY SlotInit
<1>2. SlotInv /\ [Next]_vars => SlotInv'
    BY SlotStep
<1> QED BY <1>1, <1>2, PTL DEF Spec

(***************************************************************************)
(* The probe slot of a profile is taken only while the call that took it   *)
(* runs and will free it, whatever profiles are evicted or cleared         *)
(* meanwhile (select, complete and cancel of AdaptiveRouteSelector).       *)
(***************************************************************************)
THEOREM ProbeSlotProved == Spec => []ProbeSlotOwned
<1>1. SlotInv => ProbeSlotOwned
    BY DEF SlotInv
<1> QED BY <1>1, SlotAlways, PTL

\* A slot changes hands only in a step of its owner.
Flight ==
    \A k \in Keys : \A t \in Threads :
        /\ Present(k) /\ entries[k].probe = t
        /\ entries'[k] # NoEntry /\ entries'[k].probe # t
        => pc'[t] # pc[t]

LEMMA FlightStep == SlotInv /\ [Next]_vars => Flight
<1> SUFFICES ASSUME SlotInv, [Next]_vars, NEW k \in Keys, NEW t \in Threads,
                    Present(k), entries[k].probe = t,
                    entries'[k] # NoEntry, entries'[k].probe # t
             PROVE  pc'[t] # pc[t]
    BY DEF Flight
<1>1. Probing(t, k) /\ entries[k] \in Entry
    BY DEF SlotInv, Typed, ProbeSlotOwned, Present
<1>2. PICK u \in Threads : (\E i \in Images : Begin(u, i)) \/ CallStep(u)
                             \/ ClearStep(u)
    <2>1. ~(UNCHANGED vars)
        OBVIOUS
    <2> QED BY <2>1 DEF Next
<1>3. CASE Select(u)
    <2> DEFINE e == IF Present(key[u]) THEN entries[key[u]] ELSE reset_entry
    <2>1. PICK s \in select(e, u, rotation_seed[key[u][1]], force[u]) :
            entries' = [j \in Keys |-> IF j = key[u] THEN s.entry
                                       ELSE IF j \in Victims(key[u]) THEN NoEntry
                                       ELSE entries[j]]
        BY <1>3 DEF Select
    <2>2. k = key[u]
        BY <2>1
    <2>3. e = entries[k] /\ e \in Entry /\ e.probe = t
        BY <1>1, <2>2
    <2>4. rotation_seed[key[u][1]] \in Routes
        BY KeysTyped DEF SlotInv, Typed
    <2> HIDE DEF e
    <2>5. Ordered(e, u, s)
        BY <2>1, <2>3, <2>4, SelectTyped
    <2>6. s.entry.probe = t
        BY <2>3, <2>5 DEF Ordered
    <2> QED BY <2>1, <2>2, <2>6
<1>4. CASE RunThrows(u)
    <2>1. k = key[u] /\ entries'[k] = release_probe(entries[k], u)
        BY <1>4 DEF RunThrows, SlotInv, Typed
    <2>2. u = t
        BY <1>1, <2>1, ReleaseTyped
    <2>3. pc[u] = "run" /\ pc'[u] = "idle"
        BY <1>4, FinishMoves DEF RunThrows
    <2> QED BY <2>2, <2>3
<1>5. CASE CompleteProbe(u)
    <2>1. PICK f \in complete(entries[key[u]], u, selection[u].route,
                              selection[u].kind, selection[u].stage) :
              entries' = [entries EXCEPT ![key[u]] = f]
        BY <1>5 DEF CompleteProbe
    <2>2. k = key[u] /\ entries'[k] = f
        BY <2>1 DEF SlotInv, Typed
    <2>3. /\ selection[u].route \in Routes
          /\ selection[u].kind \in Kinds \ {"none"}
          /\ selection[u].kind = "revalidation" => selection[u].stage \in 1 .. 4
        BY <1>5 DEF SlotInv, Typed, Selections, CompleteProbe
    <2>4. u = t
        BY <1>1, <2>1, <2>2, <2>3, CompleteTyped
    <2>5. pc[u] = "complete" /\ pc'[u] = "after"
        BY <1>5, GotoMoves DEF CompleteProbe, Places
    <2> QED BY <2>4, <2>5
<1>6. CASE ClearSelector(u)
    BY <1>6 DEF ClearSelector
<1>7. CASE ~(Select(u) \/ RunThrows(u) \/ CompleteProbe(u) \/ ClearSelector(u))
    <2>1. UNCHANGED entries
        BY <1>2, <1>7 DEF Begin, CallStep, RunHot, LeaveHot, MissHot, Publish,
           StoreSelected, RunReturns, CompleteNothing, SnapshotNothing,
           SnapshotAfter, InvalidateHotRoutes, StoreResult, ClearStep,
           ClearEpoch, ClearHot
    <2> QED BY <2>1
<1> QED BY <1>3, <1>4, <1>5, <1>6, <1>7

(***************************************************************************)
(* Single-flight exploration: a call gives up the slot of a profile only   *)
(* by a step of its own; neither a second probe nor a call that outlived   *)
(* its profile takes it away (release_probe compares the nonce).           *)
(***************************************************************************)
THEOREM SingleFlightProved == Spec => SingleFlight
<1>1. SlotInv /\ [Next]_vars => [Flight]_vars
    BY FlightStep
<1>2. Spec => [][Flight]_vars
    BY <1>1, SlotAlways, PTL DEF Spec
<1> QED BY <1>2 DEF SingleFlight, Flight

-----------------------------------------------------------------------------
(* What a profile has learned, as long as it is not dropped.               *)

\* Every route has the training samples of a round.
Sampled(e) == \A i \in Routes : normalized_minimum <= e.samples[i]

\* Some route of the round still needs samples.
Unfinished(e) == \E i \in e.active : e.samples[i] < e.learning_target

\* The round ends when its last route reaches the target: after the first
\* rounds all routes are level; after a failed holdout only two are left.
Lagging(e) ==
    \/ \A i \in e.active : e.samples[i] <= e.learning_target
    \/ \E a, b \in e.active : /\ e.active = {a, b}
                              /\ e.samples[a] <= e.learning_target

\* Both sides of the holdout are complete.
HeldOut(e) ==
    /\ e.provisional # e.runner_up
    /\ \A i \in {e.provisional, e.runner_up} : holdout_samples <= e.holdouts[i]

\* A revalidation has the samples of the stages before.
InOrder(e) ==
    /\ e.stable_index = e.stable_route
    /\ e.challenger_index # e.stable_route
    /\ <<e.stable_samples, e.challenger_samples>> = Evidence(e.revalidation)

\* The round has routes, and a target among the settings.
Ground(e) ==
    /\ e \in Entry /\ e.active # {}
    /\ normalized_minimum <= e.learning_target
    /\ e.learning_target <= normalized_window

Sound(e) ==
    /\ Ground(e)
    /\ \A i \in Routes \ e.active : normalized_minimum <= e.samples[i]
    /\ e.stable <=> e.phase = "Stable"
    /\ e.phase = "Learning" => Lagging(e) /\ e.holdouts = Nothing
    /\ e.phase # "Learning" => Sampled(e)
    /\ e.phase = "Holdout" => /\ e.provisional # e.runner_up
                              /\ holdout_samples > 0
    /\ e.stable /\ route_count > 1 /\ holdout_samples > 0 => HeldOut(e)
    /\ ~e.stable => e.revalidation = "Idle" /\ WithinLimits(e)
    /\ e.stable /\ e.revalidation # "Idle" => InOrder(e)

\* The state in which select left the profile for the probe s.
Matches(e, s) ==
    \/ s.kind = "warmup" /\ e.warmups[s.route] < warmup_samples
    \/ /\ s.kind = "learning" /\ e.phase = "Learning" /\ s.route \in e.active
       /\ e.samples[s.route] < e.learning_target
    \/ /\ s.kind = "holdout" /\ e.phase = "Holdout"
       /\ s.route \in {e.provisional, e.runner_up}
       /\ e.holdouts[s.route] < holdout_samples
    \/ /\ s.kind = "revalidation" /\ e.stable /\ e.revalidation # "Idle"
       /\ s.route = RevalidationProbe(e)[1] /\ s.stage = RevalidationProbe(e)[2]
    \/ /\ s.kind = "drift" /\ e.stable /\ e.revalidation = "Idle"
       /\ s.route = e.stable_route

\* A call that probes has its profile, and the profile is as it left it.
Attached ==
    \A t \in Threads :
        pc[t] \in {"run", "complete"} /\ selection[t].kind # "none"
            => /\ Present(key[t]) /\ entries[key[t]].probe = t
               /\ Matches(entries[key[t]], selection[t])

LearnInv == \A k \in Keys : Present(k) => Sound(entries[k])

LEMMA ResetSound == Sound(reset_entry)
<1> DEFINE e == reset_entry
<1>1. /\ e.active = Routes /\ e.learning_target = normalized_minimum
      /\ e.samples = Nothing /\ e.holdouts = Nothing /\ e.warmups = Nothing
      /\ e.phase = "Learning" /\ e.stable = FALSE /\ e.revalidation = "Idle"
      /\ e.verification_failures = 0
    BY DEF reset_entry
<1>2. \A i \in Routes : Nothing[i] = 0
    BY DEF Nothing
<1>3. e \in Entry
    BY ResetTyped
<1> HIDE DEF e
<1>4. Ground(e)
    BY <1>1, <1>3, Settings DEF Ground
<1>5. Lagging(e)
    BY <1>1, <1>2, Settings DEF Lagging
<1>6. WithinLimits(e)
    BY <1>1, <1>2, Settings DEF WithinLimits, Most
<1>7. Sound(e)
    BY <1>1, <1>4, <1>5, <1>6 DEF Sound
<1> QED BY <1>7 DEF e

\* What locking a route in changes and what it keeps.
LEMMA StabilizeFields ==
    ASSUME NEW e \in Entry, NEW i \in Routes
    PROVE  LET f == Stabilize(e, i) IN
           /\ f \in Entry /\ f.stable_route = i /\ f.stable /\ f.phase = "Stable"
           /\ f.active = e.active /\ f.learning_target = e.learning_target
           /\ f.samples = e.samples /\ f.holdouts = e.holdouts
           /\ f.warmups = e.warmups
           /\ f.provisional = e.provisional /\ f.runner_up = e.runner_up
           /\ f.revalidation = e.revalidation
           /\ f.verification_failures = e.verification_failures
<1>1. Stabilize(e, i) \in Entry
    BY StabilizeTyped DEF Kin
<1> QED BY <1>1 DEF Entry, Stabilize

\* A route may be locked in when every route is sampled and, if there is a
\* choice, the holdout is complete.
LEMMA StableSound ==
    ASSUME NEW e, Ground(e), Sampled(e), e.revalidation = "Idle",
           route_count > 1 /\ holdout_samples > 0 => HeldOut(e),
           NEW i \in Routes
    PROVE  Sound(Stabilize(e, i))
<1> DEFINE f == Stabilize(e, i)
<1>1. /\ f \in Entry /\ f.stable /\ f.phase = "Stable"
      /\ f.active = e.active /\ f.learning_target = e.learning_target
      /\ f.samples = e.samples /\ f.holdouts = e.holdouts
      /\ f.provisional = e.provisional /\ f.runner_up = e.runner_up
      /\ f.revalidation = e.revalidation
    BY StabilizeFields DEF Ground
<1> HIDE DEF f
<1>2. Ground(f) /\ Sampled(f)
    BY <1>1 DEF Ground, Sampled
<1>3. route_count > 1 /\ holdout_samples > 0 => HeldOut(f)
    BY <1>1 DEF HeldOut
<1>4. Sound(f)
    BY <1>1, <1>2, <1>3 DEF Sound, Sampled
<1> QED BY <1>4 DEF f

\* The entry at the beginning of a holdout of p against r.
HoldoutOf(e, p, r) ==
    [[e EXCEPT !.provisional = p, !.holdouts = Nothing]
       EXCEPT !.runner_up = r, !.phase = "Holdout"]

\* A holdout may begin between two routes when every route is sampled.
LEMMA HoldoutSound ==
    ASSUME NEW e, Ground(e), Sampled(e), e.revalidation = "Idle", ~e.stable,
           WithinLimits(e), holdout_samples > 0,
           NEW p \in Routes, NEW r \in Routes, p # r,
           NEW f, f = HoldoutOf(e, p, r)
    PROVE  /\ Sound(f) /\ f.phase = "Holdout" /\ f.samples = e.samples
           /\ f.warmups = e.warmups /\ f.holdouts = Nothing
           /\ f.verification_failures = e.verification_failures
<1> DEFINE h == [e EXCEPT !.provisional = p, !.holdouts = Nothing]
<1>1. /\ h \in Entry /\ h.provisional = p /\ h.holdouts = Nothing
      /\ h.active = e.active /\ h.learning_target = e.learning_target
      /\ h.samples = e.samples /\ h.warmups = e.warmups /\ h.stable = e.stable
      /\ h.verification_failures = e.verification_failures
      /\ h.revalidation = e.revalidation
    BY NothingTyped DEF Ground, Entry
<1> HIDE DEF h
<1>2. f = [h EXCEPT !.runner_up = r, !.phase = "Holdout"]
    BY DEF h, HoldoutOf
<1>f. f \in Entry
    BY <1>1, <1>2 DEF Entry, Phases
<1>3. /\ f \in Entry /\ f.provisional = p /\ f.holdouts = Nothing
      /\ f.runner_up = r /\ f.phase = "Holdout"
      /\ f.active = h.active /\ f.learning_target = h.learning_target
      /\ f.samples = h.samples /\ f.warmups = h.warmups /\ f.stable = h.stable
      /\ f.verification_failures = h.verification_failures
      /\ f.revalidation = h.revalidation
    BY <1>1, <1>2, <1>f DEF Entry
<1>4. /\ f.active = e.active /\ f.learning_target = e.learning_target
      /\ f.samples = e.samples /\ f.warmups = e.warmups /\ ~f.stable
      /\ f.verification_failures = e.verification_failures
      /\ f.revalidation = "Idle"
    BY <1>1, <1>3
<1>5. Ground(f) /\ Sampled(f)
    BY <1>3, <1>4 DEF Ground, Sampled
<1>6. \A i \in Routes : Nothing[i] = 0
    BY DEF Nothing
<1>7. WithinLimits(f)
    BY <1>3, <1>4, <1>6 DEF WithinLimits
<1>8. Sound(f)
    BY <1>3, <1>4, <1>5, <1>7 DEF Sound, Sampled
<1> QED BY <1>3, <1>4, <1>8

\* The end of a round, for an entry whose routes are all sampled.
LEMMA StartSound ==
    ASSUME NEW e, Ground(e), Sampled(e), e.revalidation = "Idle", ~e.stable,
           WithinLimits(e), e.holdouts = Nothing,
           NEW f \in start_holdout_or_stabilize(e)
    PROVE  /\ Sound(f) /\ f.phase # "Learning" /\ f.samples = e.samples
           /\ f.warmups = e.warmups /\ f.holdouts = Nothing
           /\ f.verification_failures = e.verification_failures
<1> DEFINE runners(p) == {i \in Routes \ {p} : e.samples[i] > 0}
           h(p) == [e EXCEPT !.provisional = p, !.holdouts = Nothing]
<1>1. PICK p \in {i \in e.active : e.samples[i] > 0} :
        f \in IF runners(p) = {} \/ holdout_samples = 0
                THEN {Stabilize(h(p), p)}
                ELSE {[h(p) EXCEPT !.runner_up = r, !.phase = "Holdout"] :
                        r \in runners(p)}
    BY DEF start_holdout_or_stabilize
<1>2. p \in Routes
    BY DEF Ground, Entry
<1>3. CASE f = Stabilize(h(p), p) /\ (runners(p) = {} \/ holdout_samples = 0)
    <2>1. /\ h(p) \in Entry
          /\ h(p).active = e.active /\ h(p).learning_target = e.learning_target
          /\ h(p).samples = e.samples /\ h(p).warmups = e.warmups
          /\ h(p).holdouts = Nothing
          /\ h(p).verification_failures = e.verification_failures
          /\ h(p).revalidation = e.revalidation
        BY <1>2, NothingTyped DEF Ground, Entry
    <2>2. ~(route_count > 1 /\ holdout_samples > 0)
        <3>1. ASSUME route_count > 1, runners(p) = {} PROVE FALSE
            <4>1. PICK j \in Routes : j # p
                BY <1>2, <3>1 DEF Routes
            <4>2. e.samples[j] \in Nat /\ normalized_minimum <= e.samples[j]
                BY DEF Sampled, Ground, Entry
            <4>3. j \in runners(p)
                BY <4>1, <4>2, Settings
            <4> QED BY <3>1, <4>3
        <3> QED BY <1>3, <3>1
    <2> HIDE DEF h
    <2>3. Ground(h(p)) /\ Sampled(h(p))
        BY <2>1 DEF Ground, Sampled
    <2>4. Sound(f)
        BY <1>2, <1>3, <2>1, <2>2, <2>3, StableSound
    <2> QED BY <1>2, <1>3, <2>1, <2>4, StabilizeFields
<1>4. ASSUME NEW r \in runners(p), holdout_samples > 0,
             f = [h(p) EXCEPT !.runner_up = r, !.phase = "Holdout"]
      PROVE  /\ Sound(f) /\ f.phase # "Learning" /\ f.samples = e.samples
             /\ f.warmups = e.warmups /\ f.holdouts = Nothing
             /\ f.verification_failures = e.verification_failures
    <2>1. r \in Routes /\ p # r
        OBVIOUS
    <2>2. f = HoldoutOf(e, p, r)
        BY <1>4 DEF HoldoutOf
    <2> QED BY <1>2, <1>4, <2>1, <2>2, HoldoutSound
<1>5. CASE ~(runners(p) = {} \/ holdout_samples = 0)
    <2>1. PICK r \in runners(p) :
            f = [h(p) EXCEPT !.runner_up = r, !.phase = "Holdout"]
        BY <1>1, <1>5
    <2>2. holdout_samples > 0
        BY <1>5
    <2> QED BY <1>4, <2>1, <2>2
<1> QED BY <1>1, <1>3, <1>5

\* Two-element sets have no smaller set with more than one element.
LEMMA PairKept ==
    ASSUME NEW a, NEW b, NEW kept \in SUBSET {a, b}, Cardinality(kept) > 1
    PROVE  kept = {a, b}
<1>1. ASSUME kept # {a, b} PROVE FALSE
    <2>1. kept = {} \/ \E c : kept = {c}
        BY <1>1
    <2>2. Cardinality(kept) \in {0, 1}
        BY <2>1, FS_EmptySet, FS_Singleton
    <2> QED BY <2>2
<1> QED BY <1>1

\* The next round for the routes that are kept.
Extended(e, kept) ==
    [[e EXCEPT !.active = kept] EXCEPT
       !.learning_target = Least(normalized_window, @ + 2)]

LEMMA ExtendSound ==
    ASSUME NEW e, Sound(e), e.phase = "Learning", active_round_complete(e),
           NEW kept \in SUBSET e.active, kept # {}, Cardinality(kept) > 1,
           e.learning_target < normalized_window,
           NEW f, f = Extended(e, kept)
    PROVE  /\ Sound(f) /\ Unfinished(f) /\ f.samples = e.samples
           /\ f.warmups = e.warmups /\ f.holdouts = e.holdouts
           /\ f.verification_failures = e.verification_failures
<1> DEFINE h == [e EXCEPT !.active = kept]
           target == Least(normalized_window, e.learning_target + 2)
<1>1. e \in Entry /\ e.learning_target \in Nat /\ kept \in SUBSET Routes
    BY DEF Sound, Ground, Entry
<1>2. h \in Entry /\ h.learning_target = e.learning_target
    BY <1>1 DEF Entry
<1>3. /\ target \in Nat /\ e.learning_target < target
      /\ target <= normalized_window
    BY <1>1, Settings DEF Least
<1>4. f = [e EXCEPT !.active = kept, !.learning_target = target]
    BY <1>1, <1>2 DEF Extended, Entry
<1> HIDE DEF h, target
<1>5. f \in Entry
    BY <1>1, <1>3, <1>4 DEF Entry
<1>6. /\ f.active = kept /\ f.learning_target = target
      /\ f.samples = e.samples /\ f.warmups = e.warmups
      /\ f.holdouts = e.holdouts /\ f.phase = e.phase /\ f.stable = e.stable
      /\ f.verification_failures = e.verification_failures
      /\ f.revalidation = e.revalidation
    BY <1>1, <1>4 DEF Entry
<1>7. \A i \in Routes : /\ e.samples[i] \in Nat
                        /\ normalized_minimum <= e.samples[i]
    <2>1. \A i \in Routes : e.samples[i] \in Nat
        BY <1>1 DEF Entry
    <2>2. \A i \in e.active : e.learning_target <= e.samples[i]
        BY DEF active_round_complete
    <2> QED BY <1>1, <2>1, <2>2, Settings DEF Sound, Ground
<1>8. Ground(f)
    BY <1>1, <1>3, <1>5, <1>6, Settings DEF Sound, Ground
<1>9. Lagging(f) /\ Unfinished(f)
    <2>1. Lagging(e)
        BY DEF Sound
    <2>2. CASE \A i \in e.active : e.samples[i] <= e.learning_target
        <3>1. \A i \in kept : e.samples[i] < target
            BY <1>1, <1>3, <1>7, <2>2
        <3> QED BY <1>3, <1>6, <1>7, <1>1, <3>1 DEF Lagging, Unfinished
    <2>3. ASSUME NEW a \in e.active, NEW b \in e.active, e.active = {a, b},
                 e.samples[a] <= e.learning_target
          PROVE  Lagging(f) /\ Unfinished(f)
        <3>1. kept = {a, b}
            BY <2>3, PairKept
        <3>2. e.samples[a] < target
            BY <1>1, <1>3, <1>7, <2>3, <3>1
        <3>3. e.samples[a] <= target
            BY <1>1, <1>3, <1>7, <3>1, <3>2
        <3> QED BY <1>6, <3>1, <3>2, <3>3 DEF Lagging, Unfinished
    <2> QED BY <2>1, <2>2, <2>3 DEF Lagging
<1>10. WithinLimits(f)
    BY <1>6 DEF Sound, WithinLimits
<1>11. Sound(f)
    BY <1>6, <1>7, <1>8, <1>9, <1>10 DEF Sound
<1> QED BY <1>6, <1>9, <1>11

\* prepare_learning_state only decides; what was observed stays.
LEMMA PrepareSound ==
    ASSUME NEW e, Sound(e), NEW f \in prepare_learning_state(e)
    PROVE  /\ Sound(f)
           /\ f.phase = "Learning" => Unfinished(f)
           /\ f.samples = e.samples /\ f.warmups = e.warmups
           /\ f.holdouts = e.holdouts
           /\ f.verification_failures = e.verification_failures
           /\ e.phase # "Learning" => f = e
<1>1. CASE e.phase # "Learning"
    <2>1. f = e
        BY <1>1 DEF prepare_learning_state
    <2> QED BY <1>1, <2>1
<1>2. CASE e.phase = "Learning" /\ ~active_round_complete(e)
    <2>1. f = e
        BY <1>2 DEF prepare_learning_state
    <2>2. Unfinished(e)
        <3>1. \A i \in e.active : e.samples[i] \in Nat
            BY DEF Sound, Ground, Entry
        <3>2. e.learning_target \in Nat
            BY DEF Sound, Ground, Entry
        <3> QED BY <1>2, <3>1, <3>2 DEF active_round_complete, Unfinished
    <2> QED BY <2>1, <2>2
<1>3. CASE e.phase = "Learning" /\ active_round_complete(e)
    <2>1. ~e.stable
        BY <1>3 DEF Sound
    <2>2. PICK kept \in (SUBSET e.active) \ {{}} :
            \/ f \in start_holdout_or_stabilize([e EXCEPT !.active = kept])
            \/ /\ Cardinality(kept) > 1
               /\ e.learning_target < normalized_window
               /\ f = Extended(e, kept)
        BY <1>3, <2>1 DEF prepare_learning_state, Extended
    <2>3. CASE f \in start_holdout_or_stabilize([e EXCEPT !.active = kept])
        <3> DEFINE h == [e EXCEPT !.active = kept]
        <3>1. e \in Entry /\ kept \in SUBSET Routes
            BY DEF Sound, Ground, Entry
        <3>2. h \in Entry
            BY <3>1 DEF Entry
        <3>3. /\ h.active = kept /\ h.learning_target = e.learning_target
              /\ h.samples = e.samples /\ h.warmups = e.warmups
              /\ h.holdouts = e.holdouts /\ h.stable = e.stable
              /\ h.verification_failures = e.verification_failures
              /\ h.revalidation = e.revalidation
            BY <3>1 DEF Entry
        <3> HIDE DEF h
        <3>4. /\ h.holdouts = Nothing /\ ~h.stable /\ h.revalidation = "Idle"
              /\ Ground(h) /\ WithinLimits(h)
            BY <1>3, <2>1, <3>2, <3>3 DEF Sound, Ground, WithinLimits
        <3>5. Sampled(h)
            <4>1. \A i \in Routes : e.samples[i] \in Nat
                BY <3>1 DEF Entry
            <4>2. \A i \in e.active : e.learning_target <= e.samples[i]
                BY <1>3 DEF active_round_complete
            <4>3. e.learning_target \in Nat /\ e.active \in SUBSET Routes
                BY <3>1 DEF Entry
            <4>4. \A i \in Routes : normalized_minimum <= e.samples[i]
                BY <4>1, <4>2, <4>3, Settings DEF Sound, Ground
            <4> QED BY <3>3, <4>4 DEF Sampled
        <3>6. f \in start_holdout_or_stabilize(h)
            BY <2>3 DEF h
        <3>7. /\ Sound(f) /\ f.phase # "Learning" /\ f.samples = h.samples
              /\ f.warmups = h.warmups /\ f.holdouts = Nothing
              /\ f.verification_failures = h.verification_failures
            BY <3>4, <3>5, <3>6, StartSound
        <3> QED BY <1>3, <3>3, <3>4, <3>7
    <2>4. CASE /\ Cardinality(kept) > 1
               /\ e.learning_target < normalized_window
               /\ f = Extended(e, kept)
        BY <1>3, <2>4, ExtendSound
    <2> QED BY <2>2, <2>3, <2>4
<1> QED BY <1>1, <1>2, <1>3

\* The samples after a failed holdout stay within the window.
LEMMA MergedLimits ==
    ASSUME NEW e \in Entry, WithinLimits(e)
    PROVE  \A i \in Routes : Merged(e)[i] <= normalized_window
<1>1. SampleWindow(normalized_window) = normalized_window
    BY Settings DEF SampleWindow, Least, Most, maximum_sample_window
<1> SUFFICES ASSUME NEW i \in Routes
             PROVE  Merged(e)[i] <= normalized_window
    OBVIOUS
<1>2. /\ e.samples[i] \in Nat /\ e.holdouts[i] \in Nat
      /\ e.samples[i] <= normalized_window
    BY DEF Entry, WithinLimits
<1>3. add_samples(e.samples[i], e.holdouts[i], normalized_window)
        <= normalized_window
    <2>1. e.samples[i] <= SampleWindow(normalized_window)
        BY <1>1, <1>2
    <2>2. add_samples(e.samples[i], e.holdouts[i], normalized_window)
            <= SampleWindow(normalized_window)
        BY <1>2, <2>1, Adds, Settings
    <2> QED BY <1>1, <2>2
<1>4. \/ Merged(e)[i] = e.samples[i]
      \/ Merged(e)[i] = add_samples(e.samples[i], e.holdouts[i],
                                    normalized_window)
    BY DEF Merged
<1> QED BY <1>2, <1>3, <1>4

LEMMA FailedFields ==
    ASSUME NEW e \in Entry
    PROVE  LET f == Failed(e) IN
           /\ f \in Entry /\ f.samples = Merged(e)
           /\ f.verification_failures = e.verification_failures + 1
           /\ f.active = e.active /\ f.learning_target = e.learning_target
           /\ f.warmups = e.warmups /\ f.holdouts = e.holdouts
           /\ f.phase = e.phase /\ f.stable = e.stable
           /\ f.revalidation = e.revalidation
           /\ f.provisional = e.provisional /\ f.runner_up = e.runner_up
<1>1. Failed(e) \in Entry
    BY FailedTyped DEF Kin
<1> QED BY <1>1 DEF Failed, Entry

\* The target of the round after a failed holdout.
Reopening(e) ==
    Least(normalized_window,
          Most(normalized_minimum,
               LeastOf(Merged(e), {e.provisional, e.runner_up}) + 2))

LEMMA ReopenedFields ==
    ASSUME NEW e \in Entry
    PROVE  LET f == Reopened(e) IN
           /\ f \in Entry /\ f.samples = Merged(e)
           /\ f.verification_failures = e.verification_failures + 1
           /\ f.active = {e.provisional, e.runner_up}
           /\ f.learning_target = Reopening(e)
           /\ f.warmups = e.warmups /\ f.holdouts = Nothing
           /\ f.phase = "Learning" /\ f.stable = e.stable
           /\ f.revalidation = e.revalidation
<1> DEFINE g == Failed(e)
<1>1. Reopened(e) \in Entry
    BY FailedTyped DEF Kin
<1>2. /\ g \in Entry /\ g.samples = Merged(e)
      /\ g.verification_failures = e.verification_failures + 1
      /\ g.warmups = e.warmups /\ g.stable = e.stable
      /\ g.revalidation = e.revalidation
    BY FailedFields
<1> HIDE DEF g
<1>3. Reopened(e) = [g EXCEPT !.phase = "Learning",
                              !.active = {e.provisional, e.runner_up},
                              !.learning_target = Reopening(e),
                              !.holdouts = Nothing]
    BY DEF Reopened, Reopening, g
<1> QED BY <1>1, <1>2, <1>3 DEF Entry

LEMMA ReopenedSound ==
    ASSUME NEW e, Sound(e), e.phase = "Holdout",
           e.verification_failures + 1 < maximum_verification_failures,
           LeastOf(Merged(e), {e.provisional, e.runner_up}) < normalized_window
    PROVE  Sound(Reopened(e)) /\ Unfinished(Reopened(e))
<1> DEFINE f == Reopened(e)
           pair == {e.provisional, e.runner_up}
           current == LeastOf(Merged(e), pair)
<1>1. /\ e \in Entry /\ ~e.stable /\ WithinLimits(e) /\ Sampled(e)
      /\ e.revalidation = "Idle"
    BY DEF Sound, Ground
<1>2. /\ f \in Entry /\ f.samples = Merged(e)
      /\ f.verification_failures = e.verification_failures + 1
      /\ f.active = pair /\ f.learning_target = Reopening(e)
      /\ f.warmups = e.warmups /\ f.holdouts = Nothing
      /\ f.phase = "Learning" /\ f.stable = e.stable
      /\ f.revalidation = e.revalidation
    BY <1>1, ReopenedFields
<1>3. /\ e.provisional \in Routes /\ e.runner_up \in Routes
      /\ pair \in SUBSET Routes /\ pair # {}
    BY <1>1 DEF Entry
<1>4. /\ Merged(e) \in [Routes -> Nat]
      /\ \A i \in Routes : e.samples[i] <= Merged(e)[i]
    BY <1>1, MergedTyped
<1>5. current \in Nat /\ \E i \in pair : Merged(e)[i] = current
    BY <1>3, <1>4, LeastCount
<1>6. PICK a \in pair : Merged(e)[a] = current
    BY <1>5
<1> HIDE DEF f
<1>7. /\ Reopening(e) \in Nat /\ current < Reopening(e)
      /\ normalized_minimum <= Reopening(e)
      /\ Reopening(e) <= normalized_window
    <2> HIDE DEF current
    <2>1. Reopening(e) = Least(normalized_window,
                               Most(normalized_minimum, current + 2))
        BY DEF Reopening, current
    <2>2. current < normalized_window
        BY DEF current
    <2> QED BY <1>5, <2>1, <2>2, Settings DEF Least, Most
<1> HIDE DEF current, pair
<1>8. Ground(f)
    BY <1>2, <1>3, <1>7 DEF Ground
<1>9. \A i \in Routes : normalized_minimum <= f.samples[i]
    <2>1. \A i \in Routes : e.samples[i] \in Nat /\ Merged(e)[i] \in Nat
        BY <1>1, <1>4 DEF Entry
    <2> QED BY <1>1, <1>2, <1>4, <2>1, Settings DEF Sampled
<1>10. Unfinished(f)
    BY <1>2, <1>6, <1>7 DEF Unfinished
<1>11. Lagging(f)
    <2>1. \E b \in pair : pair = {a, b}
        BY DEF pair
    <2>2. f.samples[a] <= f.learning_target
        BY <1>2, <1>5, <1>6, <1>7
    <2> QED BY <1>2, <2>1, <2>2 DEF Lagging
<1>12. WithinLimits(f)
    <2>1. \A i \in Routes : f.samples[i] <= normalized_window
        BY <1>1, <1>2, MergedLimits
    <2>2. \A i \in Routes : f.warmups[i] <= warmup_samples
        BY <1>1, <1>2 DEF WithinLimits
    <2>3. \A i \in Routes : f.holdouts[i] <= holdout_samples
        BY <1>2 DEF Nothing
    <2>4. f.verification_failures < Most(1, maximum_verification_failures)
        BY <1>1, <1>2 DEF Most, Entry
    <2> QED BY <2>1, <2>2, <2>3, <2>4 DEF WithinLimits
<1>13. Sound(f)
    BY <1>1, <1>2, <1>8, <1>9, <1>11, <1>12 DEF Sound
<1> QED BY <1>10, <1>13 DEF f

\* finalize_holdout waits, locks a route in or reopens learning.
LEMMA FinalizeSound ==
    ASSUME NEW e, Sound(e), e.phase = "Holdout", NEW f \in finalize_holdout(e)
    PROVE  /\ Sound(f)
           /\ \/ f = e /\ ~holdout_complete(e)
              \/ f.stable
              \/ /\ f.phase = "Learning" /\ Unfinished(f)
                 /\ f.verification_failures = e.verification_failures + 1
<1>1. /\ e \in Entry /\ ~e.stable /\ Sampled(e) /\ Ground(e)
      /\ e.revalidation = "Idle"
    BY DEF Sound, Ground
<1>2. e.provisional \in Routes /\ e.runner_up \in Routes
    BY <1>1 DEF Entry
<1>3. CASE ~holdout_complete(e)
    BY <1>3 DEF finalize_holdout
<1>4. CASE holdout_complete(e)
    <2>1. HeldOut(e)
        <3>1. /\ e.holdouts[e.provisional] \in Nat
              /\ e.holdouts[e.runner_up] \in Nat
            BY <1>1, <1>2 DEF Entry
        <3>2. e.provisional # e.runner_up
            BY DEF Sound
        <3> QED BY <1>4, <3>1, <3>2 DEF HeldOut, holdout_complete
    <2>2. CASE f = Stabilize(e, e.provisional)
        BY <1>1, <1>2, <2>1, <2>2, StableSound, StabilizeFields
    <2>3. CASE f = Stabilize(Failed(e), e.runner_up)
        <3> DEFINE g == Failed(e)
        <3>1. /\ g \in Entry /\ g.samples = Merged(e)
              /\ g.active = e.active /\ g.learning_target = e.learning_target
              /\ g.holdouts = e.holdouts /\ g.revalidation = e.revalidation
              /\ g.provisional = e.provisional /\ g.runner_up = e.runner_up
            BY <1>1, FailedFields
        <3> HIDE DEF g
        <3>2. Ground(g) /\ HeldOut(g)
            BY <1>1, <2>1, <3>1 DEF Ground, HeldOut
        <3>3. Sampled(g)
            <4>1. \A i \in Routes : /\ e.samples[i] \in Nat
                                    /\ Merged(e)[i] \in Nat
                                    /\ e.samples[i] <= Merged(e)[i]
                BY <1>1, MergedTyped DEF Entry
            <4> QED BY <1>1, <3>1, <4>1, Settings DEF Sampled
        <3>4. f = Stabilize(g, e.runner_up)
            BY <2>3 DEF g
        <3>5. Sound(f)
            BY <1>1, <1>2, <3>1, <3>2, <3>3, <3>4, StableSound
        <3>6. f.stable
            BY <1>2, <3>1, <3>4, StabilizeFields
        <3> QED BY <3>5, <3>6
    <2>4. CASE /\ f = Reopened(e)
               /\ ~(\/ Failed(e).verification_failures
                         >= maximum_verification_failures
                    \/ LeastOf(Merged(e), {e.provisional, e.runner_up})
                         >= normalized_window)
        <3>1. /\ Failed(e).verification_failures = e.verification_failures + 1
              /\ e.verification_failures \in Nat
              /\ LeastOf(Merged(e), {e.provisional, e.runner_up}) \in Nat
            BY <1>1, FailedFields, MergedTyped DEF Entry
        <3>2. /\ e.verification_failures + 1 < maximum_verification_failures
              /\ LeastOf(Merged(e), {e.provisional, e.runner_up})
                   < normalized_window
            BY <2>4, <3>1, Settings
        <3>3. Sound(f) /\ Unfinished(f)
            BY <2>4, <3>2, ReopenedSound
        <3>4. /\ f.phase = "Learning"
              /\ f.verification_failures = e.verification_failures + 1
            BY <1>1, <2>4, ReopenedFields
        <3> QED BY <3>3, <3>4
    <2> QED BY <1>1, <1>4, <2>2, <2>3, <2>4, FailedOutcomes DEF finalize_holdout
<1> QED BY <1>3, <1>4

\* The fields of learning agree.
Learned(e, f) ==
    /\ f \in Entry
    /\ f.warmups = e.warmups /\ f.samples = e.samples
    /\ f.holdouts = e.holdouts /\ f.active = e.active
    /\ f.phase = e.phase /\ f.stable = e.stable
    /\ f.provisional = e.provisional /\ f.runner_up = e.runner_up
    /\ f.learning_target = e.learning_target
    /\ f.verification_failures = e.verification_failures

\* An entry that has learned the same is sound when its revalidation is.
LEMMA SoundAgain ==
    ASSUME NEW e, Sound(e), NEW f, Learned(e, f),
           f.revalidation # "Idle" => f.stable /\ InOrder(f)
    PROVE  Sound(f)
<1>1. Ground(f)
    BY DEF Sound, Ground, Learned
<1>2. WithinLimits(e) => WithinLimits(f)
    BY DEF WithinLimits, Learned
<1>3. Lagging(e) => Lagging(f)
    BY DEF Lagging, Learned
<1>4. Sampled(e) => Sampled(f)
    BY DEF Sampled, Learned
<1>5. HeldOut(e) => HeldOut(f)
    BY DEF HeldOut, Learned
<1> QED BY <1>1, <1>2, <1>3, <1>4, <1>5 DEF Sound, Learned

\* The state of the revalidation agrees, too.
Revalidated(e, f) ==
    /\ f.revalidation = e.revalidation /\ f.stable_route = e.stable_route
    /\ f.stable_index = e.stable_index
    /\ f.challenger_index = e.challenger_index
    /\ f.stable_samples = e.stable_samples
    /\ f.challenger_samples = e.challenger_samples

LEMMA SoundSame ==
    ASSUME NEW e, Sound(e), NEW f, Learned(e, f), Revalidated(e, f)
    PROVE  Sound(f)
<1>1. f.revalidation # "Idle" => f.stable /\ InOrder(f)
    BY DEF Sound, Learned, Revalidated, InOrder
<1> QED BY <1>1, SoundAgain

\* Taking the slot changes nothing else.
LEMMA ProbeFields ==
    ASSUME NEW e \in Entry, NEW x \in Threads \cup {NoThread}
    PROVE  /\ Learned(e, [e EXCEPT !.probe = x])
           /\ Revalidated(e, [e EXCEPT !.probe = x])
<1>1. [e EXCEPT !.probe = x] \in Entry
    BY DEF Entry
<1> QED BY <1>1 DEF Learned, Revalidated, Entry

LEMMA BeginSound ==
    ASSUME NEW e, Sound(e), NEW t \in Threads, NEW i, NEW kind, NEW stage,
           NEW s, s = begin_probe(e, t, i, kind, stage),
           Matches(e, [route |-> i, kind |-> kind, stage |-> stage])
    PROVE  Sound(s.entry) /\ Matches(s.entry, s)
<1> DEFINE f == [e EXCEPT !.probe = t]
<1>1. e \in Entry
    BY DEF Sound, Ground
<1>2. Learned(e, f) /\ Revalidated(e, f)
    BY <1>1, ProbeFields
<1>3. /\ s.entry = f /\ s.route = i /\ s.kind = kind /\ s.stage = stage
    BY DEF begin_probe, Selection
<1> HIDE DEF f
<1>4. Sound(f)
    BY <1>2, SoundSame
<1>5. RevalidationProbe(f) = RevalidationProbe(e)
    BY <1>2 DEF RevalidationProbe, Revalidated
<1>6. Matches(f, s)
    BY <1>2, <1>3, <1>5 DEF Matches, Learned, Revalidated
<1> QED BY <1>3, <1>4, <1>6

\* Counting a use and starting a revalidation of a stable route.
LEMMA CountedSound ==
    ASSUME NEW e, Sound(e), e.stable
    PROVE  /\ Sound(Based(e)) /\ Based(e).stable
           /\ Sound(Counted(e))
           /\ Based(e).revalidation = "Idle" /\ route_count > 1
                => /\ Sound(Started(e)) /\ Started(e).stable
                   /\ Started(e).revalidation = "StableA"
<1>1. e \in Entry
    BY DEF Sound, Ground
<1>2. Based(e) \in Entry /\ Counted(e) \in Entry /\ Started(e) \in Entry
    BY <1>1, CountedTyped DEF Kin
<1>3. Learned(e, Based(e)) /\ Revalidated(e, Based(e))
    BY <1>1, <1>2 DEF Learned, Revalidated, Based, Entry
<1>4. Learned(Based(e), Counted(e)) /\ Revalidated(Based(e), Counted(e))
    BY <1>2 DEF Learned, Revalidated, Counted, Entry
<1>5. Sound(Based(e)) /\ Based(e).stable
    BY <1>3, SoundSame DEF Learned
<1>6. Sound(Counted(e)) /\ Counted(e).stable
    BY <1>4, <1>5, SoundSame DEF Learned
<1>7. ASSUME Based(e).revalidation = "Idle", route_count > 1
      PROVE  /\ Sound(Started(e)) /\ Started(e).stable
             /\ Started(e).revalidation = "StableA"
    <2> DEFINE c == Counted(e)
               h == initialize_revalidation(c)
    <2>1. h \in Entry
        BY <1>2, InitializeTyped DEF Kin
    <2>2. /\ Learned(c, h) /\ h.stable_route = c.stable_route
          /\ h.stable_index = c.stable_route
          /\ h.challenger_index = Alternative(c, c.stable_route)
          /\ h.stable_samples = 0 /\ h.challenger_samples = 0
        BY <1>2, <2>1 DEF initialize_revalidation, Learned, Entry
    <2>3. Alternative(c, c.stable_route) # c.stable_route
        BY <1>2, <1>7, AlternativeTyped
    <2> HIDE DEF c, h
    <2>4. Started(e) = [h EXCEPT !.revalidation = "StableA"]
        BY DEF Started, h, c
    <2>5. /\ Learned(h, Started(e)) /\ Started(e).revalidation = "StableA"
          /\ Started(e).stable_route = h.stable_route
          /\ Started(e).stable_index = h.stable_index
          /\ Started(e).challenger_index = h.challenger_index
          /\ Started(e).stable_samples = h.stable_samples
          /\ Started(e).challenger_samples = h.challenger_samples
        BY <1>2, <2>1, <2>4 DEF Learned, Entry
    <2>6. Learned(c, Started(e))
        BY <2>2, <2>5 DEF Learned
    <2>7. InOrder(Started(e))
        BY <2>2, <2>3, <2>5 DEF InOrder, Evidence
    <2>8. Started(e).stable
        BY <1>6, <2>6 DEF Learned, c
    <2>9. Sound(Started(e))
        BY <1>6, <2>6, <2>7, <2>8, SoundAgain DEF c
    <2> QED BY <2>5, <2>8, <2>9
<1> QED BY <1>5, <1>6, <1>7

\* select for a profile with a stable route.
LEMMA SelectStableSound ==
    ASSUME NEW e, Sound(e), e.stable, NEW t \in Threads, NEW why,
           NEW s, s = SelectStable(e, t, why)
    PROVE  Sound(s.entry) /\ (s.kind # "none" => Matches(s.entry, s))
<1>1. /\ Sound(Based(e)) /\ Based(e).stable /\ Sound(Counted(e))
      /\ Based(e).revalidation = "Idle" /\ route_count > 1
           => /\ Sound(Started(e)) /\ Started(e).stable
              /\ Started(e).revalidation = "StableA"
    BY CountedSound
<1>2. ASSUME NEW g, Sound(g), g.stable, g.revalidation # "Idle",
             s = ProbeNext(g, t)
      PROVE  Sound(s.entry) /\ Matches(s.entry, s)
    <2>1. Matches(g, [route |-> RevalidationProbe(g)[1],
                      kind |-> "revalidation",
                      stage |-> RevalidationProbe(g)[2]])
        BY <1>2 DEF Matches
    <2>2. s = begin_probe(g, t, RevalidationProbe(g)[1], "revalidation",
                          RevalidationProbe(g)[2])
        BY <1>2 DEF ProbeNext
    <2> QED BY <1>2, <2>1, <2>2, BeginSound
<1>3. CASE Based(e).revalidation # "Idle" /\ s = ProbeNext(Based(e), t)
    BY <1>1, <1>2, <1>3
<1>4. CASE /\ Based(e).revalidation = "Idle"
           /\ s = begin_probe(Based(e), t, Based(e).stable_route, "drift", 0)
    <2>1. Matches(Based(e), [route |-> Based(e).stable_route,
                             kind |-> "drift", stage |-> 0])
        BY <1>1, <1>4 DEF Matches
    <2> QED BY <1>1, <1>4, <2>1, BeginSound
<1>5. CASE /\ Based(e).revalidation = "Idle" /\ route_count > 1
           /\ s = ProbeNext(Started(e), t)
    BY <1>1, <1>2, <1>5
<1>6. CASE s = Selection(Counted(e), Based(e).stable_route, "none", 0)
    BY <1>1, <1>6 DEF Selection
<1> QED BY <1>3, <1>4, <1>5, <1>6, StableOutcomes

\* A holdout for which there is no next probe is complete.
LEMMA NoHoldoutLeft ==
    ASSUME NEW e, Sound(e), e.phase = "Holdout", next_holdout_index(e) = NoIndex
    PROVE  holdout_complete(e) /\ e.holdouts # Nothing
<1>1. /\ e \in Entry /\ holdout_samples > 0
    BY DEF Sound, Ground
<1>2. e.provisional \in Routes /\ e.runner_up \in Routes
    BY <1>1 DEF Entry
<1>3. /\ e.holdouts[e.provisional] \in Nat
      /\ e.holdouts[e.runner_up] \in Nat
    BY <1>1, <1>2 DEF Entry
<1>4. e.provisional # NoIndex /\ e.runner_up # NoIndex
    BY <1>2, Settings
<1>5. holdout_complete(e)
    BY <1>1, <1>3, <1>4 DEF next_holdout_index, holdout_complete
<1>6. Nothing[e.provisional] = 0
    BY <1>2 DEF Nothing
<1> QED BY <1>1, <1>3, <1>5, <1>6 DEF holdout_complete

\* After Learn there is a stable route or a next probe: the fallback of select,
\* "bounded learning must always converge", is not needed.
LEMMA LearnSound ==
    ASSUME NEW e, Sound(e), NEW h \in Learn(e)
    PROVE  /\ Sound(h)
           /\ h.phase = "Learning" => Unfinished(h)
           /\ h.phase = "Holdout" => next_holdout_index(h) # NoIndex
<1>1. PICK f \in prepare_learning_state(e) :
        \E g : /\ h \in prepare_learning_state(g)
               /\ \/ g = f
                  \/ /\ f.phase = "Holdout"
                     /\ next_holdout_index(f) = NoIndex
                     /\ g \in finalize_holdout(f)
               /\ f.phase = "Holdout" /\ next_holdout_index(f) = NoIndex
                    => g \in finalize_holdout(f)
    BY LearnPath
<1>2. PICK g : /\ h \in prepare_learning_state(g)
               /\ \/ g = f
                  \/ /\ f.phase = "Holdout"
                     /\ next_holdout_index(f) = NoIndex
                     /\ g \in finalize_holdout(f)
               /\ f.phase = "Holdout" /\ next_holdout_index(f) = NoIndex
                    => g \in finalize_holdout(f)
    BY <1>1
<1>3. Sound(f)
    BY PrepareSound
<1>4. /\ Sound(g)
      /\ g.phase = "Holdout" => next_holdout_index(g) # NoIndex
    <2>1. CASE f.phase = "Holdout" /\ next_holdout_index(f) = NoIndex
        <3>1. g \in finalize_holdout(f) /\ holdout_complete(f)
            BY <1>2, <1>3, <2>1, NoHoldoutLeft
        <3>2. Sound(g) /\ (g.stable \/ g.phase = "Learning")
            BY <1>3, <2>1, <3>1, FinalizeSound
        <3> QED BY <3>2 DEF Sound
    <2>2. CASE ~(f.phase = "Holdout" /\ next_holdout_index(f) = NoIndex)
        BY <1>2, <1>3, <2>2
    <2> QED BY <2>1, <2>2
<1>5. /\ Sound(h) /\ h.holdouts = g.holdouts
      /\ h.phase = "Learning" => Unfinished(h)
      /\ g.phase # "Learning" => h = g
    BY <1>2, <1>4, PrepareSound
<1>6. ASSUME h.phase = "Holdout" PROVE next_holdout_index(h) # NoIndex
    <2>1. CASE g.phase # "Learning"
        BY <1>4, <1>5, <1>6, <2>1
    <2>2. CASE g.phase = "Learning"
        <3>1. h.holdouts = Nothing
            BY <1>4, <1>5, <2>2 DEF Sound
        <3> QED BY <1>5, <1>6, <3>1, NoHoldoutLeft
    <2> QED BY <2>1, <2>2
<1> QED BY <1>5, <1>6

\* select while the profile learns.
LEMMA SelectLearningSound ==
    ASSUME NEW e, Sound(e), NEW t \in Threads, NEW seed \in Routes, NEW why,
           NEW s \in SelectLearning(e, t, seed, why)
    PROVE  Sound(s.entry) /\ (s.kind # "none" => Matches(s.entry, s))
<1>1. LearningOutcome(e, t, seed, why, s)
    BY LearningOutcomes
<1>2. PICK f \in Learn(e) :
        \/ f.stable /\ s = SelectStable(f, t, why)
        \/ /\ ~f.stable /\ next_holdout_index(f) # NoIndex
           /\ s = begin_probe(f, t, next_holdout_index(f),
                              IF f.phase = "Holdout" THEN "holdout"
                                                     ELSE "learning", 0)
        \/ /\ ~f.stable /\ next_holdout_index(f) = NoIndex
           /\ next_learning_index(f, seed) # NoIndex
           /\ s = begin_probe(f, t, next_learning_index(f, seed),
                              IF f.phase = "Holdout" THEN "holdout"
                                                     ELSE "learning", 0)
        \/ /\ ~f.stable /\ next_holdout_index(f) = NoIndex
           /\ next_learning_index(f, seed) = NoIndex
    BY <1>1 DEF LearningOutcome
<1>3. /\ Sound(f) /\ f \in Entry
      /\ f.phase = "Learning" => Unfinished(f)
      /\ f.phase = "Holdout" => next_holdout_index(f) # NoIndex
    BY LearnSound DEF Sound, Ground
<1>4. CASE f.stable /\ s = SelectStable(f, t, why)
    BY <1>3, <1>4, SelectStableSound
<1>5. CASE /\ next_holdout_index(f) # NoIndex
           /\ s = begin_probe(f, t, next_holdout_index(f),
                              IF f.phase = "Holdout" THEN "holdout"
                                                     ELSE "learning", 0)
    <2>1. /\ f.phase = "Holdout"
          /\ next_holdout_index(f) \in {f.provisional, f.runner_up}
          /\ f.holdouts[next_holdout_index(f)] < holdout_samples
        BY <1>3, <1>5, HoldoutIndexTyped
    <2>2. Matches(f, [route |-> next_holdout_index(f), kind |-> "holdout",
                      stage |-> 0])
        BY <2>1 DEF Matches
    <2>3. s = begin_probe(f, t, next_holdout_index(f), "holdout", 0)
        BY <1>5, <2>1
    <2> QED BY <1>3, <2>2, <2>3, BeginSound
<1>6. CASE /\ next_learning_index(f, seed) # NoIndex
           /\ s = begin_probe(f, t, next_learning_index(f, seed),
                              IF f.phase = "Holdout" THEN "holdout"
                                                     ELSE "learning", 0)
    <2>1. /\ f.phase = "Learning" /\ next_learning_index(f, seed) \in f.active
          /\ f.samples[next_learning_index(f, seed)] < f.learning_target
        BY <1>3, <1>6, LearningIndexTyped
    <2>2. Matches(f, [route |-> next_learning_index(f, seed),
                      kind |-> "learning", stage |-> 0])
        BY <2>1 DEF Matches
    <2>3. s = begin_probe(f, t, next_learning_index(f, seed), "learning", 0)
        BY <1>6, <2>1
    <2> QED BY <1>3, <2>2, <2>3, BeginSound
<1>7. CASE /\ ~f.stable /\ next_holdout_index(f) = NoIndex
           /\ next_learning_index(f, seed) = NoIndex
    <2>1. f.phase = "Learning"
        <3>1. f.phase \in Phases
            BY <1>3 DEF Entry
        <3> QED BY <1>3, <1>7, <3>1 DEF Sound, Phases
    <2>2. \A i \in f.active : f.learning_target <= f.samples[i]
        BY <1>3, <1>7, <2>1, LearningIndexTyped
    <2>3. f.learning_target \in Nat /\ \A i \in f.active : f.samples[i] \in Nat
        BY <1>3 DEF Entry
    <2> QED BY <1>3, <2>1, <2>2, <2>3 DEF Unfinished
<1> QED BY <1>2, <1>4, <1>5, <1>6, <1>7

\* select keeps a profile sound and leaves it ready for the probe it orders.
LEMMA SelectSound ==
    ASSUME NEW e, Sound(e), NEW t \in Threads, NEW seed \in Routes, NEW why,
           NEW s \in select(e, t, seed, why)
    PROVE  Sound(s.entry) /\ (s.kind # "none" => Matches(s.entry, s))
<1>1. e \in Entry
    BY DEF Sound, Ground
<1>2. CASE e.probe # NoThread
    <2>1. s = SelectFallback(e)
        BY <1>2 DEF select, Busy
    <2> QED BY <2>1 DEF SelectFallback, Selection
<1>3. CASE /\ e.probe = NoThread
           /\ next_warmup_index(e, seed) # NoIndex
    <2>1. s = begin_probe(e, t, next_warmup_index(e, seed), "warmup", 0)
        BY <1>3 DEF select, Busy
    <2>2. e.warmups[next_warmup_index(e, seed)] < warmup_samples
        BY <1>1, <1>3, WarmupIndexTyped
    <2>3. Matches(e, [route |-> next_warmup_index(e, seed), kind |-> "warmup",
                      stage |-> 0])
        BY <2>2 DEF Matches
    <2> QED BY <2>1, <2>3, BeginSound
<1>4. CASE /\ e.probe = NoThread /\ e.stable
           /\ next_warmup_index(e, seed) = NoIndex
    <2>1. s = SelectStable(e, t, why)
        BY <1>4 DEF select, Busy
    <2> QED BY <1>4, <2>1, SelectStableSound
<1>5. CASE /\ e.probe = NoThread /\ ~e.stable
           /\ next_warmup_index(e, seed) = NoIndex
    <2>1. s \in SelectLearning(e, t, seed, why)
        BY <1>5 DEF select, Busy
    <2> QED BY <2>1, SelectLearningSound
<1> QED BY <1>2, <1>3, <1>4, <1>5

-----------------------------------------------------------------------------
(* The end of a probe.                                                     *)

\* No observation is forgotten, and there is a new one.
Grows(e, f) ==
    /\ \A i \in Routes : /\ e.warmups[i] <= f.warmups[i]
                         /\ e.samples[i] <= f.samples[i]
                         /\ e.holdouts[i] <= f.holdouts[i]
    /\ \E i \in Routes : \/ e.warmups[i] < f.warmups[i]
                         \/ e.samples[i] < f.samples[i]
                         \/ e.holdouts[i] < f.holdouts[i]

\* The sample window has room for a holdout.
HoldoutFits == holdout_samples <= SampleWindow(sample_window)

\* What a probe achieves.
Progress(e, f) ==
    \/ f.stable
    \/ f.verification_failures > e.verification_failures
    \/ Grows(e, f)

LEMMA ReleaseFields ==
    ASSUME NEW e \in Entry, NEW t \in Threads
    PROVE  /\ Learned(e, release_probe(e, t))
           /\ Revalidated(e, release_probe(e, t))
BY ProbeFields DEF release_probe, Learned, Revalidated

\* add_sample adds one, unless the window is full.
LEMMA AddsOne ==
    ASSUME NEW n \in Nat
    PROVE  /\ add_sample(n, sample_window) \in Nat
           /\ n <= add_sample(n, sample_window)
           /\ add_sample(n, sample_window) <= n + 1
           /\ n < SampleWindow(sample_window)
                => n < add_sample(n, sample_window)
<1>1. 1 \in Nat /\ sample_window \in Nat
    OBVIOUS
<1>2. /\ add_samples(n, 1, sample_window) \in Nat
      /\ n <= add_samples(n, 1, sample_window)
      /\ add_samples(n, 1, sample_window) <= n + 1
      /\ n < SampleWindow(sample_window) /\ 1 > 0
           => n < add_samples(n, 1, sample_window)
    BY ONLY <1>1, n \in Nat, Adds
<1> QED BY <1>2 DEF add_sample

LEMMA WarmupSound ==
    ASSUME NEW e, Sound(e), NEW i \in Routes, e.warmups[i] < warmup_samples,
           NEW f, f = [e EXCEPT !.warmups[i] = @ + 1]
    PROVE  Sound(f) /\ Grows(e, f)
<1>1. e \in Entry /\ \A j \in Routes : /\ e.warmups[j] \in Nat
                                       /\ e.samples[j] \in Nat
                                       /\ e.holdouts[j] \in Nat
    BY DEF Sound, Ground, Entry
<1>2. f \in Entry
    BY <1>1 DEF Entry
<1>3. /\ f.warmups = [e.warmups EXCEPT ![i] = @ + 1] /\ f.samples = e.samples
      /\ f.holdouts = e.holdouts /\ f.active = e.active
      /\ f.phase = e.phase /\ f.stable = e.stable
      /\ f.provisional = e.provisional /\ f.runner_up = e.runner_up
      /\ f.learning_target = e.learning_target
      /\ f.verification_failures = e.verification_failures
      /\ Revalidated(e, f)
    BY <1>1 DEF Entry, Revalidated
<1>4. \A j \in Routes : f.warmups[j] = IF j = i THEN e.warmups[j] + 1
                                       ELSE e.warmups[j]
    BY <1>1, <1>3 DEF Entry
<1>5. Ground(f)
    BY <1>2, <1>3 DEF Sound, Ground
<1>6. WithinLimits(e) => WithinLimits(f)
    BY <1>1, <1>3, <1>4 DEF WithinLimits
<1>7. /\ Lagging(e) => Lagging(f)
      /\ Sampled(e) => Sampled(f)
      /\ HeldOut(e) => HeldOut(f)
    BY <1>3 DEF Lagging, Sampled, HeldOut
<1>8. InOrder(e) => InOrder(f)
    BY <1>3 DEF InOrder, Revalidated
<1>9. Sound(f)
    BY <1>3, <1>5, <1>6, <1>7, <1>8 DEF Sound, Revalidated
<1>10. Grows(e, f)
    BY <1>1, <1>3, <1>4 DEF Grows
<1> QED BY <1>9, <1>10

LEMMA LearningSampleSound ==
    ASSUME NEW e, Sound(e), e.phase = "Learning", NEW i \in e.active,
           e.samples[i] < e.learning_target,
           NEW f, f = [e EXCEPT !.samples[i] = add_sample(@, sample_window)]
    PROVE  Sound(f) /\ Grows(e, f)
<1> DEFINE n == add_sample(e.samples[i], sample_window)
<1>1. e \in Entry /\ i \in Routes
      /\ \A j \in Routes : /\ e.warmups[j] \in Nat /\ e.samples[j] \in Nat
                           /\ e.holdouts[j] \in Nat
    BY DEF Sound, Ground, Entry
<1>2. /\ e.learning_target \in Nat /\ e.learning_target <= normalized_window
      /\ e.active \in SUBSET Routes
    BY <1>1 DEF Sound, Ground, Entry
<1>3. normalized_window <= SampleWindow(sample_window)
    BY DEF normalized_window, normalized_minimum, SampleWindow, Least, Most,
           maximum_sample_window
<1>4. SampleWindow(sample_window) \in Nat
    BY DEF SampleWindow, Least, Most, maximum_sample_window
<1>5. e.samples[i] < SampleWindow(sample_window)
    BY <1>1, <1>2, <1>3, <1>4, Settings
<1>6. /\ n \in Nat /\ e.samples[i] < n /\ n <= e.samples[i] + 1
    BY <1>1, <1>5, AddsOne
<1>7. n <= e.learning_target
    BY <1>1, <1>2, <1>6
<1> HIDE DEF n
<1>8. f = [e EXCEPT !.samples = [e.samples EXCEPT ![i] = n]]
    BY <1>1 DEF n, Entry
<1>9. [e.samples EXCEPT ![i] = n] \in [Routes -> Nat]
    BY <1>1, <1>6 DEF Entry
<1>10. f \in Entry
    BY <1>1, <1>8, <1>9 DEF Entry
<1>11. /\ f.samples = [e.samples EXCEPT ![i] = n] /\ f.warmups = e.warmups
       /\ f.holdouts = e.holdouts /\ f.active = e.active
       /\ f.phase = e.phase /\ f.stable = e.stable
       /\ f.learning_target = e.learning_target
       /\ f.verification_failures = e.verification_failures
       /\ f.revalidation = e.revalidation
    BY <1>1, <1>8 DEF Entry
<1>12. \A j \in Routes : f.samples[j] = IF j = i THEN n ELSE e.samples[j]
    BY <1>1, <1>11 DEF Entry
<1>13. Ground(f)
    BY <1>10, <1>11 DEF Sound, Ground
<1>14. WithinLimits(f)
    <2>1. WithinLimits(e)
        BY DEF Sound
    <2>2. \A j \in Routes : f.samples[j] <= normalized_window
        BY <1>1, <1>2, <1>6, <1>7, <1>12, <2>1, Settings DEF WithinLimits
    <2> QED BY <1>11, <2>1, <2>2 DEF WithinLimits
<1>15. Lagging(f)
    <2>1. Lagging(e)
        BY DEF Sound
    <2>2. CASE \A j \in e.active : e.samples[j] <= e.learning_target
        BY <1>2, <1>7, <1>11, <1>12, <2>2 DEF Lagging
    <2>3. ASSUME NEW a \in e.active, NEW b \in e.active, e.active = {a, b},
                 e.samples[a] <= e.learning_target
          PROVE  Lagging(f)
        <3>1. f.samples[a] <= f.learning_target
            BY <1>2, <1>7, <1>11, <1>12, <2>3
        <3> QED BY <1>11, <2>3, <3>1 DEF Lagging
    <2> QED BY <2>1, <2>2, <2>3 DEF Lagging
<1>16. \A j \in Routes \ f.active : normalized_minimum <= f.samples[j]
    BY <1>11, <1>12 DEF Sound
<1>17. Sound(f)
    BY <1>11, <1>13, <1>14, <1>15, <1>16 DEF Sound
<1>18. Grows(e, f)
    BY <1>1, <1>6, <1>11, <1>12 DEF Grows
<1> QED BY <1>17, <1>18

LEMMA HoldoutSampleSound ==
    ASSUME NEW e, Sound(e), e.phase = "Holdout", NEW i \in Routes,
           e.holdouts[i] < holdout_samples,
           NEW f, f = [e EXCEPT !.holdouts[i] = add_sample(@, sample_window)]
    PROVE  /\ Sound(f) /\ f.phase = "Holdout"
           /\ f.verification_failures = e.verification_failures
           /\ HoldoutFits => Grows(e, f)
<1> DEFINE n == add_sample(e.holdouts[i], sample_window)
<1>1. e \in Entry
      /\ \A j \in Routes : /\ e.warmups[j] \in Nat /\ e.samples[j] \in Nat
                           /\ e.holdouts[j] \in Nat
    BY DEF Sound, Ground, Entry
<1>2. SampleWindow(sample_window) \in Nat
    BY DEF SampleWindow, Least, Most, maximum_sample_window
<1>3. /\ n \in Nat /\ n <= e.holdouts[i] + 1 /\ e.holdouts[i] <= n
      /\ HoldoutFits => e.holdouts[i] < n
    <2>1. HoldoutFits => e.holdouts[i] < SampleWindow(sample_window)
        BY <1>1, <1>2 DEF HoldoutFits
    <2> QED BY <1>1, <2>1, AddsOne
<1>4. n <= holdout_samples
    BY <1>1, <1>3
<1> HIDE DEF n
<1>5. f = [e EXCEPT !.holdouts = [e.holdouts EXCEPT ![i] = n]]
    BY <1>1 DEF n, Entry
<1>6. [e.holdouts EXCEPT ![i] = n] \in [Routes -> Nat]
    BY <1>1, <1>3 DEF Entry
<1>7. f \in Entry
    BY <1>1, <1>5, <1>6 DEF Entry
<1>8. /\ f.holdouts = [e.holdouts EXCEPT ![i] = n] /\ f.warmups = e.warmups
      /\ f.samples = e.samples /\ f.active = e.active
      /\ f.phase = e.phase /\ f.stable = e.stable
      /\ f.learning_target = e.learning_target
      /\ f.verification_failures = e.verification_failures
      /\ f.revalidation = e.revalidation
      /\ f.provisional = e.provisional /\ f.runner_up = e.runner_up
    BY <1>1, <1>5 DEF Entry
<1>9. \A j \in Routes : f.holdouts[j] = IF j = i THEN n ELSE e.holdouts[j]
    BY <1>1, <1>8 DEF Entry
<1>10. Ground(f) /\ (Sampled(e) => Sampled(f))
    BY <1>7, <1>8 DEF Sound, Ground, Sampled
<1>11. WithinLimits(f)
    <2>1. WithinLimits(e)
        BY DEF Sound
    <2>2. \A j \in Routes : f.holdouts[j] <= holdout_samples
        BY <1>4, <1>9, <2>1 DEF WithinLimits
    <2> QED BY <1>8, <2>1, <2>2 DEF WithinLimits
<1>12. Sound(f)
    BY <1>8, <1>10, <1>11 DEF Sound
<1>13. HoldoutFits => Grows(e, f)
    BY <1>1, <1>3, <1>8, <1>9 DEF Grows
<1> QED BY <1>8, <1>12, <1>13

\* The window of a revalidation holds two samples.
LEMMA AddsTwo == add_sample(0, 2) = 1 /\ add_sample(1, 2) = 2
BY DEF add_sample, add_samples, Least, Most, maximum_sample_window

\* The next stage of a revalidation, of which d has the samples.
LEMMA StageSound ==
    ASSUME NEW e, Sound(e), e.stable, NEW d, Learned(e, d),
           d.stable_index = d.stable_route,
           d.challenger_index # d.stable_route,
           NEW p \in RevalidationPhases,
           <<d.stable_samples, d.challenger_samples>> = Evidence(p),
           NEW f, f = [d EXCEPT !.revalidation = p]
    PROVE  Sound(f) /\ f.stable
<1>1. d \in Entry
    BY DEF Learned
<1>2. f \in Entry
    BY <1>1 DEF Entry
<1>3. /\ Learned(d, f) /\ f.stable_route = d.stable_route
      /\ f.stable_index = d.stable_index
      /\ f.challenger_index = d.challenger_index
      /\ f.stable_samples = d.stable_samples
      /\ f.challenger_samples = d.challenger_samples
      /\ f.revalidation = p
    BY <1>1, <1>2 DEF Learned, Entry
<1>4. InOrder(f)
    BY <1>3 DEF InOrder
<1>5. Learned(e, f) /\ f.stable
    BY <1>3 DEF Learned
<1> QED BY <1>3, <1>4, <1>5, SoundAgain

\* The end of a revalidation.
LEMMA SettledSound ==
    ASSUME NEW e, Sound(e), e.stable, NEW d, Learned(e, d),
           NEW f \in finalize_revalidation(d)
    PROVE  Sound(f) /\ f.stable
<1>2. d \in Entry
    BY DEF Learned
<1>3. PICK n \in Nat : \/ f = [Settled(d) EXCEPT
                                 !.stable_route = d.challenger_index,
                                 !.interval = n]
                       \/ f = [Settled(d) EXCEPT !.interval = n]
    BY <1>2, Decisions
<1>4. /\ Settled(d) \in Entry /\ Learned(d, Settled(d))
      /\ Settled(d).revalidation = "Idle"
    <2>1. Settled(d) \in Entry
        BY <1>2, SettledTyped DEF Kin
    <2> QED BY <1>2, <2>1 DEF Settled, Learned, Entry
<1>5. d.challenger_index \in Routes
    BY <1>2 DEF Entry
<1>6. Learned(Settled(d), f) /\ f.revalidation = "Idle"
    <2>1. CASE f = [Settled(d) EXCEPT !.interval = n]
        <3>1. f \in Entry
            BY <1>4, <2>1 DEF Entry
        <3> QED BY <1>4, <2>1, <3>1 DEF Learned, Entry
    <2>2. CASE f = [Settled(d) EXCEPT !.stable_route = d.challenger_index,
                                      !.interval = n]
        <3>1. f \in Entry
            BY <1>4, <1>5, <2>2 DEF Entry
        <3> QED BY <1>4, <2>2, <3>1 DEF Learned, Entry
    <2> QED BY <1>3, <2>1, <2>2
<1>7. Learned(e, f) /\ f.stable
    BY <1>2, <1>4, <1>6 DEF Learned
<1> QED BY <1>6, <1>7, SoundAgain

\* The entry after the sample of a revalidation probe.
Advanced(e, stage) ==
    IF stage \in {1, 4}
      THEN [e EXCEPT !.stable_samples = add_sample(@, 2)]
      ELSE [e EXCEPT !.challenger_samples = add_sample(@, 2)]

\* A probe of a revalidation that finds it at its own stage.
LEMMA RevalidationSound ==
    ASSUME NEW e, Sound(e), e.stable, e.revalidation # "Idle",
           NEW stage, stage = RevalidationProbe(e)[2],
           NEW f \in advance_revalidation(Advanced(e, stage), stage)
    PROVE  Sound(f) /\ f.stable
<1>1. /\ e \in Entry /\ InOrder(e)
    BY DEF Sound, Ground
<1>2. /\ e.stable_index = e.stable_route
      /\ e.challenger_index # e.stable_route
      /\ e.revalidation \in RevalidationPhases \ {"Idle"}
      /\ e.stable_samples \in Nat /\ e.challenger_samples \in Nat
    BY <1>1 DEF InOrder, Entry
<1> DEFINE d == Advanced(e, stage)
<1>3. /\ d \in Entry /\ Learned(e, d)
      /\ d.stable_index = d.stable_route
      /\ d.challenger_index # d.stable_route
      /\ d.stable_samples = IF stage \in {1, 4}
                              THEN add_sample(e.stable_samples, 2)
                              ELSE e.stable_samples
      /\ d.challenger_samples = IF stage \in {1, 4}
                                  THEN e.challenger_samples
                                  ELSE add_sample(e.challenger_samples, 2)
    <2>1. /\ add_sample(e.stable_samples, 2) \in Nat
          /\ add_sample(e.challenger_samples, 2) \in Nat
        BY <1>2, Adds DEF add_sample
    <2>2. CASE stage \in {1, 4}
        <3>1. d = [e EXCEPT !.stable_samples = add_sample(@, 2)]
            BY <2>2 DEF Advanced
        <3> HIDE DEF d
        <3>2. d \in Entry
            BY <1>1, <2>1, <3>1 DEF Entry
        <3> QED BY <1>1, <1>2, <2>1, <2>2, <3>1, <3>2 DEF Learned, Entry
    <2>3. CASE stage \notin {1, 4}
        <3>1. d = [e EXCEPT !.challenger_samples = add_sample(@, 2)]
            BY <2>3 DEF Advanced
        <3> HIDE DEF d
        <3>2. d \in Entry
            BY <1>1, <2>1, <3>1 DEF Entry
        <3> QED BY <1>1, <1>2, <2>1, <2>3, <3>1, <3>2 DEF Learned, Entry
    <2> QED BY <2>2, <2>3
<1>4. f \in advance_revalidation(d, stage)
    OBVIOUS
<1> HIDE DEF d
<1>5. CASE e.revalidation = "StableA"
    <2>1. /\ stage = 1 /\ e.stable_samples = 0
          /\ e.challenger_samples = 0
        BY <1>1, <1>5 DEF RevalidationProbe, InOrder, Evidence
    <2>2. f = [d EXCEPT !.revalidation = "ChallengerA"]
        BY <1>4, <2>1 DEF advance_revalidation
    <2>3. <<d.stable_samples, d.challenger_samples>> = Evidence("ChallengerA")
        BY <1>3, <2>1, AddsTwo DEF Evidence
    <2>4. "ChallengerA" \in RevalidationPhases
        BY DEF RevalidationPhases
    <2> QED BY <1>3, <2>2, <2>3, <2>4, StageSound
<1>6. CASE e.revalidation = "ChallengerA"
    <2>1. /\ stage = 2 /\ e.stable_samples = 1
          /\ e.challenger_samples = 0
        BY <1>1, <1>6 DEF RevalidationProbe, InOrder, Evidence
    <2>2. f = [d EXCEPT !.revalidation = "ChallengerB"]
        BY <1>4, <2>1 DEF advance_revalidation
    <2>3. <<d.stable_samples, d.challenger_samples>> = Evidence("ChallengerB")
        BY <1>3, <2>1, AddsTwo DEF Evidence
    <2>4. "ChallengerB" \in RevalidationPhases
        BY DEF RevalidationPhases
    <2> QED BY <1>3, <2>2, <2>3, <2>4, StageSound
<1>7. CASE e.revalidation = "ChallengerB"
    <2>1. /\ stage = 3 /\ e.stable_samples = 1
          /\ e.challenger_samples = 1
        BY <1>1, <1>7 DEF RevalidationProbe, InOrder, Evidence
    <2>2. f = [d EXCEPT !.revalidation = "StableB"]
        BY <1>4, <2>1 DEF advance_revalidation
    <2>3. <<d.stable_samples, d.challenger_samples>> = Evidence("StableB")
        BY <1>3, <2>1, AddsTwo DEF Evidence
    <2>4. "StableB" \in RevalidationPhases
        BY DEF RevalidationPhases
    <2> QED BY <1>3, <2>2, <2>3, <2>4, StageSound
<1>8. CASE e.revalidation = "StableB"
    <2>1. stage = 4
        BY <1>8 DEF RevalidationProbe
    <2>2. f \in finalize_revalidation(d)
        BY <1>4, <2>1 DEF advance_revalidation
    <2> QED BY <1>3, <2>2, SettledSound
<1> QED BY <1>2, <1>5, <1>6, <1>7, <1>8 DEF RevalidationPhases

\* A drift sample of the stable route.
LEMMA DriftSound ==
    ASSUME NEW e, Sound(e), e.stable, e.revalidation = "Idle",
           NEW f \in process_drift_sample(e, e.stable_route)
    PROVE  Sound(f) /\ f.stable
<1>1. e \in Entry
    BY DEF Sound, Ground
<1>2. CASE f = [e EXCEPT !.drift_strikes = 0]
    <2>1. f \in Entry
        BY <1>1, <1>2 DEF Entry
    <2>2. Learned(e, f) /\ f.revalidation = "Idle" /\ f.stable
        BY <1>1, <1>2, <2>1 DEF Learned, Entry
    <2> QED BY <2>2, SoundAgain
<1>3. /\ Struck(e) \in Entry /\ Learned(e, Struck(e))
      /\ Struck(e).revalidation = "Idle" /\ Struck(e).stable
      /\ Struck(e).stable_route = e.stable_route
    <2>1. Struck(e) \in Entry
        BY <1>1, StruckTyped DEF Kin
    <2> QED BY <1>1, <2>1 DEF Struck, Learned, Entry
<1>4. Sound(Struck(e))
    BY <1>3, SoundAgain
<1>5. CASE /\ ~(route_count < 2)
           /\ f = [initialize_revalidation(Struck(e)) EXCEPT
                     !.stable_index = e.stable_route, !.stable_samples = 1,
                     !.revalidation = "ChallengerA"]
    <2> DEFINE c == Struck(e)
               h == initialize_revalidation(c)
    <2>1. h \in Entry
        BY <1>3, InitializeTyped DEF Kin
    <2>2. /\ Learned(c, h) /\ h.stable_route = c.stable_route
          /\ h.challenger_index = Alternative(c, c.stable_route)
          /\ h.challenger_samples = 0
        BY <1>3, <2>1 DEF initialize_revalidation, Learned, Entry
    <2>3. route_count > 1
        BY <1>5
    <2>4. Alternative(c, c.stable_route) # c.stable_route
        BY <1>3, <2>3, AlternativeTyped
    <2>5. e.stable_route \in Routes
        BY <1>1 DEF Entry
    <2> HIDE DEF h, c
    <2>6. f = [h EXCEPT !.stable_index = e.stable_route, !.stable_samples = 1,
                        !.revalidation = "ChallengerA"]
        BY <1>5 DEF h, c
    <2>7. f \in Entry
        BY <2>1, <2>5, <2>6 DEF Entry, RevalidationPhases
    <2>8. /\ Learned(h, f) /\ f.stable_route = h.stable_route
          /\ f.stable_index = e.stable_route
          /\ f.challenger_index = h.challenger_index
          /\ f.stable_samples = 1
          /\ f.challenger_samples = h.challenger_samples
          /\ f.revalidation = "ChallengerA"
        BY <2>1, <2>6, <2>7 DEF Learned, Entry
    <2>9. Learned(c, f) /\ f.stable
        BY <1>3, <2>2, <2>8 DEF Learned, c
    <2>10. InOrder(f)
        BY <1>3, <2>2, <2>4, <2>8 DEF InOrder, Evidence, c
    <2> QED BY <1>4, <2>9, <2>10, SoundAgain DEF c
<1>6. \/ f = [e EXCEPT !.drift_strikes = 0]
      \/ f = Struck(e)
      \/ /\ ~(route_count < 2)
         /\ f = [initialize_revalidation(Struck(e)) EXCEPT
                   !.stable_index = e.stable_route, !.stable_samples = 1,
                   !.revalidation = "ChallengerA"]
    BY DriftOutcomes
<1> QED BY <1>2, <1>3, <1>4, <1>5, <1>6

\* complete, for a probe that finds the profile as select left it.
LEMMA CompleteSound ==
    ASSUME NEW e, Sound(e), NEW t \in Threads, NEW route \in Routes,
           NEW kind \in Kinds \ {"none"}, NEW stage,
           Matches(e, [route |-> route, kind |-> kind, stage |-> stage]),
           NEW f \in complete(e, t, route, kind, stage)
    PROVE  Sound(f) /\ (HoldoutFits => Progress(e, f))
<1> DEFINE d == release_probe(e, t)
           g == Stored(e, t, route, kind, stage)
<1>1. /\ e \in Entry /\ Learned(e, d) /\ Revalidated(e, d)
    BY ReleaseFields DEF Sound, Ground
<1>2. Sound(d)
    BY <1>1, SoundSame
<1>3. RevalidationProbe(d) = RevalidationProbe(e)
    BY <1>1 DEF RevalidationProbe, Revalidated
<1>4. Matches(d, [route |-> route, kind |-> kind, stage |-> stage])
    BY <1>1, <1>3 DEF Matches, Learned, Revalidated
<1>5. ASSUME Grows(d, f) \/ f.verification_failures > d.verification_failures
      PROVE  Progress(e, f)
    BY <1>1, <1>5 DEF Progress, Grows, Learned
<1>6. \/ kind = "revalidation" /\ f \in advance_revalidation(g, stage)
      \/ kind = "drift" /\ f \in process_drift_sample(g, route)
      \/ kind = "warmup" /\ f = g
      \/ kind = "holdout" /\ f \in finalize_holdout(g)
      \/ kind = "learning" /\ f \in prepare_learning_state(g)
    BY CompleteOutcomes
<1>7. CASE kind = "revalidation"
    <2>1. g = Advanced(d, stage)
        BY <1>7 DEF Stored, Advanced
    <2>2. f \in advance_revalidation(g, stage)
        BY <1>6, <1>7
    <2> HIDE DEF d, g
    <2>3. /\ d.stable /\ d.revalidation # "Idle"
          /\ stage = RevalidationProbe(d)[2]
        BY <1>4, <1>7 DEF Matches
    <2>4. Sound(f) /\ f.stable
        BY <1>2, <2>1, <2>2, <2>3, RevalidationSound
    <2> QED BY <2>4 DEF Progress
<1>8. CASE kind = "drift"
    <2>1. g = d
        BY <1>8 DEF Stored
    <2>2. f \in process_drift_sample(g, route)
        BY <1>6, <1>8
    <2> HIDE DEF d, g
    <2>3. /\ d.stable /\ d.revalidation = "Idle" /\ route = d.stable_route
        BY <1>4, <1>8 DEF Matches
    <2>4. Sound(f) /\ f.stable
        BY <1>2, <2>1, <2>2, <2>3, DriftSound
    <2> QED BY <2>4 DEF Progress
<1>9. CASE kind = "warmup"
    <2>1. g = [d EXCEPT !.warmups[route] = @ + 1]
        BY <1>9 DEF Stored
    <2>2. f = g
        BY <1>6, <1>9
    <2> HIDE DEF d, g
    <2>3. d.warmups[route] < warmup_samples
        BY <1>4, <1>9 DEF Matches
    <2>4. Sound(f) /\ Grows(d, f)
        BY <1>2, <2>1, <2>2, <2>3, WarmupSound
    <2> QED BY <1>5, <2>4
<1>10. CASE kind = "learning"
    <2>1. g = [d EXCEPT !.samples[route] = add_sample(@, sample_window)]
        BY <1>10 DEF Stored
    <2>2. f \in prepare_learning_state(g)
        BY <1>6, <1>10
    <2> HIDE DEF d, g
    <2>3. /\ d.phase = "Learning" /\ route \in d.active
          /\ d.samples[route] < d.learning_target
        BY <1>4, <1>10 DEF Matches
    <2>4. Sound(g) /\ Grows(d, g)
        BY <1>2, <2>1, <2>3, LearningSampleSound
    <2>5. /\ Sound(f) /\ f.samples = g.samples /\ f.warmups = g.warmups
          /\ f.holdouts = g.holdouts
        BY <2>2, <2>4, PrepareSound
    <2>6. Grows(d, f)
        BY <2>4, <2>5 DEF Grows
    <2> QED BY <1>5, <2>5, <2>6
<1>11. CASE kind = "holdout"
    <2>1. g = [d EXCEPT !.holdouts[route] = add_sample(@, sample_window)]
        BY <1>11 DEF Stored
    <2>2. f \in finalize_holdout(g)
        BY <1>6, <1>11
    <2> HIDE DEF d, g
    <2>3. d.phase = "Holdout" /\ d.holdouts[route] < holdout_samples
        BY <1>4, <1>11 DEF Matches
    <2>4. /\ Sound(g) /\ g.phase = "Holdout"
          /\ g.verification_failures = d.verification_failures
          /\ HoldoutFits => Grows(d, g)
        BY <1>2, <2>1, <2>3, HoldoutSampleSound
    <2>5. /\ Sound(f)
          /\ \/ f = g
             \/ f.stable
             \/ f.verification_failures = g.verification_failures + 1
        BY <2>2, <2>4, FinalizeSound
    <2>6. d.verification_failures \in Nat
        BY <1>2 DEF Sound, Ground, Entry
    <2>7. CASE f.verification_failures = g.verification_failures + 1
        BY <1>5, <2>4, <2>5, <2>6, <2>7
    <2>8. CASE f = g
        BY <1>5, <2>4, <2>5, <2>8
    <2>9. CASE f.stable
        BY <2>5, <2>9 DEF Progress
    <2> QED BY <2>5, <2>7, <2>8, <2>9
<1> QED BY <1>7, <1>8, <1>9, <1>10, <1>11 DEF Kinds

-----------------------------------------------------------------------------
(* Calls and profiles.                                                     *)

\* A step drops no profile that a call probes.
Stays ==
    \A k \in Keys : Present(k) /\ entries[k].probe # NoThread
        => entries'[k] # NoEntry

\* Neither an eviction nor a clear takes a profile from under a probe.
ProbedProfilesStay == [][Stays]_vars

\* A call that fills the cache before it runs its route does not probe.
Settling ==
    \A t \in Threads : pc[t] \in {"publish", "store_selected"}
        => selection[t].kind = "none"

LearnedInv == SlotInv /\ LearnInv /\ Attached /\ Settling

\* Steps that touch neither the entries nor a probe.
LEMMA AttachedKept ==
    ASSUME LearnedInv, NEW t \in Threads, Moves(t), UNCHANGED entries,
           pc'[t] \in {"run", "complete"} /\ selection'[t].kind # "none"
             => /\ pc[t] \in {"run", "complete"}
                /\ key'[t] = key[t] /\ selection'[t] = selection[t],
           pc'[t] \in {"publish", "store_selected"}
             => selection'[t].kind = "none"
    PROVE  LearnInv' /\ Attached' /\ Settling'
<1>1. LearnInv'
    BY DEF LearnedInv, LearnInv, Present
<1>2. ASSUME NEW u \in Threads,
             pc'[u] \in {"run", "complete"}, selection'[u].kind # "none"
      PROVE  /\ entries[key'[u]] # NoEntry /\ entries[key'[u]].probe = u
             /\ Matches(entries[key'[u]], selection'[u])
    <2>1. /\ pc[u] \in {"run", "complete"} /\ key'[u] = key[u]
          /\ selection'[u] = selection[u]
        BY <1>2 DEF Moves
    <2> QED BY <1>2, <2>1 DEF LearnedInv, Attached, Present
<1>3. Attached'
    BY <1>2 DEF Attached, Present
<1>4. Settling'
    BY DEF LearnedInv, Settling, Moves
<1> QED BY <1>1, <1>3, <1>4

\* A probe that ends replaces the profile it holds.
LEMMA AttachedReleased ==
    ASSUME LearnedInv, NEW t \in Threads, Moves(t), NEW f, Sound(f),
           pc[t] \in {"run", "complete"}, selection[t].kind # "none",
           pc'[t] \in {"idle", "after"},
           entries' = [entries EXCEPT ![key[t]] = f]
    PROVE  LearnInv' /\ Attached' /\ Settling'
<1>1. /\ entries \in [Keys -> Entry \cup {NoEntry}] /\ key[t] \in Keys
    BY DEF LearnedInv, SlotInv, Typed
<1>2. entries[key[t]].probe = t
    BY DEF LearnedInv, Attached
<1>3. LearnInv'
    BY <1>1 DEF LearnedInv, LearnInv, Present
<1>4. ASSUME NEW u \in Threads,
             pc'[u] \in {"run", "complete"}, selection'[u].kind # "none"
      PROVE  /\ entries'[key'[u]] # NoEntry /\ entries'[key'[u]].probe = u
             /\ Matches(entries[key[u]], selection[u])'
    <2>1. /\ u # t /\ pc[u] \in {"run", "complete"} /\ key'[u] = key[u]
          /\ selection'[u] = selection[u]
        BY <1>4 DEF Moves
    <2>2. /\ entries[key[u]] # NoEntry /\ entries[key[u]].probe = u
          /\ Matches(entries[key[u]], selection[u])
        BY <1>4, <2>1 DEF LearnedInv, Attached, Present
    <2>3. entries'[key[u]] = entries[key[u]]
        BY <1>1, <1>2, <2>1, <2>2
    <2> QED BY <2>1, <2>2, <2>3
<1>5. Attached'
    BY <1>4 DEF Attached, Present
<1>6. Settling'
    BY DEF LearnedInv, Settling, Moves
<1> QED BY <1>3, <1>5, <1>6

\* select leaves a profile alone that another call probes.
LEMMA SelectBusy ==
    ASSUME NEW e, e.probe # NoThread, NEW t, NEW seed, NEW why,
           NEW s \in select(e, t, seed, why)
    PROVE  s.entry = e /\ s.kind = "none"
<1>1. s = SelectFallback(e)
    BY DEF select, Busy
<1> QED BY <1>1 DEF SelectFallback, Selection

LEMMA SelectLearned ==
    ASSUME LearnedInv, Stays, NEW t \in Threads, Select(t)
    PROVE  LearnInv' /\ Attached' /\ Settling'
<1> DEFINE k == key[t]
           e == IF Present(k) THEN entries[k] ELSE reset_entry
<1>1. k \in Keys /\ rotation_seed[k[1]] \in Routes
    BY KeysTyped DEF LearnedInv, SlotInv, Typed
<1>2. Sound(e) /\ e \in Entry
    BY <1>1, ResetSound DEF LearnedInv, LearnInv, Sound, Ground
<1>3. Present(k) => e = entries[k]
    OBVIOUS
<1> HIDE DEF e
<1>4. PICK s \in select(e, t, rotation_seed[k[1]], force[t]) :
         /\ entries' = [j \in Keys |-> IF j = k THEN s.entry
                                       ELSE IF j \in Victims(k) THEN NoEntry
                                       ELSE entries[j]]
         /\ selection' = [selection EXCEPT ![t] =
                            [route |-> s.route, kind |-> s.kind,
                             stage |-> s.stage, stable |-> s.stable]]
         /\ Goto(t, IF s.stable /\ s.kind = "none" THEN "publish" ELSE "run")
    BY DEF Select, e
<1>5. Ordered(e, t, s)
    BY <1>1, <1>2, <1>4, SelectTyped
<1>6. Sound(s.entry) /\ (s.kind # "none" => Matches(s.entry, s))
    BY <1>1, <1>2, <1>4, SelectSound
<1>7. /\ pc[t] = "select" /\ key' = key
      /\ pc'[t] \in {"publish", "run"} /\ (pc'[t] = "publish" => s.kind = "none")
      /\ selection'[t] = [route |-> s.route, kind |-> s.kind,
                          stage |-> s.stage, stable |-> s.stable]
      /\ \A u \in Threads \ {t} : /\ pc'[u] = pc[u]
                                  /\ selection'[u] = selection[u]
    BY <1>4 DEF Select, Goto, LearnedInv, SlotInv, Typed
<1>8. ASSUME NEW j \in Keys, entries'[j] # NoEntry
      PROVE  Sound(entries'[j])
    <2>1. CASE j = k
        BY <1>4, <1>6, <2>1
    <2>2. CASE j # k
        <3>1. entries'[j] = entries[j]
            BY <1>4, <1>8, <2>2
        <3> QED BY <1>8, <3>1 DEF LearnedInv, LearnInv, Present
    <2> QED BY <2>1, <2>2
<1>9. LearnInv'
    <2>1. \A j \in Keys : entries'[j] # NoEntry => Sound(entries[j])'
        BY <1>8
    <2> QED BY <2>1 DEF LearnInv, Present
<1>10. ASSUME NEW u \in Threads,
              pc'[u] \in {"run", "complete"}, selection'[u].kind # "none"
       PROVE  /\ entries'[key'[u]] # NoEntry /\ entries'[key'[u]].probe = u
              /\ Matches(entries[key[u]], selection[u])'
    <2>1. CASE u = t
        <3>1. s.kind # "none" /\ entries'[key'[u]] = s.entry
            BY <1>1, <1>4, <1>7, <1>10, <2>1
        <3>2. s.entry.probe = t /\ s.entry \in Entry
            BY <1>5, <3>1 DEF Ordered
        <3>3. s.entry # NoEntry
            BY <3>2, NoEntryApart
        <3>4. Matches(s.entry, selection'[t])
            BY <1>6, <1>7, <3>1 DEF Matches
        <3> QED BY <2>1, <3>1, <3>2, <3>3, <3>4
    <2>2. CASE u # t
        <3>1. /\ pc[u] \in {"run", "complete"} /\ key'[u] = key[u]
              /\ selection'[u] = selection[u] /\ selection[u].kind # "none"
            BY <1>7, <1>10, <2>2
        <3>2. /\ entries[key[u]] # NoEntry /\ entries[key[u]].probe = u
              /\ Matches(entries[key[u]], selection[u])
            BY <3>1 DEF LearnedInv, Attached, Present
        <3>3. key[u] \in Keys /\ u # NoThread
            BY DEF LearnedInv, SlotInv, Typed
        <3>4. entries'[key[u]] # NoEntry
            BY <3>2, <3>3 DEF Stays, Present
        <3>5. entries'[key[u]] = entries[key[u]]
            <4>1. CASE key[u] = k
                <5>1. e = entries[k] /\ e.probe # NoThread
                    BY <1>3, <3>2, <3>3, <4>1 DEF Present
                <5>2. s.entry = e
                    BY <1>4, <5>1, SelectBusy
                <5> QED BY <1>1, <1>4, <4>1, <5>1, <5>2
            <4>2. CASE key[u] # k
                BY <1>4, <3>3, <3>4, <4>2
            <4> QED BY <4>1, <4>2
        <3> QED BY <3>1, <3>2, <3>5
    <2> QED BY <2>1, <2>2
<1>11. Attached'
    BY <1>10 DEF Attached, Present
<1>12. Settling'
    BY <1>7 DEF LearnedInv, Settling
<1> QED BY <1>9, <1>11, <1>12

\* A call that ends, or goes on to another place, without a probe.
LEMMA FinishLearned ==
    ASSUME LearnedInv, NEW t \in Threads, Finish(t), pc[t] # "clear_epoch",
           UNCHANGED <<entries, route_cache_epoch>>
    PROVE  LearnInv' /\ Attached' /\ Settling'
<1>1. Moves(t) /\ pc'[t] = "idle"
    BY FinishMoves DEF LearnedInv
<1> QED BY <1>1, AttachedKept

LEMMA GotoLearned ==
    ASSUME LearnedInv, NEW t \in Threads, NEW p \in Places, Goto(t, p),
           UNCHANGED <<entries, selection>>, Moves(t),
           p \in {"run", "complete"} /\ selection[t].kind # "none"
             => pc[t] \in {"run", "complete"} /\ key'[t] = key[t],
           p \in {"publish", "store_selected"} => selection[t].kind = "none"
    PROVE  LearnInv' /\ Attached' /\ Settling'
<1>1. pc'[t] = p
    BY GotoMoves DEF LearnedInv
<1> QED BY <1>1, AttachedKept

\* What the end of a probe leaves behind.
LEMMA CompleteLearned ==
    ASSUME LearnedInv, NEW t \in Threads, CompleteProbe(t)
    PROVE  /\ Moves(t) /\ pc[t] = "complete" /\ pc'[t] = "after"
           /\ \E f : /\ entries' = [entries EXCEPT ![key[t]] = f]
                     /\ Sound(f)
                     /\ HoldoutFits => Progress(entries[key[t]], f)
<1>1. /\ pc[t] = "complete" /\ Goto(t, "after") /\ Present(key[t])
      /\ selection[t].kind # "none" /\ UNCHANGED <<key, selection>>
    BY DEF CompleteProbe
<1>2. /\ pc'[t] = "after" /\ \A u \in Threads \ {t} : pc'[u] = pc[u]
    BY <1>1, GotoMoves DEF Places, LearnedInv
<1>3. Moves(t)
    BY <1>1, <1>2 DEF Moves
<1>4. PICK f \in complete(entries[key[t]], t, selection[t].route,
                          selection[t].kind, selection[t].stage) :
          entries' = [entries EXCEPT ![key[t]] = f]
    BY DEF CompleteProbe
<1>5. selection[t].route \in Routes /\ selection[t].kind \in Kinds \ {"none"}
    BY <1>1 DEF LearnedInv, SlotInv, Typed, Selections
<1>6. Sound(entries[key[t]])
    BY <1>1 DEF LearnedInv, LearnInv, SlotInv, Typed
<1>7. Matches(entries[key[t]], selection[t])
    BY <1>1 DEF LearnedInv, Attached
<1>8. Matches(entries[key[t]], [route |-> selection[t].route,
                                kind |-> selection[t].kind,
                                stage |-> selection[t].stage])
    BY <1>7 DEF Matches
<1>9. Sound(f) /\ (HoldoutFits => Progress(entries[key[t]], f))
    BY <1>4, <1>5, <1>6, <1>8, CompleteSound
<1> QED BY <1>1, <1>2, <1>3, <1>4, <1>9

LEMMA CallLearned ==
    ASSUME LearnedInv, Stays, NEW t \in Threads, CallStep(t)
    PROVE  LearnInv' /\ Attached' /\ Settling'
<1>0. ASSUME NEW p \in Places, Goto(t, p), UNCHANGED <<key, selection>>
      PROVE  Moves(t)
    BY <1>0, GotoMoves DEF LearnedInv, Moves
<1>1. CASE RunHot(t)
    BY <1>1, FinishLearned DEF RunHot
<1>2. CASE LeaveHot(t)
    <2>1. /\ Goto(t, "select") /\ "select" \in Places
          /\ UNCHANGED <<entries, key, selection>>
        BY <1>2 DEF LeaveHot, Places
    <2> QED BY <1>0, <2>1, GotoLearned
<1>3. CASE MissHot(t)
    <2>1. /\ Goto(t, "select") /\ "select" \in Places
          /\ UNCHANGED <<entries, key, selection>>
        BY <1>3 DEF MissHot, Places
    <2> QED BY <1>0, <2>1, GotoLearned
<1>4. CASE Select(t)
    BY <1>4, SelectLearned
<1>5. CASE Publish(t)
    <2>1. /\ Goto(t, "store_selected") /\ "store_selected" \in Places
          /\ UNCHANGED <<entries, key, selection>> /\ pc[t] = "publish"
        BY <1>5 DEF Publish, Places
    <2>2. selection[t].kind = "none"
        BY <2>1 DEF LearnedInv, Settling
    <2> QED BY <1>0, <2>1, <2>2, GotoLearned
<1>6. CASE StoreSelected(t)
    <2>1. /\ Goto(t, "run") /\ "run" \in Places
          /\ UNCHANGED <<entries, key, selection>> /\ pc[t] = "store_selected"
        BY <1>6 DEF StoreSelected, Places
    <2>2. selection[t].kind = "none"
        BY <2>1 DEF LearnedInv, Settling
    <2> QED BY <1>0, <2>1, <2>2, GotoLearned
<1>7. CASE RunReturns(t)
    <2>1. /\ Goto(t, "complete") /\ "complete" \in Places
          /\ UNCHANGED <<entries, key, selection>> /\ pc[t] = "run"
        BY <1>7 DEF RunReturns, Places
    <2> QED BY <1>0, <2>1, GotoLearned
<1>8. CASE RunThrows(t)
    <2>1. Finish(t) /\ pc[t] = "run" /\ UNCHANGED route_cache_epoch
        BY <1>8 DEF RunThrows
    <2>2. CASE selection[t].kind # "none" /\ Present(key[t])
        <3> DEFINE f == release_probe(entries[key[t]], t)
        <3>1. Sound(entries[key[t]])
            BY <2>2 DEF LearnedInv, LearnInv, SlotInv, Typed
        <3>2. Sound(f)
            BY <3>1, ReleaseFields, SoundSame DEF Sound, Ground
        <3>3. entries' = [entries EXCEPT ![key[t]] = f]
            BY <1>8, <2>2 DEF RunThrows
        <3> HIDE DEF f
        <3>4. Moves(t) /\ pc'[t] = "idle"
            BY <2>1, FinishMoves DEF LearnedInv
        <3> QED BY <2>1, <2>2, <3>2, <3>3, <3>4, AttachedReleased
    <2>3. CASE ~(selection[t].kind # "none" /\ Present(key[t]))
        <3>1. UNCHANGED entries
            BY <1>8, <2>3 DEF RunThrows
        <3> QED BY <2>1, <3>1, FinishLearned
    <2> QED BY <2>2, <2>3
<1>9. CASE CompleteProbe(t)
    <2>1. PICK f : entries' = [entries EXCEPT ![key[t]] = f] /\ Sound(f)
        BY <1>9, CompleteLearned
    <2>2. Moves(t) /\ pc[t] = "complete" /\ pc'[t] = "after"
        BY <1>9, CompleteLearned
    <2>3. selection[t].kind # "none"
        BY <1>9 DEF CompleteProbe
    <2> QED BY <2>1, <2>2, <2>3, AttachedReleased
<1>10. CASE CompleteNothing(t)
    <2>1. /\ Goto(t, "after") /\ "after" \in Places
          /\ UNCHANGED <<entries, key, selection>>
        BY <1>10 DEF CompleteNothing, Places
    <2> QED BY <1>0, <2>1, GotoLearned
<1>11. CASE SnapshotNothing(t)
    BY <1>11, FinishLearned DEF SnapshotNothing
<1>12. CASE SnapshotAfter(t)
    <2>1. PICK p \in {"store_result", "invalidate"} : Goto(t, p)
        BY <1>12 DEF SnapshotAfter
    <2>2. p \in Places /\ UNCHANGED <<entries, key, selection>>
        BY <1>12 DEF SnapshotAfter, Places
    <2> QED BY <1>0, <2>1, <2>2, GotoLearned
<1>13. CASE InvalidateHotRoutes(t)
    <2>1. pc[t] = "invalidate" /\ UNCHANGED <<entries, route_cache_epoch>>
        BY <1>13 DEF InvalidateHotRoutes
    <2>2. CASE Finish(t)
        BY <2>1, <2>2, FinishLearned
    <2>3. CASE Goto(t, "store_result") /\ UNCHANGED <<key, selection>>
        <3>1. "store_result" \in Places
            BY DEF Places
        <3> QED BY <1>0, <2>1, <2>3, <3>1, GotoLearned
    <2> QED BY <1>13, <2>2, <2>3 DEF InvalidateHotRoutes
<1>14. CASE StoreResult(t)
    BY <1>14, FinishLearned DEF StoreResult
<1> QED BY <1>1, <1>2, <1>3, <1>4, <1>5, <1>6, <1>7, <1>8, <1>9, <1>10,
           <1>11, <1>12, <1>13, <1>14 DEF CallStep

LEMMA BeginLearned ==
    ASSUME LearnedInv, NEW t \in Threads, NEW i \in Images, Begin(t, i)
    PROVE  LearnInv' /\ Attached' /\ Settling'
<1>1. /\ Goto(t, "lookup") /\ "lookup" \in Places
      /\ key' = [key EXCEPT ![t] = <<i, route_cache_epoch>>]
      /\ UNCHANGED <<entries, selection>>
    BY DEF Begin, Places
<1>2. Moves(t)
    <2>1. \A u \in Threads \ {t} : pc'[u] = pc[u]
        BY <1>1, GotoMoves DEF LearnedInv
    <2>2. \A u \in Threads \ {t} : key'[u] = key[u]
        BY <1>1 DEF LearnedInv, SlotInv, Typed
    <2> QED BY <1>1, <2>1, <2>2 DEF Moves
<1> QED BY <1>1, <1>2, GotoLearned

LEMMA ClearLearned ==
    ASSUME LearnedInv, Stays, NEW t \in Threads, ClearStep(t)
    PROVE  LearnInv' /\ Attached' /\ Settling'
<1>1. ASSUME NEW p \in Places, Goto(t, p), UNCHANGED <<entries, key, selection>>,
             p \in {"clear_hot", "idle"}
      PROVE  LearnInv' /\ Attached' /\ Settling'
    <2>1. Moves(t)
        BY <1>1, GotoMoves DEF LearnedInv, Moves
    <2> QED BY <1>1, <2>1, GotoLearned
<1>2. CASE ClearEpoch(t)
    BY <1>1, <1>2 DEF ClearEpoch, Places
<1>3. CASE ClearHot(t)
    BY <1>1, <1>3 DEF ClearHot, Places
<1>4. CASE ClearSelector(t)
    <2>1. /\ Goto(t, "clear_epoch") /\ entries' = [k \in Keys |-> NoEntry]
          /\ UNCHANGED <<key, selection>>
        BY <1>4 DEF ClearSelector
    <2>2. /\ pc'[t] = "clear_epoch" /\ \A u \in Threads \ {t} : pc'[u] = pc[u]
        BY <2>1, GotoMoves DEF LearnedInv, Places
    <2>3. \A k \in Keys : entries'[k] = NoEntry
        BY <2>1
    <2>4. LearnInv'
        BY <2>3 DEF LearnInv, Present
    <2>5. ASSUME NEW u \in Threads, pc'[u] \in {"run", "complete"},
                 selection'[u].kind # "none"
          PROVE  FALSE
        <3>1. pc[u] = pc'[u] /\ selection[u] = selection'[u]
            BY <2>1, <2>2, <2>5
        <3>2. Present(key[u]) /\ entries[key[u]].probe = u
            BY <2>5, <3>1 DEF LearnedInv, Attached
        <3>3. key[u] \in Keys /\ u # NoThread
            BY DEF LearnedInv, SlotInv, Typed
        <3> QED BY <2>3, <3>2, <3>3 DEF Stays
    <2>6. Attached'
        BY <2>5 DEF Attached
    <2>7. Settling'
        BY <2>1, <2>2 DEF LearnedInv, Settling
    <2> QED BY <2>4, <2>6, <2>7
<1> QED BY <1>2, <1>3, <1>4 DEF ClearStep

LEMMA LearnedStep == LearnedInv /\ [Next /\ Stays]_vars => LearnedInv'
<1> SUFFICES ASSUME LearnedInv, [Next /\ Stays]_vars PROVE LearnedInv'
    OBVIOUS
<1>1. SlotInv'
    <2>1. [Next]_vars
        OBVIOUS
    <2> QED BY <2>1, SlotStep DEF LearnedInv
<1>2. CASE Next /\ Stays
    <2>1. LearnInv' /\ Attached' /\ Settling'
        BY <1>2, BeginLearned, CallLearned, ClearLearned DEF Next
    <2> QED BY <1>1, <2>1 DEF LearnedInv
<1>3. CASE UNCHANGED vars
    <2>1. LearnInv'
        BY <1>3 DEF LearnedInv, LearnInv, Present
    <2>2. Attached' /\ Settling'
        BY <1>3 DEF LearnedInv, Attached, Settling, Present
    <2> QED BY <1>1, <2>1, <2>2 DEF LearnedInv
<1> QED BY <1>2, <1>3

LEMMA LearnedAlways == Spec /\ ProbedProfilesStay => []LearnedInv
<1>1. Init => LearnedInv
    <2> SUFFICES ASSUME Init PROVE LearnedInv
        OBVIOUS
    <2>2. SlotInv
        BY SlotInit
    <2>3. LearnInv /\ Attached /\ Settling
        BY DEF Init, LearnInv, Attached, Settling, Present
    <2> QED BY <2>2, <2>3 DEF LearnedInv
<1>2. LearnedInv /\ [Next]_vars /\ [Stays]_vars => LearnedInv'
    BY LearnedStep
<1> QED BY <1>1, <1>2, PTL DEF Spec, ProbedProfilesStay

(***************************************************************************)
(* As long as no profile is dropped under a probe, a stable route was      *)
(* measured in training and chosen between two routes with a complete      *)
(* holdout each (prepare_learning_state, finalize_holdout): "the           *)
(* provisional winner is never committed immediately".                     *)
(***************************************************************************)
THEOREM HoldoutProved == Spec /\ ProbedProfilesStay => []VerifiedByHoldout
<1>1. LearnedInv => VerifiedByHoldout
    <2> SUFFICES ASSUME LearnedInv, NEW k \in Keys, Present(k),
                        entries[k].stable
                 PROVE  LET e == entries[k] IN
                        /\ e.samples[e.stable_route] >= normalized_minimum
                        /\ route_count > 1 /\ holdout_samples > 0 =>
                             /\ e.provisional # e.runner_up
                             /\ \A i \in {e.provisional, e.runner_up} :
                                   e.holdouts[i] >= holdout_samples
        BY DEF VerifiedByHoldout
    <2> DEFINE e == entries[k]
    <2>1. Sound(e) /\ e.stable
        BY DEF LearnedInv, LearnInv
    <2> HIDE DEF e
    <2>2. e \in Entry /\ Sampled(e)
        BY <2>1 DEF Sound, Ground
    <2>3. /\ e.provisional \in Routes /\ e.runner_up \in Routes
          /\ e.stable_route \in Routes
          /\ \A i \in Routes : e.samples[i] \in Nat /\ e.holdouts[i] \in Nat
        BY <2>2 DEF Entry
    <2>4. e.samples[e.stable_route] >= normalized_minimum
        BY <2>2, <2>3, Settings DEF Sampled
    <2>5. route_count > 1 /\ holdout_samples > 0 => HeldOut(e)
        BY <2>1 DEF Sound
    <2>6. ASSUME route_count > 1, holdout_samples > 0
          PROVE  /\ e.provisional # e.runner_up
                 /\ \A i \in {e.provisional, e.runner_up} :
                       e.holdouts[i] >= holdout_samples
        BY <2>3, <2>5, <2>6 DEF HeldOut
    <2> QED BY <2>4, <2>6 DEF e
<1> QED BY <1>1, LearnedAlways, PTL

(***************************************************************************)
(* As long as no profile is dropped under a probe, a revalidation compares *)
(* the stable route with another one, and every stage finds exactly the    *)
(* samples of the stages before it (advance_revalidation).                 *)
(***************************************************************************)
THEOREM ABBAProved == Spec /\ ProbedProfilesStay => []RevalidationIsABBA
<1>1. LearnedInv => RevalidationIsABBA
    BY DEF LearnedInv, LearnInv, Sound, InOrder, RevalidationIsABBA
<1> QED BY <1>1, LearnedAlways, PTL

\* A profile with a new observation is not observed as before.
LEMMA GrowsObserved ==
    ASSUME NEW e \in Entry, NEW f \in Entry, Grows(e, f)
    PROVE  /\ Observed(f) # Observed(e)
           /\ \A what \in DOMAIN Observed(e) :
                 \A i \in Routes : f[what][i] >= e[what][i]
<1>1. \A i \in Routes :
         /\ e.warmups[i] \in Nat /\ e.samples[i] \in Nat
         /\ e.holdouts[i] \in Nat /\ f.warmups[i] \in Nat
         /\ f.samples[i] \in Nat /\ f.holdouts[i] \in Nat
    BY DEF Entry
<1>2. f.warmups # e.warmups \/ f.samples # e.samples \/ f.holdouts # e.holdouts
    BY <1>1 DEF Grows
<1>3. ASSUME NEW g
      PROVE  /\ Observed(g)["warmups"] = g.warmups
             /\ Observed(g)["samples"] = g.samples
             /\ Observed(g)["holdouts"] = g.holdouts
    BY DEF Observed
<1>4. Observed(f) # Observed(e)
    BY <1>2, <1>3
<1>5. DOMAIN Observed(e) = {"warmups", "samples", "holdouts"}
    BY DEF Observed
<1>6. ASSUME NEW i \in Routes
      PROVE  /\ f.warmups[i] >= e.warmups[i] /\ f.samples[i] >= e.samples[i]
             /\ f.holdouts[i] >= e.holdouts[i]
    BY <1>1, <1>6 DEF Grows
<1>7. ASSUME NEW what \in {"warmups", "samples", "holdouts"}, NEW i \in Routes
      PROVE  f[what][i] >= e[what][i]
    <2>1. CASE what = "warmups"
        BY <1>6, <2>1
    <2>2. CASE what = "samples"
        BY <1>6, <2>2
    <2>3. CASE what = "holdouts"
        BY <1>6, <2>3
    <2> QED BY <1>7, <2>1, <2>2, <2>3
<1> QED BY <1>4, <1>5, <1>7

\* What a completed probe achieves, for profile k.
Converging(t, k) ==
    /\ Present(k) /\ entries[k].probe = t /\ pc[t] = "complete"
    /\ pc'[t] = "after" /\ ~entries'[k].stable
    => /\ WithinLimits(entries'[k])
       /\ \/ entries'[k].verification_failures
                > entries[k].verification_failures
          \/ /\ Observed(entries'[k]) # Observed(entries[k])
             /\ \A what \in DOMAIN Observed(entries[k]) :
                  \A i \in Routes :
                      entries'[k][what][i] >= entries[k][what][i]

LEMMA ConvergingStep ==
    ASSUME HoldoutFits, LearnedInv, Next, NEW t \in Threads, NEW k \in Keys
    PROVE  Converging(t, k)
<1> SUFFICES ASSUME Present(k), entries[k].probe = t, pc[t] = "complete",
                    pc'[t] = "after", ~entries'[k].stable
             PROVE  /\ WithinLimits(entries'[k])
                    /\ \/ entries'[k].verification_failures
                             > entries[k].verification_failures
                       \/ /\ Observed(entries'[k]) # Observed(entries[k])
                          /\ \A what \in DOMAIN Observed(entries[k]) :
                               \A i \in Routes :
                                   entries'[k][what][i] >= entries[k][what][i]
    BY DEF Converging
<1>1. key[t] = k /\ selection[t].kind # "none" /\ t # NoThread
    BY DEF LearnedInv, SlotInv, ProbeSlotOwned, Probing
<1>2. PICK u \in Threads : (\E i \in Images : Begin(u, i)) \/ CallStep(u)
                             \/ ClearStep(u)
    BY DEF Next
<1>3. pc \in [Threads -> Places]
    BY DEF LearnedInv, SlotInv, Typed
<1>4. u = t
    <2>1. \E p : Goto(u, p)
        BY <1>2 DEF Begin, CallStep, ClearStep, RunHot, LeaveHot, MissHot,
           Select, Publish, StoreSelected, RunReturns, RunThrows,
           CompleteProbe, CompleteNothing, SnapshotNothing, SnapshotAfter,
           InvalidateHotRoutes, StoreResult, ClearSelector, ClearEpoch,
           ClearHot, Finish
    <2> QED BY <1>3, <2>1 DEF Goto
<1>5. CompleteProbe(t)
    <2>1. ~(\E i \in Images : Begin(t, i)) /\ ~ClearStep(t)
        BY DEF Begin, ClearStep, ClearSelector, ClearEpoch, ClearHot
    <2> QED BY <1>1, <1>2, <1>4, <2>1 DEF CallStep, RunHot, LeaveHot, MissHot,
           Select, Publish, StoreSelected, RunReturns, RunThrows,
           CompleteNothing, SnapshotNothing, SnapshotAfter,
           InvalidateHotRoutes, StoreResult
<1>6. PICK f : /\ entries' = [entries EXCEPT ![key[t]] = f] /\ Sound(f)
               /\ HoldoutFits => Progress(entries[key[t]], f)
    BY <1>5, CompleteLearned
<1>7. entries'[k] = f
    BY <1>1, <1>6 DEF LearnedInv, SlotInv, Typed
<1>8. entries[k] \in Entry /\ f \in Entry
    BY <1>6 DEF LearnedInv, SlotInv, Typed, Present, Sound, Ground
<1>9. ~f.stable /\ WithinLimits(f)
    BY <1>6, <1>7 DEF Sound
<1>10. \/ f.verification_failures > entries[k].verification_failures
       \/ Grows(entries[k], f)
    BY <1>1, <1>6, <1>9 DEF Progress
<1> QED BY <1>7, <1>8, <1>9, <1>10, GrowsObserved

(***************************************************************************)
(* "Bounded learning must always converge": if the sample window has room  *)
(* for a holdout and no profile is dropped under a probe, every probe that *)
(* completes locks a route in, fails one of the bounded number of          *)
(* holdouts, or adds one of the bounded number of observations.  The first *)
(* hypothesis is needed: complete stores the samples of a holdout in a     *)
(* window of sample_window, and the settings are not checked.              *)
(***************************************************************************)
THEOREM ConvergenceProved ==
    ASSUME HoldoutFits
    PROVE  Spec /\ ProbedProfilesStay => LearningConverges
<1> DEFINE Converge == \A t \in Threads : \A k \in Keys : Converging(t, k)
<1>1. LearnedInv /\ [Next]_vars => [Converge]_vars
    BY ConvergingStep
<1> HIDE DEF Converge
<1>2. Spec /\ ProbedProfilesStay => [][Converge]_vars
    BY <1>1, LearnedAlways, PTL DEF Spec
<1>3. Spec /\ ProbedProfilesStay
        => [][\A t \in Threads : \A k \in Keys : Converging(t, k)]_vars
    BY <1>2 DEF Converge
<1> QED BY <1>3 DEF LearningConverges, Converging
=============================================================================
